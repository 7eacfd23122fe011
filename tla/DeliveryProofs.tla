--------------------------- MODULE DeliveryProofs ---------------------------
(***************************************************************************)
(* What holds of the way from a branch to a release for every value of the *)
(* constants, component by component.                                      *)
(***************************************************************************)
EXTENDS Delivery, PlanningProofs, WellFoundedInduction, Sequences, FiniteSetTheorems, TLAPS

-----------------------------------------------------------------------------
(* The gates of a merge.                                                   *)

GateBools == BOOLEAN
GateFlags == {"hold", "autonomous", "qa"}
GateTexts == GateFlags \cup Repos \cup 1 .. MaxCuts
GateKinds == {"idle", "flag", "sign-off", "cut", "merge"}
GatePcs == {"idle", "truncate", "fill", "hold", "autonomous", "qa", "ledger", "list", "merge"}
GateRepos == Repos \cup {Gates!Idle.repo}
GateSubsets == SUBSET GateTexts
GateTodos == SUBSET PullRequests
GateCommands ==
    [kind : GateKinds, pc : GatePcs, repo : GateRepos, flag : GateFlags, on : GateBools,
     text : GateSubsets, todo : GateTodos, held : GateBools, unsigned : GateBools]
GateCommandsFit == v5 \in [Commands -> GateCommands]
GateTypes ==
    /\ v1 \subseteq GateFlags /\ v2 \subseteq Repos /\ v3 \in 0 .. MaxCuts
    /\ faults \in 0 .. MaxFaults /\ v6 \in BOOLEAN
GatePulls == v4 \in [PullRequests -> Repos \cup {"merged"}]
GateWord == v7 \in [hold : BOOLEAN, signed : SUBSET Repos]

LEMMA GatesTyped ==
    ASSUME Gates!TypeOK, Gates!TextsFit
    PROVE  GateCommandsFit /\ GateTypes /\ GatePulls /\ GateWord
<1>1. ASSUME NEW c \in Commands PROVE v5[c].text \in SUBSET GateTexts
  <2>1. v5[c].kind \in GateKinds
    BY DEF Gates!TypeOK, GateKinds
  <2>2. CASE v5[c].kind = "cut"
    <3>1. PICK n \in 1 .. MaxCuts : v5[c].text = 1 .. n
      BY <2>2 DEF Gates!TextsFit
    <3>2. 1 .. n \subseteq 1 .. MaxCuts
      BY ConstantsAssumption DEF Gates!BoundsAssumption
    <3> QED
      BY <3>1, <3>2 DEF GateTexts
  <2>3. CASE v5[c].kind # "cut"
    BY <2>1, <2>3 DEF Gates!TextsFit, GateKinds, GateTexts, GateFlags, Gates!Flags
  <2> QED
    BY <2>2, <2>3
<1>2. \A c \in Commands : v5[c] \in GateCommands
  BY <1>1 DEF Gates!TypeOK, GateCommands, GateFlags, GateKinds, GatePcs, GateRepos, GateSubsets, GateTodos, GateBools, Gates!Flags
<1>3. GateCommandsFit
  BY <1>2 DEF Gates!TypeOK, GateCommandsFit
<1> QED
  BY <1>3 DEF Gates!TypeOK, GateTypes, GatePulls, GateWord, GateFlags, Gates!Flags

LEMMA GatesFit == GateCommandsFit /\ GateTypes /\ GatePulls /\ GateWord => Gates!TypeOK
<1> SUFFICES ASSUME GateCommandsFit, GateTypes, GatePulls, GateWord PROVE Gates!TypeOK
  OBVIOUS
<1>1. v5 = [c \in Commands |-> v5[c]]
  BY DEF GateCommandsFit
<1>2. ASSUME NEW c \in Commands
      PROVE  v5[c] \in [kind : {"idle", "flag", "sign-off", "cut", "merge"},
            pc : {"idle", "truncate", "fill", "hold", "autonomous", "qa", "ledger", "list", "merge"},
            repo : Repos \cup {Gates!Idle.repo}, flag : Gates!Flags, on : BOOLEAN,
            text : {v5[c].text}, todo : SUBSET PullRequests, held : BOOLEAN, unsigned : BOOLEAN]
  <2>1. v5[c] \in GateCommands
    BY DEF GateCommandsFit
  <2> QED
    BY <2>1 DEF GateCommands, GateKinds, GatePcs, GateRepos, GateFlags, GateBools, GateTodos, Gates!Flags
<1> QED
  BY <1>1, <1>2 DEF Gates!TypeOK, GateTypes, GatePulls, GateWord, GateFlags, Gates!Flags


\* One goes on with a record of its own, and the others with theirs.
LEMMA GatesGoes ==
    ASSUME GateCommandsFit, NEW c \in Commands, NEW r \in GateCommands, v5' = [v5 EXCEPT ![c] = r]
    PROVE  /\ GateCommandsFit' /\ v5'[c] = r
           /\ \A g \in Commands : g # c => v5'[g] = v5[g]
BY DEF GateCommandsFit

LEMMA GatesRecords ==
    /\ Gates!Idle \in GateCommands
    /\ \A r \in GateCommands, kind \in GateKinds, pc \in GatePcs, flag \in GateFlags, on \in GateBools, text \in GateSubsets :
          [r EXCEPT !.kind = kind, !.pc = pc, !.flag = flag, !.on = on, !.text = text] \in GateCommands
    /\ \A r \in GateCommands, kind \in GateKinds, pc \in GatePcs, repo \in GateRepos, on \in GateBools, text \in GateSubsets :
          [r EXCEPT !.kind = kind, !.pc = pc, !.repo = repo, !.on = on, !.text = text] \in GateCommands
    /\ \A r \in GateCommands, kind \in GateKinds, pc \in GatePcs, text \in GateSubsets :
          [r EXCEPT !.kind = kind, !.pc = pc, !.text = text] \in GateCommands
    /\ \A r \in GateCommands, pc \in GatePcs :
          [r EXCEPT !.pc = pc] \in GateCommands
    /\ \A r \in GateCommands, kind \in GateKinds, pc \in GatePcs, repo \in GateRepos, held \in GateBools, unsigned \in GateBools :
          [r EXCEPT !.kind = kind, !.pc = pc, !.repo = repo, !.held = held, !.unsigned = unsigned] \in GateCommands
    /\ \A r \in GateCommands, pc \in GatePcs, todo \in GateTodos :
          [r EXCEPT !.pc = pc, !.todo = todo] \in GateCommands
    /\ \A r \in GateCommands, todo \in GateTodos :
          [r EXCEPT !.todo = todo] \in GateCommands
<1>1. Gates!Idle \in GateCommands
  BY ConstantsAssumption DEF Gates!Idle, GateCommands, GateFlags, GateKinds, GatePcs, GateRepos, GateSubsets, GateTodos, GateBools
<1>2. \A r \in GateCommands, kind \in GateKinds, pc \in GatePcs, flag \in GateFlags, on \in GateBools, text \in GateSubsets :
          [r EXCEPT !.kind = kind, !.pc = pc, !.flag = flag, !.on = on, !.text = text] \in GateCommands
  BY <1>1 DEF GateCommands
<1>3. \A r \in GateCommands, kind \in GateKinds, pc \in GatePcs, repo \in GateRepos, on \in GateBools, text \in GateSubsets :
          [r EXCEPT !.kind = kind, !.pc = pc, !.repo = repo, !.on = on, !.text = text] \in GateCommands
  BY <1>1 DEF GateCommands
<1>4. \A r \in GateCommands, kind \in GateKinds, pc \in GatePcs, text \in GateSubsets :
          [r EXCEPT !.kind = kind, !.pc = pc, !.text = text] \in GateCommands
  BY <1>1 DEF GateCommands
<1>5. \A r \in GateCommands, pc \in GatePcs :
          [r EXCEPT !.pc = pc] \in GateCommands
  BY <1>1 DEF GateCommands
<1>6. \A r \in GateCommands, kind \in GateKinds, pc \in GatePcs, repo \in GateRepos, held \in GateBools, unsigned \in GateBools :
          [r EXCEPT !.kind = kind, !.pc = pc, !.repo = repo, !.held = held, !.unsigned = unsigned] \in GateCommands
  BY <1>1 DEF GateCommands
<1>7. \A r \in GateCommands, pc \in GatePcs, todo \in GateTodos :
          [r EXCEPT !.pc = pc, !.todo = todo] \in GateCommands
  BY <1>1 DEF GateCommands
<1>8. \A r \in GateCommands, todo \in GateTodos :
          [r EXCEPT !.todo = todo] \in GateCommands
  BY <1>1 DEF GateCommands
<1> QED
  BY <1>1, <1>2, <1>3, <1>4, <1>5, <1>6, <1>7, <1>8

\* A registry of cuts has as many as their text.
LEMMA CutsCounted == ASSUME NEW n \in Nat PROVE Gates!Cardinality(1 .. n) = n
<1>1. Gates!Cardinality(1 .. n) = Cardinality(1 .. n)
  BY DEF Gates!Cardinality, Cardinality, Gates!IsFiniteSet, IsFiniteSet
<1> QED
  BY <1>1, FS_Interval

LEMMA GatesStarts == ASSUME Gates!Init PROVE Gates!IInv
<1>1. /\ MaxFaults \in Nat /\ MaxCuts \in Nat /\ v1 = {} /\ v2 = {} /\ v3 = 0 /\ v4 \in [PullRequests -> Repos]
      /\ v5 = [c \in Commands |-> Gates!Idle] /\ faults = 0 /\ v6 = FALSE /\ v7 = [hold |-> FALSE, signed |-> {}]
  BY ConstantsAssumption DEF Gates!Init, Gates!BoundsAssumption
<1>2. GateCommandsFit /\ GateTypes /\ GatePulls /\ GateWord
  <2>1. GateCommandsFit
    BY <1>1, GatesRecords DEF GateCommandsFit
  <2>2. GateTypes
    <3>1. v1 \subseteq GateFlags /\ v2 \subseteq Repos /\ v6 \in BOOLEAN
      BY <1>1
    <3>2. v3 \in 0 .. MaxCuts /\ faults \in 0 .. MaxFaults
      BY <1>1
    <3> QED
      BY <3>1, <3>2 DEF GateTypes
  <2>3. GatePulls
    BY <1>1 DEF GatePulls
  <2>4. GateWord
    BY <1>1 DEF GateWord
  <2> QED
    BY <2>1, <2>2, <2>3, <2>4
<1>3. /\ \A c \in Commands : /\ v5[c] = Gates!Idle /\ v5[c].kind = "idle" /\ v5[c].pc = "idle" /\ v5[c].text = {}
                            /\ v5[c].todo = {} /\ ~v5[c].held /\ ~v5[c].unsigned
      /\ ~v7.hold /\ v7.signed = {} /\ "hold" \notin v1
  BY <1>1 DEF Gates!Idle
<1>4. Gates!TypeOK
  BY <1>2, GatesFit
<1>5. Gates!TextsFit
  BY <1>3 DEF Gates!TextsFit
<1>6. /\ Gates!IdleIsIdle /\ Gates!MergesLast /\ Gates!StillSo /\ Gates!OneRewrites /\ Gates!FilesTellTheWord
      /\ Gates!TextsTellTheWord /\ Gates!PassedGates
  BY <1>1, <1>3 DEF Gates!IdleIsIdle, Gates!MergesLast, Gates!StillSo, Gates!OneRewrites, Gates!FilesTellTheWord,
     Gates!TextsTellTheWord, Gates!PassedGates, Gates!Rewriting, Gates!At
<1> QED
  BY <1>4, <1>5, <1>6 DEF Gates!IInv

LEMMA GatesNext ==
    ASSUME Gates!IInv, Gates!Next
    PROVE  Gates!IInv'
<1> USE DEF Gates!At, Gates!Fine, Gates!Fail
<1> DEFINE Goal == GateCommandsFit' /\ GateTypes' /\ GatePulls' /\ GateWord' /\ Gates!TextsFit' /\ Gates!IdleIsIdle' /\ Gates!MergesLast' /\ Gates!StillSo' /\ Gates!OneRewrites' /\ Gates!FilesTellTheWord' /\ Gates!TextsTellTheWord' /\ Gates!PassedGates'
<1>0. /\ GateCommandsFit /\ GateTypes /\ GatePulls /\ GateWord /\ Gates!TextsFit /\ Gates!IdleIsIdle /\ Gates!MergesLast
      /\ Gates!StillSo /\ Gates!OneRewrites /\ Gates!FilesTellTheWord /\ Gates!TextsTellTheWord /\ Gates!PassedGates
      /\ MaxFaults \in Nat /\ MaxCuts \in Nat
  BY GatesTyped, ConstantsAssumption DEF Gates!BoundsAssumption, Gates!IInv
<1>1. ASSUME NEW c \in Commands, NEW f \in GateFlags, NEW on \in BOOLEAN, Gates!SetFlag(c, f, on)
      PROVE  Goal
  <2>q. /\ ~v6' => ~v6 /\ \A d \in Commands : d # c => v5[d].pc \notin {"truncate", "fill"}
        /\ v6' \in BOOLEAN /\ v7' = v7
    BY <1>0, <1>1 DEF Gates!SetFlag, Gates!Note, Gates!Rewriting, GateTypes
  <2>1. CASE /\ v5[c].pc = "idle"
             /\ UNCHANGED <<v1, v2, v3>>
             /\ v4' = v4
             /\ Gates!Fine
             /\ v5' = [v5 EXCEPT ![c] = [v5[c] EXCEPT !.kind = "flag", !.pc = "truncate", !.flag = f, !.on = on, !.text = (IF on THEN v1 \cup {f} ELSE v1 \ {f})]]
    <3>h. /\ GateCommandsFit'
          /\ v5'[c].kind = "flag" /\ v5'[c].pc = "truncate" /\ v5'[c].repo = v5[c].repo /\ v5'[c].flag = f /\ v5'[c].on = on /\ v5'[c].text = (IF on THEN v1 \cup {f} ELSE v1 \ {f}) /\ v5'[c].todo = v5[c].todo /\ v5'[c].held = v5[c].held /\ v5'[c].unsigned = v5[c].unsigned
          /\ \A g \in Commands : g # c => v5'[g] = v5[g]
      <4>1. "flag" \in GateKinds /\ "truncate" \in GatePcs /\ f \in GateFlags /\ on \in GateBools /\ (IF on THEN v1 \cup {f} ELSE v1 \ {f}) \in GateSubsets
        BY <1>0, <2>1 DEF GateTypes, GateTexts, GateKinds, GatePcs, GateRepos, GateSubsets, GateTodos, GateBools
      <4>2. [v5[c] EXCEPT !.kind = "flag", !.pc = "truncate", !.flag = f, !.on = on, !.text = (IF on THEN v1 \cup {f} ELSE v1 \ {f})] \in GateCommands
        BY <1>0, <4>1, GatesRecords DEF GateCommandsFit
      <4>3. LET r == [v5[c] EXCEPT !.kind = "flag", !.pc = "truncate", !.flag = f, !.on = on, !.text = (IF on THEN v1 \cup {f} ELSE v1 \ {f})] IN r.kind = "flag" /\ r.pc = "truncate" /\ r.repo = v5[c].repo /\ r.flag = f /\ r.on = on /\ r.text = (IF on THEN v1 \cup {f} ELSE v1 \ {f}) /\ r.todo = v5[c].todo /\ r.held = v5[c].held /\ r.unsigned = v5[c].unsigned
        BY <1>0 DEF GateCommandsFit, GateCommands
      <4> HIDE DEF Gates!Idle
      <4> DEFINE r == [v5[c] EXCEPT !.kind = "flag", !.pc = "truncate", !.flag = f, !.on = on, !.text = (IF on THEN v1 \cup {f} ELSE v1 \ {f})]
      <4>4. v5' = [v5 EXCEPT ![c] = r]
        BY <2>1
      <4>5. r \in GateCommands /\ r.kind = "flag" /\ r.pc = "truncate" /\ r.repo = v5[c].repo /\ r.flag = f /\ r.on = on /\ r.text = (IF on THEN v1 \cup {f} ELSE v1 \ {f}) /\ r.todo = v5[c].todo /\ r.held = v5[c].held /\ r.unsigned = v5[c].unsigned
        BY <4>2, <4>3
      <4> HIDE DEF r
      <4> QED
        BY <1>0, <4>4, <4>5, GatesGoes
    <3>1. GateCommandsFit'
      BY <3>h
    <3>2. GateTypes'
      BY <1>0, <2>1, <3>h, <2>q DEF GateTypes
    <3>3. GatePulls'
      BY <1>0, <2>1, <3>h, <2>q DEF GatePulls
    <3>4. GateWord'
      BY <1>0, <2>1, <3>h, <2>q DEF GateWord
    <3>5. Gates!TextsFit'
      BY <1>0, <2>1, <3>h, <2>q DEF Gates!TextsFit, GateTypes, Gates!Flags, GateFlags
    <3>6. Gates!IdleIsIdle'
      BY <1>0, <2>1, <3>h, <2>q DEF Gates!IdleIsIdle
    <3>7. Gates!MergesLast'
      BY <1>0, <2>1, <3>h, <2>q DEF Gates!MergesLast
    <3>8. Gates!StillSo'
      BY <1>0, <2>1, <3>h, <2>q DEF Gates!StillSo
    <3>9. Gates!OneRewrites'
      BY <1>0, <2>1, <3>h, <2>q DEF Gates!OneRewrites, Gates!Rewriting
    <3>10. Gates!FilesTellTheWord'
      BY <1>0, <2>1, <3>h, <2>q DEF Gates!FilesTellTheWord, Gates!Emptied, Gates!OneRewrites, Gates!Rewriting
    <3>11. Gates!TextsTellTheWord'
      BY <1>0, <2>1, <3>h, <2>q DEF Gates!TextsTellTheWord, Gates!FilesTellTheWord, Gates!Emptied, Gates!Rewriting, GateWord
    <3>12. Gates!PassedGates'
      BY <1>0, <2>1, <3>h, <2>q DEF Gates!PassedGates, Gates!StillSo, Gates!FilesTellTheWord, Gates!Emptied
    <3> QED
      BY <3>1, <3>2, <3>3, <3>4, <3>5, <3>6, <3>7, <3>8, <3>9, <3>10, <3>11, <3>12
  <2>2. CASE /\ v5[c].pc = "idle"
             /\ UNCHANGED <<v1, v2, v3>>
             /\ v4' = v4
             /\ (Gates!Fine \/ Gates!Fail)
             /\ v5' = [v5 EXCEPT ![c] = Gates!Idle]
    <3>h. /\ GateCommandsFit'
          /\ v5'[c].kind = "idle" /\ v5'[c].pc = "idle" /\ v5'[c].repo = Gates!Idle.repo /\ v5'[c].flag = "hold" /\ v5'[c].on = FALSE /\ v5'[c].text = {} /\ v5'[c].todo = {} /\ v5'[c].held = FALSE /\ v5'[c].unsigned = FALSE
          /\ \A g \in Commands : g # c => v5'[g] = v5[g]
      <4>2. Gates!Idle \in GateCommands
        BY <1>0, GatesRecords DEF GateCommandsFit
      <4>3. LET r == Gates!Idle IN r.kind = "idle" /\ r.pc = "idle" /\ r.repo = Gates!Idle.repo /\ r.flag = "hold" /\ r.on = FALSE /\ r.text = {} /\ r.todo = {} /\ r.held = FALSE /\ r.unsigned = FALSE
        BY DEF Gates!Idle
      <4> HIDE DEF Gates!Idle
      <4> DEFINE r == Gates!Idle
      <4>4. v5' = [v5 EXCEPT ![c] = r]
        BY <2>2
      <4>5. r \in GateCommands /\ r.kind = "idle" /\ r.pc = "idle" /\ r.repo = Gates!Idle.repo /\ r.flag = "hold" /\ r.on = FALSE /\ r.text = {} /\ r.todo = {} /\ r.held = FALSE /\ r.unsigned = FALSE
        BY <4>2, <4>3
      <4> HIDE DEF r
      <4> QED
        BY <1>0, <4>4, <4>5, GatesGoes
    <3>1. GateCommandsFit'
      BY <3>h
    <3>2. GateTypes'
      BY <1>0, <2>2, <3>h, <2>q DEF GateTypes
    <3>3. GatePulls'
      BY <1>0, <2>2, <3>h, <2>q DEF GatePulls
    <3>4. GateWord'
      BY <1>0, <2>2, <3>h, <2>q DEF GateWord
    <3>5. Gates!TextsFit'
      BY <1>0, <2>2, <3>h, <2>q DEF Gates!TextsFit, GateTypes, Gates!Flags, GateFlags
    <3>6. Gates!IdleIsIdle'
      BY <1>0, <2>2, <3>h, <2>q DEF Gates!IdleIsIdle
    <3>7. Gates!MergesLast'
      BY <1>0, <2>2, <3>h, <2>q DEF Gates!MergesLast
    <3>8. Gates!StillSo'
      BY <1>0, <2>2, <3>h, <2>q DEF Gates!StillSo
    <3>9. Gates!OneRewrites'
      BY <1>0, <2>2, <3>h, <2>q DEF Gates!OneRewrites, Gates!Rewriting
    <3>10. Gates!FilesTellTheWord'
      BY <1>0, <2>2, <3>h, <2>q DEF Gates!FilesTellTheWord, Gates!Emptied, Gates!OneRewrites, Gates!Rewriting
    <3>11. Gates!TextsTellTheWord'
      BY <1>0, <2>2, <3>h, <2>q DEF Gates!TextsTellTheWord, Gates!FilesTellTheWord, Gates!Emptied, Gates!Rewriting, GateWord
    <3>12. Gates!PassedGates'
      BY <1>0, <2>2, <3>h, <2>q DEF Gates!PassedGates, Gates!StillSo, Gates!FilesTellTheWord, Gates!Emptied
    <3> QED
      BY <3>1, <3>2, <3>3, <3>4, <3>5, <3>6, <3>7, <3>8, <3>9, <3>10, <3>11, <3>12
  <2> QED
    BY <1>1, <2>1, <2>2 DEF Gates!SetFlag, Gates!Set, Gates!Done, Gates!Go, Gates!files
<1>2. ASSUME NEW c \in Commands, NEW repo \in Repos, NEW clear \in BOOLEAN, Gates!SignOff(c, repo, clear)
      PROVE  Goal
  <2>q. /\ ~v6' => ~v6 /\ \A d \in Commands : d # c => v5[d].pc \notin {"truncate", "fill"}
        /\ v6' \in BOOLEAN /\ v7' = v7
    BY <1>0, <1>2 DEF Gates!SignOff, Gates!Note, Gates!Rewriting, GateTypes
  <2>i. v5[c] = Gates!Idle /\ v5[c].kind = "idle" /\ v5[c].text = {} /\ v5[c].todo = {} /\ ~v5[c].held /\ ~v5[c].unsigned
    BY <1>0, <1>2 DEF Gates!SignOff, Gates!IdleIsIdle, Gates!Idle
  <2>1. CASE /\ v5[c].pc = "idle"
             /\ UNCHANGED <<v1, v2, v3>>
             /\ v4' = v4
             /\ Gates!Fine
             /\ v5' = [v5 EXCEPT ![c] = [v5[c] EXCEPT !.kind = "sign-off", !.pc = "truncate", !.repo = repo, !.on = FALSE, !.text = v2 \ {repo}]]
    <3>h. /\ GateCommandsFit'
          /\ v5'[c].kind = "sign-off" /\ v5'[c].pc = "truncate" /\ v5'[c].repo = repo /\ v5'[c].flag = v5[c].flag /\ v5'[c].on = FALSE /\ v5'[c].text = v2 \ {repo} /\ v5'[c].todo = v5[c].todo /\ v5'[c].held = v5[c].held /\ v5'[c].unsigned = v5[c].unsigned
          /\ \A g \in Commands : g # c => v5'[g] = v5[g]
      <4>1. "sign-off" \in GateKinds /\ "truncate" \in GatePcs /\ repo \in GateRepos /\ FALSE \in GateBools /\ v2 \ {repo} \in GateSubsets
        BY <1>0, <2>1 DEF GateTypes, GateTexts, GateKinds, GatePcs, GateRepos, GateSubsets, GateTodos, GateBools
      <4>2. [v5[c] EXCEPT !.kind = "sign-off", !.pc = "truncate", !.repo = repo, !.on = FALSE, !.text = v2 \ {repo}] \in GateCommands
        BY <1>0, <4>1, GatesRecords DEF GateCommandsFit
      <4>3. LET r == [v5[c] EXCEPT !.kind = "sign-off", !.pc = "truncate", !.repo = repo, !.on = FALSE, !.text = v2 \ {repo}] IN r.kind = "sign-off" /\ r.pc = "truncate" /\ r.repo = repo /\ r.flag = v5[c].flag /\ r.on = FALSE /\ r.text = v2 \ {repo} /\ r.todo = v5[c].todo /\ r.held = v5[c].held /\ r.unsigned = v5[c].unsigned
        BY <1>0 DEF GateCommandsFit, GateCommands
      <4> HIDE DEF Gates!Idle
      <4> DEFINE r == [v5[c] EXCEPT !.kind = "sign-off", !.pc = "truncate", !.repo = repo, !.on = FALSE, !.text = v2 \ {repo}]
      <4>4. v5' = [v5 EXCEPT ![c] = r]
        BY <2>1
      <4>5. r \in GateCommands /\ r.kind = "sign-off" /\ r.pc = "truncate" /\ r.repo = repo /\ r.flag = v5[c].flag /\ r.on = FALSE /\ r.text = v2 \ {repo} /\ r.todo = v5[c].todo /\ r.held = v5[c].held /\ r.unsigned = v5[c].unsigned
        BY <4>2, <4>3
      <4> HIDE DEF r
      <4> QED
        BY <1>0, <4>4, <4>5, GatesGoes
    <3>w. ~v6' => v2 = v7.signed
      BY <1>0, <2>1, <2>q DEF Gates!FilesTellTheWord, Gates!Emptied
    <3>1. GateCommandsFit'
      BY <3>h
    <3>2. GateTypes'
      BY <1>0, <2>1, <3>h, <2>q, <2>i DEF GateTypes
    <3>3. GatePulls'
      BY <1>0, <2>1, <3>h, <2>q, <2>i DEF GatePulls
    <3>4. GateWord'
      BY <1>0, <2>1, <3>h, <2>q, <2>i DEF GateWord
    <3>5. Gates!TextsFit'
      BY <1>0, <2>1, <3>h, <2>q, <2>i DEF Gates!TextsFit, GateTypes, Gates!Flags, GateFlags
    <3>6. Gates!IdleIsIdle'
      BY <1>0, <2>1, <3>h, <2>q, <2>i DEF Gates!IdleIsIdle
    <3>7. Gates!MergesLast'
      BY <1>0, <2>1, <3>h, <2>q, <2>i DEF Gates!MergesLast
    <3>8. Gates!StillSo'
      BY <1>0, <2>1, <3>h, <2>q, <2>i DEF Gates!StillSo
    <3>9. Gates!OneRewrites'
      BY <1>0, <2>1, <3>h, <2>q, <2>i DEF Gates!OneRewrites, Gates!Rewriting
    <3>10. Gates!FilesTellTheWord'
      BY <1>0, <2>1, <3>h, <2>q, <2>i DEF Gates!FilesTellTheWord, Gates!Emptied, Gates!OneRewrites, Gates!Rewriting
    <3>11. Gates!TextsTellTheWord'
      <4>1. \A d \in Commands : d # c => (v5'[d] = v5[d] /\ (~v6' => v5[d].pc \notin {"truncate", "fill"}))
        BY <3>h, <2>q
      <4>2. v5'[c].kind = "sign-off" /\ v5'[c].text = v2 \ {repo} /\ v5'[c].repo = repo /\ v5'[c].on = FALSE
        BY <3>h
      <4> QED
        BY <4>1, <4>2, <3>w, <2>q DEF Gates!TextsTellTheWord, Gates!Rewriting
    <3>12. Gates!PassedGates'
      BY <1>0, <2>1, <3>h, <2>q, <2>i DEF Gates!PassedGates, Gates!StillSo, Gates!FilesTellTheWord, Gates!Emptied
    <3> QED
      BY <3>1, <3>2, <3>3, <3>4, <3>5, <3>6, <3>7, <3>8, <3>9, <3>10, <3>11, <3>12
  <2>2. CASE /\ v5[c].pc = "idle"
             /\ UNCHANGED <<v1, v2, v3>>
             /\ v4' = v4
             /\ Gates!Fine
             /\ v5' = [v5 EXCEPT ![c] = [v5[c] EXCEPT !.kind = "sign-off", !.pc = "truncate", !.repo = repo, !.on = TRUE, !.text = v2 \cup {repo}]]
    <3>h. /\ GateCommandsFit'
          /\ v5'[c].kind = "sign-off" /\ v5'[c].pc = "truncate" /\ v5'[c].repo = repo /\ v5'[c].flag = v5[c].flag /\ v5'[c].on = TRUE /\ v5'[c].text = v2 \cup {repo} /\ v5'[c].todo = v5[c].todo /\ v5'[c].held = v5[c].held /\ v5'[c].unsigned = v5[c].unsigned
          /\ \A g \in Commands : g # c => v5'[g] = v5[g]
      <4>1. "sign-off" \in GateKinds /\ "truncate" \in GatePcs /\ repo \in GateRepos /\ TRUE \in GateBools /\ v2 \cup {repo} \in GateSubsets
        BY <1>0, <2>2 DEF GateTypes, GateTexts, GateKinds, GatePcs, GateRepos, GateSubsets, GateTodos, GateBools
      <4>2. [v5[c] EXCEPT !.kind = "sign-off", !.pc = "truncate", !.repo = repo, !.on = TRUE, !.text = v2 \cup {repo}] \in GateCommands
        BY <1>0, <4>1, GatesRecords DEF GateCommandsFit
      <4>3. LET r == [v5[c] EXCEPT !.kind = "sign-off", !.pc = "truncate", !.repo = repo, !.on = TRUE, !.text = v2 \cup {repo}] IN r.kind = "sign-off" /\ r.pc = "truncate" /\ r.repo = repo /\ r.flag = v5[c].flag /\ r.on = TRUE /\ r.text = v2 \cup {repo} /\ r.todo = v5[c].todo /\ r.held = v5[c].held /\ r.unsigned = v5[c].unsigned
        BY <1>0 DEF GateCommandsFit, GateCommands
      <4> HIDE DEF Gates!Idle
      <4> DEFINE r == [v5[c] EXCEPT !.kind = "sign-off", !.pc = "truncate", !.repo = repo, !.on = TRUE, !.text = v2 \cup {repo}]
      <4>4. v5' = [v5 EXCEPT ![c] = r]
        BY <2>2
      <4>5. r \in GateCommands /\ r.kind = "sign-off" /\ r.pc = "truncate" /\ r.repo = repo /\ r.flag = v5[c].flag /\ r.on = TRUE /\ r.text = v2 \cup {repo} /\ r.todo = v5[c].todo /\ r.held = v5[c].held /\ r.unsigned = v5[c].unsigned
        BY <4>2, <4>3
      <4> HIDE DEF r
      <4> QED
        BY <1>0, <4>4, <4>5, GatesGoes
    <3>w. ~v6' => v2 = v7.signed
      BY <1>0, <2>2, <2>q DEF Gates!FilesTellTheWord, Gates!Emptied
    <3>1. GateCommandsFit'
      BY <3>h
    <3>2. GateTypes'
      BY <1>0, <2>2, <3>h, <2>q, <2>i DEF GateTypes
    <3>3. GatePulls'
      BY <1>0, <2>2, <3>h, <2>q, <2>i DEF GatePulls
    <3>4. GateWord'
      BY <1>0, <2>2, <3>h, <2>q, <2>i DEF GateWord
    <3>5. Gates!TextsFit'
      BY <1>0, <2>2, <3>h, <2>q, <2>i DEF Gates!TextsFit, GateTypes, Gates!Flags, GateFlags
    <3>6. Gates!IdleIsIdle'
      BY <1>0, <2>2, <3>h, <2>q, <2>i DEF Gates!IdleIsIdle
    <3>7. Gates!MergesLast'
      BY <1>0, <2>2, <3>h, <2>q, <2>i DEF Gates!MergesLast
    <3>8. Gates!StillSo'
      BY <1>0, <2>2, <3>h, <2>q, <2>i DEF Gates!StillSo
    <3>9. Gates!OneRewrites'
      BY <1>0, <2>2, <3>h, <2>q, <2>i DEF Gates!OneRewrites, Gates!Rewriting
    <3>10. Gates!FilesTellTheWord'
      BY <1>0, <2>2, <3>h, <2>q, <2>i DEF Gates!FilesTellTheWord, Gates!Emptied, Gates!OneRewrites, Gates!Rewriting
    <3>11. Gates!TextsTellTheWord'
      <4>1. \A d \in Commands : d # c => (v5'[d] = v5[d] /\ (~v6' => v5[d].pc \notin {"truncate", "fill"}))
        BY <3>h, <2>q
      <4>2. v5'[c].kind = "sign-off" /\ v5'[c].text = v2 \cup {repo} /\ v5'[c].repo = repo /\ v5'[c].on = TRUE
        BY <3>h
      <4> QED
        BY <4>1, <4>2, <3>w, <2>q DEF Gates!TextsTellTheWord, Gates!Rewriting
    <3>12. Gates!PassedGates'
      BY <1>0, <2>2, <3>h, <2>q, <2>i DEF Gates!PassedGates, Gates!StillSo, Gates!FilesTellTheWord, Gates!Emptied
    <3> QED
      BY <3>1, <3>2, <3>3, <3>4, <3>5, <3>6, <3>7, <3>8, <3>9, <3>10, <3>11, <3>12
  <2> QED
    BY <1>2, <2>1, <2>2 DEF Gates!SignOff, Gates!Set, Gates!Done, Gates!Go, Gates!files
<1>3. ASSUME NEW c \in Commands, Gates!Cut(c)
      PROVE  Goal
  <2>q. /\ ~v6' => ~v6 /\ \A d \in Commands : d # c => v5[d].pc \notin {"truncate", "fill"}
        /\ v6' \in BOOLEAN /\ v7' = v7
    BY <1>0, <1>3 DEF Gates!Cut, Gates!Note, Gates!Rewriting, GateTypes
  <2>1. CASE /\ v5[c].pc = "idle"
             /\ v3 < MaxCuts
             /\ UNCHANGED <<v1, v2, v3>>
             /\ v4' = v4
             /\ Gates!Fine
             /\ v5' = [v5 EXCEPT ![c] = [v5[c] EXCEPT !.kind = "cut", !.pc = "truncate", !.text = 1 .. v3 + 1]]
    <3>h. /\ GateCommandsFit'
          /\ v5'[c].kind = "cut" /\ v5'[c].pc = "truncate" /\ v5'[c].repo = v5[c].repo /\ v5'[c].flag = v5[c].flag /\ v5'[c].on = v5[c].on /\ v5'[c].text = 1 .. v3 + 1 /\ v5'[c].todo = v5[c].todo /\ v5'[c].held = v5[c].held /\ v5'[c].unsigned = v5[c].unsigned
          /\ \A g \in Commands : g # c => v5'[g] = v5[g]
      <4>1. "cut" \in GateKinds /\ "truncate" \in GatePcs /\ 1 .. v3 + 1 \in GateSubsets
        BY <1>0, <2>1 DEF GateTypes, GateTexts, GateKinds, GatePcs, GateRepos, GateSubsets, GateTodos, GateBools
      <4>2. [v5[c] EXCEPT !.kind = "cut", !.pc = "truncate", !.text = 1 .. v3 + 1] \in GateCommands
        BY <1>0, <4>1, GatesRecords DEF GateCommandsFit
      <4>3. LET r == [v5[c] EXCEPT !.kind = "cut", !.pc = "truncate", !.text = 1 .. v3 + 1] IN r.kind = "cut" /\ r.pc = "truncate" /\ r.repo = v5[c].repo /\ r.flag = v5[c].flag /\ r.on = v5[c].on /\ r.text = 1 .. v3 + 1 /\ r.todo = v5[c].todo /\ r.held = v5[c].held /\ r.unsigned = v5[c].unsigned
        BY <1>0 DEF GateCommandsFit, GateCommands
      <4> HIDE DEF Gates!Idle
      <4> DEFINE r == [v5[c] EXCEPT !.kind = "cut", !.pc = "truncate", !.text = 1 .. v3 + 1]
      <4>4. v5' = [v5 EXCEPT ![c] = r]
        BY <2>1
      <4>5. r \in GateCommands /\ r.kind = "cut" /\ r.pc = "truncate" /\ r.repo = v5[c].repo /\ r.flag = v5[c].flag /\ r.on = v5[c].on /\ r.text = 1 .. v3 + 1 /\ r.todo = v5[c].todo /\ r.held = v5[c].held /\ r.unsigned = v5[c].unsigned
        BY <4>2, <4>3
      <4> HIDE DEF r
      <4> QED
        BY <1>0, <4>4, <4>5, GatesGoes
    <3>1. GateCommandsFit'
      BY <3>h
    <3>2. GateTypes'
      BY <1>0, <2>1, <3>h, <2>q DEF GateTypes
    <3>3. GatePulls'
      BY <1>0, <2>1, <3>h, <2>q DEF GatePulls
    <3>4. GateWord'
      BY <1>0, <2>1, <3>h, <2>q DEF GateWord
    <3>5. Gates!TextsFit'
      BY <1>0, <2>1, <3>h, <2>q DEF Gates!TextsFit, GateTypes, Gates!Flags, GateFlags
    <3>6. Gates!IdleIsIdle'
      BY <1>0, <2>1, <3>h, <2>q DEF Gates!IdleIsIdle
    <3>7. Gates!MergesLast'
      BY <1>0, <2>1, <3>h, <2>q DEF Gates!MergesLast
    <3>8. Gates!StillSo'
      BY <1>0, <2>1, <3>h, <2>q DEF Gates!StillSo
    <3>9. Gates!OneRewrites'
      BY <1>0, <2>1, <3>h, <2>q DEF Gates!OneRewrites, Gates!Rewriting
    <3>10. Gates!FilesTellTheWord'
      BY <1>0, <2>1, <3>h, <2>q DEF Gates!FilesTellTheWord, Gates!Emptied, Gates!OneRewrites, Gates!Rewriting
    <3>11. Gates!TextsTellTheWord'
      BY <1>0, <2>1, <3>h, <2>q DEF Gates!TextsTellTheWord, Gates!FilesTellTheWord, Gates!Emptied, Gates!Rewriting, GateWord
    <3>12. Gates!PassedGates'
      BY <1>0, <2>1, <3>h, <2>q DEF Gates!PassedGates, Gates!StillSo, Gates!FilesTellTheWord, Gates!Emptied
    <3> QED
      BY <3>1, <3>2, <3>3, <3>4, <3>5, <3>6, <3>7, <3>8, <3>9, <3>10, <3>11, <3>12
  <2> QED
    BY <1>3, <2>1 DEF Gates!Cut, Gates!Set, Gates!Done, Gates!Go, Gates!files
<1>4. ASSUME NEW c \in Commands, Gates!Truncate(c)
      PROVE  Goal
  <2>q. /\ ~v6' => ~v6 /\ \A d \in Commands : d # c => v5[d].pc \notin {"truncate", "fill"}
        /\ v6' \in BOOLEAN /\ v7' = v7
    BY <1>0, <1>4 DEF Gates!Truncate, Gates!Note, Gates!Rewriting, GateTypes
  <2>1. CASE /\ v5[c].pc = "truncate"
             /\ v4' = v4
             /\ Gates!Fine
             /\ v1' = IF v5[c].kind = "flag" THEN {} ELSE v1
             /\ v2' = IF v5[c].kind = "sign-off" THEN {} ELSE v2
             /\ v3' = IF v5[c].kind = "cut" THEN 0 ELSE v3
             /\ v5' = [v5 EXCEPT ![c] = [v5[c] EXCEPT !.pc = "fill"]]
    <3>h. /\ GateCommandsFit'
          /\ v5'[c].kind = v5[c].kind /\ v5'[c].pc = "fill" /\ v5'[c].repo = v5[c].repo /\ v5'[c].flag = v5[c].flag /\ v5'[c].on = v5[c].on /\ v5'[c].text = v5[c].text /\ v5'[c].todo = v5[c].todo /\ v5'[c].held = v5[c].held /\ v5'[c].unsigned = v5[c].unsigned
          /\ \A g \in Commands : g # c => v5'[g] = v5[g]
      <4>1. "fill" \in GatePcs
        BY <1>0, <2>1 DEF GatePcs, GateKinds, GateTodos
      <4>2. [v5[c] EXCEPT !.pc = "fill"] \in GateCommands
        BY <1>0, <4>1, GatesRecords DEF GateCommandsFit
      <4>3. LET r == [v5[c] EXCEPT !.pc = "fill"] IN r.kind = v5[c].kind /\ r.pc = "fill" /\ r.repo = v5[c].repo /\ r.flag = v5[c].flag /\ r.on = v5[c].on /\ r.text = v5[c].text /\ r.todo = v5[c].todo /\ r.held = v5[c].held /\ r.unsigned = v5[c].unsigned
        BY <1>0 DEF GateCommandsFit, GateCommands
      <4> HIDE DEF Gates!Idle
      <4> DEFINE r == [v5[c] EXCEPT !.pc = "fill"]
      <4>4. v5' = [v5 EXCEPT ![c] = r]
        BY <2>1
      <4>5. r \in GateCommands /\ r.kind = v5[c].kind /\ r.pc = "fill" /\ r.repo = v5[c].repo /\ r.flag = v5[c].flag /\ r.on = v5[c].on /\ r.text = v5[c].text /\ r.todo = v5[c].todo /\ r.held = v5[c].held /\ r.unsigned = v5[c].unsigned
        BY <4>2, <4>3
      <4> HIDE DEF r
      <4> QED
        BY <1>0, <4>4, <4>5, GatesGoes
    <3>1. GateCommandsFit'
      BY <3>h
    <3>2. GateTypes'
      BY <1>0, <2>1, <3>h, <2>q DEF GateTypes
    <3>3. GatePulls'
      BY <1>0, <2>1, <3>h, <2>q DEF GatePulls
    <3>4. GateWord'
      BY <1>0, <2>1, <3>h, <2>q DEF GateWord
    <3>5. Gates!TextsFit'
      BY <1>0, <2>1, <3>h, <2>q DEF Gates!TextsFit, GateTypes, Gates!Flags, GateFlags
    <3>6. Gates!IdleIsIdle'
      BY <1>0, <2>1, <3>h, <2>q DEF Gates!IdleIsIdle
    <3>7. Gates!MergesLast'
      BY <1>0, <2>1, <3>h, <2>q DEF Gates!MergesLast
    <3>8. Gates!StillSo'
      BY <1>0, <2>1, <3>h, <2>q DEF Gates!StillSo
    <3>9. Gates!OneRewrites'
      BY <1>0, <2>1, <3>h, <2>q DEF Gates!OneRewrites, Gates!Rewriting
    <3>10. Gates!FilesTellTheWord'
      BY <1>0, <2>1, <3>h, <2>q DEF Gates!FilesTellTheWord, Gates!Emptied, Gates!OneRewrites, Gates!Rewriting
    <3>11. Gates!TextsTellTheWord'
      BY <1>0, <2>1, <3>h, <2>q, SMTT(30) DEF Gates!TextsTellTheWord, Gates!FilesTellTheWord, Gates!Emptied, Gates!Rewriting, GateWord
    <3>12. Gates!PassedGates'
      BY <1>0, <2>1, <3>h, <2>q DEF Gates!PassedGates, Gates!StillSo, Gates!FilesTellTheWord, Gates!Emptied
    <3> QED
      BY <3>1, <3>2, <3>3, <3>4, <3>5, <3>6, <3>7, <3>8, <3>9, <3>10, <3>11, <3>12
  <2> QED
    BY <1>4, <2>1 DEF Gates!Truncate, Gates!Set, Gates!Done, Gates!Go, Gates!files
<1>5. ASSUME NEW c \in Commands, NEW repo \in Repos, Gates!Merge(c, repo)
      PROVE  Goal
  <2>q. /\ ~v6' => ~v6 /\ \A d \in Commands : d # c => v5[d].pc \notin {"truncate", "fill"}
        /\ v6' \in BOOLEAN /\ v7' = v7
    BY <1>0, <1>5 DEF Gates!Merge, Gates!Note, Gates!Rewriting, GateTypes
  <2>i. v5[c] = Gates!Idle /\ v5[c].kind = "idle" /\ v5[c].text = {} /\ v5[c].todo = {} /\ ~v5[c].held /\ ~v5[c].unsigned
    BY <1>0, <1>5 DEF Gates!Merge, Gates!IdleIsIdle, Gates!Idle
  <2>1. CASE /\ v5[c].pc = "idle"
             /\ UNCHANGED <<v1, v2, v3>>
             /\ v4' = v4
             /\ Gates!Fine
             /\ v5' = [v5 EXCEPT ![c] = [v5[c] EXCEPT !.kind = "merge", !.pc = "hold", !.repo = repo, !.held = v7.hold, !.unsigned = (repo \notin v7.signed)]]
    <3>h. /\ GateCommandsFit'
          /\ v5'[c].kind = "merge" /\ v5'[c].pc = "hold" /\ v5'[c].repo = repo /\ v5'[c].flag = v5[c].flag /\ v5'[c].on = v5[c].on /\ v5'[c].text = v5[c].text /\ v5'[c].todo = v5[c].todo /\ v5'[c].held = v7.hold /\ v5'[c].unsigned = (repo \notin v7.signed)
          /\ \A g \in Commands : g # c => v5'[g] = v5[g]
      <4>1. "merge" \in GateKinds /\ "hold" \in GatePcs /\ repo \in GateRepos /\ v7.hold \in GateBools /\ (repo \notin v7.signed) \in GateBools
        BY <1>0, <2>1 DEF GateWord, GateKinds, GatePcs, GateRepos, GateSubsets, GateTodos, GateBools
      <4>2. [v5[c] EXCEPT !.kind = "merge", !.pc = "hold", !.repo = repo, !.held = v7.hold, !.unsigned = (repo \notin v7.signed)] \in GateCommands
        BY <1>0, <4>1, GatesRecords DEF GateCommandsFit
      <4>3. LET r == [v5[c] EXCEPT !.kind = "merge", !.pc = "hold", !.repo = repo, !.held = v7.hold, !.unsigned = (repo \notin v7.signed)] IN r.kind = "merge" /\ r.pc = "hold" /\ r.repo = repo /\ r.flag = v5[c].flag /\ r.on = v5[c].on /\ r.text = v5[c].text /\ r.todo = v5[c].todo /\ r.held = v7.hold /\ r.unsigned = (repo \notin v7.signed)
        BY <1>0 DEF GateCommandsFit, GateCommands
      <4> HIDE DEF Gates!Idle
      <4> DEFINE r == [v5[c] EXCEPT !.kind = "merge", !.pc = "hold", !.repo = repo, !.held = v7.hold, !.unsigned = (repo \notin v7.signed)]
      <4>4. v5' = [v5 EXCEPT ![c] = r]
        BY <2>1
      <4>5. r \in GateCommands /\ r.kind = "merge" /\ r.pc = "hold" /\ r.repo = repo /\ r.flag = v5[c].flag /\ r.on = v5[c].on /\ r.text = v5[c].text /\ r.todo = v5[c].todo /\ r.held = v7.hold /\ r.unsigned = (repo \notin v7.signed)
        BY <4>2, <4>3
      <4> HIDE DEF r
      <4> QED
        BY <1>0, <4>4, <4>5, GatesGoes
    <3>1. GateCommandsFit'
      BY <3>h
    <3>2. GateTypes'
      BY <1>0, <2>1, <3>h, <2>q, <2>i DEF GateTypes
    <3>3. GatePulls'
      BY <1>0, <2>1, <3>h, <2>q, <2>i DEF GatePulls
    <3>4. GateWord'
      BY <1>0, <2>1, <3>h, <2>q, <2>i DEF GateWord
    <3>5. Gates!TextsFit'
      BY <1>0, <2>1, <3>h, <2>q, <2>i DEF Gates!TextsFit, GateTypes, Gates!Flags, GateFlags
    <3>6. Gates!IdleIsIdle'
      BY <1>0, <2>1, <3>h, <2>q, <2>i DEF Gates!IdleIsIdle
    <3>7. Gates!MergesLast'
      BY <1>0, <2>1, <3>h, <2>q, <2>i DEF Gates!MergesLast
    <3>8. Gates!StillSo'
      BY <1>0, <2>1, <3>h, <2>q, <2>i DEF Gates!StillSo
    <3>9. Gates!OneRewrites'
      BY <1>0, <2>1, <3>h, <2>q, <2>i DEF Gates!OneRewrites, Gates!Rewriting
    <3>10. Gates!FilesTellTheWord'
      BY <1>0, <2>1, <3>h, <2>q, <2>i DEF Gates!FilesTellTheWord, Gates!Emptied, Gates!OneRewrites, Gates!Rewriting
    <3>11. Gates!TextsTellTheWord'
      BY <1>0, <2>1, <3>h, <2>q, <2>i DEF Gates!TextsTellTheWord, Gates!FilesTellTheWord, Gates!Emptied, Gates!Rewriting, GateWord
    <3>12. Gates!PassedGates'
      BY <1>0, <2>1, <3>h, <2>q, <2>i DEF Gates!PassedGates, Gates!StillSo, Gates!FilesTellTheWord, Gates!Emptied
    <3> QED
      BY <3>1, <3>2, <3>3, <3>4, <3>5, <3>6, <3>7, <3>8, <3>9, <3>10, <3>11, <3>12
  <2> QED
    BY <1>5, <2>1 DEF Gates!Merge, Gates!Set, Gates!Done, Gates!Go, Gates!files
<1>6. ASSUME NEW c \in Commands, NEW passes \in BOOLEAN, Gates!Gate(c, "hold", passes, "autonomous"), passes => "hold" \notin v1
      PROVE  Goal
  <2>q. /\ ~v6' => ~v6 /\ \A d \in Commands : d # c => v5[d].pc \notin {"truncate", "fill"}
        /\ v6' \in BOOLEAN /\ v7' = v7
    BY <1>0, <1>6 DEF Gates!Gate, Gates!Note, Gates!Rewriting, GateTypes
  <2>1. CASE /\ v5[c].pc = "hold"
             /\ "hold" \notin v1
             /\ UNCHANGED <<v1, v2, v3>>
             /\ v4' = v4
             /\ Gates!Fine
             /\ v5' = [v5 EXCEPT ![c] = [v5[c] EXCEPT !.pc = "autonomous"]]
    <3>h. /\ GateCommandsFit'
          /\ v5'[c].kind = v5[c].kind /\ v5'[c].pc = "autonomous" /\ v5'[c].repo = v5[c].repo /\ v5'[c].flag = v5[c].flag /\ v5'[c].on = v5[c].on /\ v5'[c].text = v5[c].text /\ v5'[c].todo = v5[c].todo /\ v5'[c].held = v5[c].held /\ v5'[c].unsigned = v5[c].unsigned
          /\ \A g \in Commands : g # c => v5'[g] = v5[g]
      <4>1. "autonomous" \in GatePcs
        BY <1>0, <2>1 DEF GatePcs, GateKinds, GateTodos
      <4>2. [v5[c] EXCEPT !.pc = "autonomous"] \in GateCommands
        BY <1>0, <4>1, GatesRecords DEF GateCommandsFit
      <4>3. LET r == [v5[c] EXCEPT !.pc = "autonomous"] IN r.kind = v5[c].kind /\ r.pc = "autonomous" /\ r.repo = v5[c].repo /\ r.flag = v5[c].flag /\ r.on = v5[c].on /\ r.text = v5[c].text /\ r.todo = v5[c].todo /\ r.held = v5[c].held /\ r.unsigned = v5[c].unsigned
        BY <1>0 DEF GateCommandsFit, GateCommands
      <4> HIDE DEF Gates!Idle
      <4> DEFINE r == [v5[c] EXCEPT !.pc = "autonomous"]
      <4>4. v5' = [v5 EXCEPT ![c] = r]
        BY <2>1
      <4>5. r \in GateCommands /\ r.kind = v5[c].kind /\ r.pc = "autonomous" /\ r.repo = v5[c].repo /\ r.flag = v5[c].flag /\ r.on = v5[c].on /\ r.text = v5[c].text /\ r.todo = v5[c].todo /\ r.held = v5[c].held /\ r.unsigned = v5[c].unsigned
        BY <4>2, <4>3
      <4> HIDE DEF r
      <4> QED
        BY <1>0, <4>4, <4>5, GatesGoes
    <3>1. GateCommandsFit'
      BY <3>h
    <3>2. GateTypes'
      BY <1>0, <2>1, <3>h, <2>q DEF GateTypes
    <3>3. GatePulls'
      BY <1>0, <2>1, <3>h, <2>q DEF GatePulls
    <3>4. GateWord'
      BY <1>0, <2>1, <3>h, <2>q DEF GateWord
    <3>5. Gates!TextsFit'
      BY <1>0, <2>1, <3>h, <2>q DEF Gates!TextsFit, GateTypes, Gates!Flags, GateFlags
    <3>6. Gates!IdleIsIdle'
      BY <1>0, <2>1, <3>h, <2>q DEF Gates!IdleIsIdle
    <3>7. Gates!MergesLast'
      BY <1>0, <2>1, <3>h, <2>q DEF Gates!MergesLast
    <3>8. Gates!StillSo'
      BY <1>0, <2>1, <3>h, <2>q DEF Gates!StillSo
    <3>9. Gates!OneRewrites'
      BY <1>0, <2>1, <3>h, <2>q DEF Gates!OneRewrites, Gates!Rewriting
    <3>10. Gates!FilesTellTheWord'
      BY <1>0, <2>1, <3>h, <2>q DEF Gates!FilesTellTheWord, Gates!Emptied, Gates!OneRewrites, Gates!Rewriting
    <3>11. Gates!TextsTellTheWord'
      BY <1>0, <2>1, <3>h, <2>q DEF Gates!TextsTellTheWord, Gates!FilesTellTheWord, Gates!Emptied, Gates!Rewriting, GateWord
    <3>12. Gates!PassedGates'
      BY <1>0, <2>1, <3>h, <2>q DEF Gates!PassedGates, Gates!StillSo, Gates!FilesTellTheWord, Gates!Emptied
    <3> QED
      BY <3>1, <3>2, <3>3, <3>4, <3>5, <3>6, <3>7, <3>8, <3>9, <3>10, <3>11, <3>12
  <2>2. CASE /\ v5[c].pc = "hold"
             /\ UNCHANGED <<v1, v2, v3>>
             /\ v4' = v4
             /\ (Gates!Fine \/ Gates!Fail)
             /\ v5' = [v5 EXCEPT ![c] = Gates!Idle]
    <3>h. /\ GateCommandsFit'
          /\ v5'[c].kind = "idle" /\ v5'[c].pc = "idle" /\ v5'[c].repo = Gates!Idle.repo /\ v5'[c].flag = "hold" /\ v5'[c].on = FALSE /\ v5'[c].text = {} /\ v5'[c].todo = {} /\ v5'[c].held = FALSE /\ v5'[c].unsigned = FALSE
          /\ \A g \in Commands : g # c => v5'[g] = v5[g]
      <4>2. Gates!Idle \in GateCommands
        BY <1>0, GatesRecords DEF GateCommandsFit
      <4>3. LET r == Gates!Idle IN r.kind = "idle" /\ r.pc = "idle" /\ r.repo = Gates!Idle.repo /\ r.flag = "hold" /\ r.on = FALSE /\ r.text = {} /\ r.todo = {} /\ r.held = FALSE /\ r.unsigned = FALSE
        BY DEF Gates!Idle
      <4> HIDE DEF Gates!Idle
      <4> DEFINE r == Gates!Idle
      <4>4. v5' = [v5 EXCEPT ![c] = r]
        BY <2>2
      <4>5. r \in GateCommands /\ r.kind = "idle" /\ r.pc = "idle" /\ r.repo = Gates!Idle.repo /\ r.flag = "hold" /\ r.on = FALSE /\ r.text = {} /\ r.todo = {} /\ r.held = FALSE /\ r.unsigned = FALSE
        BY <4>2, <4>3
      <4> HIDE DEF r
      <4> QED
        BY <1>0, <4>4, <4>5, GatesGoes
    <3>1. GateCommandsFit'
      BY <3>h
    <3>2. GateTypes'
      BY <1>0, <2>2, <3>h, <2>q DEF GateTypes
    <3>3. GatePulls'
      BY <1>0, <2>2, <3>h, <2>q DEF GatePulls
    <3>4. GateWord'
      BY <1>0, <2>2, <3>h, <2>q DEF GateWord
    <3>5. Gates!TextsFit'
      BY <1>0, <2>2, <3>h, <2>q DEF Gates!TextsFit, GateTypes, Gates!Flags, GateFlags
    <3>6. Gates!IdleIsIdle'
      BY <1>0, <2>2, <3>h, <2>q DEF Gates!IdleIsIdle
    <3>7. Gates!MergesLast'
      BY <1>0, <2>2, <3>h, <2>q DEF Gates!MergesLast
    <3>8. Gates!StillSo'
      BY <1>0, <2>2, <3>h, <2>q DEF Gates!StillSo
    <3>9. Gates!OneRewrites'
      BY <1>0, <2>2, <3>h, <2>q DEF Gates!OneRewrites, Gates!Rewriting
    <3>10. Gates!FilesTellTheWord'
      BY <1>0, <2>2, <3>h, <2>q DEF Gates!FilesTellTheWord, Gates!Emptied, Gates!OneRewrites, Gates!Rewriting
    <3>11. Gates!TextsTellTheWord'
      BY <1>0, <2>2, <3>h, <2>q DEF Gates!TextsTellTheWord, Gates!FilesTellTheWord, Gates!Emptied, Gates!Rewriting, GateWord
    <3>12. Gates!PassedGates'
      BY <1>0, <2>2, <3>h, <2>q DEF Gates!PassedGates, Gates!StillSo, Gates!FilesTellTheWord, Gates!Emptied
    <3> QED
      BY <3>1, <3>2, <3>3, <3>4, <3>5, <3>6, <3>7, <3>8, <3>9, <3>10, <3>11, <3>12
  <2> QED
    BY <1>6, <2>1, <2>2 DEF Gates!Gate, Gates!Set, Gates!Done, Gates!Go, Gates!files
<1>7. ASSUME NEW c \in Commands, NEW passes \in BOOLEAN, Gates!Gate(c, "autonomous", passes, "qa"), passes => TRUE
      PROVE  Goal
  <2>q. /\ ~v6' => ~v6 /\ \A d \in Commands : d # c => v5[d].pc \notin {"truncate", "fill"}
        /\ v6' \in BOOLEAN /\ v7' = v7
    BY <1>0, <1>7 DEF Gates!Gate, Gates!Note, Gates!Rewriting, GateTypes
  <2>1. CASE /\ v5[c].pc = "autonomous"
             /\ TRUE
             /\ UNCHANGED <<v1, v2, v3>>
             /\ v4' = v4
             /\ Gates!Fine
             /\ v5' = [v5 EXCEPT ![c] = [v5[c] EXCEPT !.pc = "qa"]]
    <3>h. /\ GateCommandsFit'
          /\ v5'[c].kind = v5[c].kind /\ v5'[c].pc = "qa" /\ v5'[c].repo = v5[c].repo /\ v5'[c].flag = v5[c].flag /\ v5'[c].on = v5[c].on /\ v5'[c].text = v5[c].text /\ v5'[c].todo = v5[c].todo /\ v5'[c].held = v5[c].held /\ v5'[c].unsigned = v5[c].unsigned
          /\ \A g \in Commands : g # c => v5'[g] = v5[g]
      <4>1. "qa" \in GatePcs
        BY <1>0, <2>1 DEF GatePcs, GateKinds, GateTodos
      <4>2. [v5[c] EXCEPT !.pc = "qa"] \in GateCommands
        BY <1>0, <4>1, GatesRecords DEF GateCommandsFit
      <4>3. LET r == [v5[c] EXCEPT !.pc = "qa"] IN r.kind = v5[c].kind /\ r.pc = "qa" /\ r.repo = v5[c].repo /\ r.flag = v5[c].flag /\ r.on = v5[c].on /\ r.text = v5[c].text /\ r.todo = v5[c].todo /\ r.held = v5[c].held /\ r.unsigned = v5[c].unsigned
        BY <1>0 DEF GateCommandsFit, GateCommands
      <4> HIDE DEF Gates!Idle
      <4> DEFINE r == [v5[c] EXCEPT !.pc = "qa"]
      <4>4. v5' = [v5 EXCEPT ![c] = r]
        BY <2>1
      <4>5. r \in GateCommands /\ r.kind = v5[c].kind /\ r.pc = "qa" /\ r.repo = v5[c].repo /\ r.flag = v5[c].flag /\ r.on = v5[c].on /\ r.text = v5[c].text /\ r.todo = v5[c].todo /\ r.held = v5[c].held /\ r.unsigned = v5[c].unsigned
        BY <4>2, <4>3
      <4> HIDE DEF r
      <4> QED
        BY <1>0, <4>4, <4>5, GatesGoes
    <3>1. GateCommandsFit'
      BY <3>h
    <3>2. GateTypes'
      BY <1>0, <2>1, <3>h, <2>q DEF GateTypes
    <3>3. GatePulls'
      BY <1>0, <2>1, <3>h, <2>q DEF GatePulls
    <3>4. GateWord'
      BY <1>0, <2>1, <3>h, <2>q DEF GateWord
    <3>5. Gates!TextsFit'
      BY <1>0, <2>1, <3>h, <2>q DEF Gates!TextsFit, GateTypes, Gates!Flags, GateFlags
    <3>6. Gates!IdleIsIdle'
      BY <1>0, <2>1, <3>h, <2>q DEF Gates!IdleIsIdle
    <3>7. Gates!MergesLast'
      BY <1>0, <2>1, <3>h, <2>q DEF Gates!MergesLast
    <3>8. Gates!StillSo'
      BY <1>0, <2>1, <3>h, <2>q DEF Gates!StillSo
    <3>9. Gates!OneRewrites'
      BY <1>0, <2>1, <3>h, <2>q DEF Gates!OneRewrites, Gates!Rewriting
    <3>10. Gates!FilesTellTheWord'
      BY <1>0, <2>1, <3>h, <2>q DEF Gates!FilesTellTheWord, Gates!Emptied, Gates!OneRewrites, Gates!Rewriting
    <3>11. Gates!TextsTellTheWord'
      BY <1>0, <2>1, <3>h, <2>q DEF Gates!TextsTellTheWord, Gates!FilesTellTheWord, Gates!Emptied, Gates!Rewriting, GateWord
    <3>12. Gates!PassedGates'
      BY <1>0, <2>1, <3>h, <2>q DEF Gates!PassedGates, Gates!StillSo, Gates!FilesTellTheWord, Gates!Emptied
    <3> QED
      BY <3>1, <3>2, <3>3, <3>4, <3>5, <3>6, <3>7, <3>8, <3>9, <3>10, <3>11, <3>12
  <2>2. CASE /\ v5[c].pc = "autonomous"
             /\ UNCHANGED <<v1, v2, v3>>
             /\ v4' = v4
             /\ (Gates!Fine \/ Gates!Fail)
             /\ v5' = [v5 EXCEPT ![c] = Gates!Idle]
    <3>h. /\ GateCommandsFit'
          /\ v5'[c].kind = "idle" /\ v5'[c].pc = "idle" /\ v5'[c].repo = Gates!Idle.repo /\ v5'[c].flag = "hold" /\ v5'[c].on = FALSE /\ v5'[c].text = {} /\ v5'[c].todo = {} /\ v5'[c].held = FALSE /\ v5'[c].unsigned = FALSE
          /\ \A g \in Commands : g # c => v5'[g] = v5[g]
      <4>2. Gates!Idle \in GateCommands
        BY <1>0, GatesRecords DEF GateCommandsFit
      <4>3. LET r == Gates!Idle IN r.kind = "idle" /\ r.pc = "idle" /\ r.repo = Gates!Idle.repo /\ r.flag = "hold" /\ r.on = FALSE /\ r.text = {} /\ r.todo = {} /\ r.held = FALSE /\ r.unsigned = FALSE
        BY DEF Gates!Idle
      <4> HIDE DEF Gates!Idle
      <4> DEFINE r == Gates!Idle
      <4>4. v5' = [v5 EXCEPT ![c] = r]
        BY <2>2
      <4>5. r \in GateCommands /\ r.kind = "idle" /\ r.pc = "idle" /\ r.repo = Gates!Idle.repo /\ r.flag = "hold" /\ r.on = FALSE /\ r.text = {} /\ r.todo = {} /\ r.held = FALSE /\ r.unsigned = FALSE
        BY <4>2, <4>3
      <4> HIDE DEF r
      <4> QED
        BY <1>0, <4>4, <4>5, GatesGoes
    <3>1. GateCommandsFit'
      BY <3>h
    <3>2. GateTypes'
      BY <1>0, <2>2, <3>h, <2>q DEF GateTypes
    <3>3. GatePulls'
      BY <1>0, <2>2, <3>h, <2>q DEF GatePulls
    <3>4. GateWord'
      BY <1>0, <2>2, <3>h, <2>q DEF GateWord
    <3>5. Gates!TextsFit'
      BY <1>0, <2>2, <3>h, <2>q DEF Gates!TextsFit, GateTypes, Gates!Flags, GateFlags
    <3>6. Gates!IdleIsIdle'
      BY <1>0, <2>2, <3>h, <2>q DEF Gates!IdleIsIdle
    <3>7. Gates!MergesLast'
      BY <1>0, <2>2, <3>h, <2>q DEF Gates!MergesLast
    <3>8. Gates!StillSo'
      BY <1>0, <2>2, <3>h, <2>q DEF Gates!StillSo
    <3>9. Gates!OneRewrites'
      BY <1>0, <2>2, <3>h, <2>q DEF Gates!OneRewrites, Gates!Rewriting
    <3>10. Gates!FilesTellTheWord'
      BY <1>0, <2>2, <3>h, <2>q DEF Gates!FilesTellTheWord, Gates!Emptied, Gates!OneRewrites, Gates!Rewriting
    <3>11. Gates!TextsTellTheWord'
      BY <1>0, <2>2, <3>h, <2>q DEF Gates!TextsTellTheWord, Gates!FilesTellTheWord, Gates!Emptied, Gates!Rewriting, GateWord
    <3>12. Gates!PassedGates'
      BY <1>0, <2>2, <3>h, <2>q DEF Gates!PassedGates, Gates!StillSo, Gates!FilesTellTheWord, Gates!Emptied
    <3> QED
      BY <3>1, <3>2, <3>3, <3>4, <3>5, <3>6, <3>7, <3>8, <3>9, <3>10, <3>11, <3>12
  <2> QED
    BY <1>7, <2>1, <2>2 DEF Gates!Gate, Gates!Set, Gates!Done, Gates!Go, Gates!files
<1>8. ASSUME NEW c \in Commands, NEW passes \in BOOLEAN, Gates!Gate(c, "qa", passes, "ledger"), passes => TRUE
      PROVE  Goal
  <2>q. /\ ~v6' => ~v6 /\ \A d \in Commands : d # c => v5[d].pc \notin {"truncate", "fill"}
        /\ v6' \in BOOLEAN /\ v7' = v7
    BY <1>0, <1>8 DEF Gates!Gate, Gates!Note, Gates!Rewriting, GateTypes
  <2>1. CASE /\ v5[c].pc = "qa"
             /\ TRUE
             /\ UNCHANGED <<v1, v2, v3>>
             /\ v4' = v4
             /\ Gates!Fine
             /\ v5' = [v5 EXCEPT ![c] = [v5[c] EXCEPT !.pc = "ledger"]]
    <3>h. /\ GateCommandsFit'
          /\ v5'[c].kind = v5[c].kind /\ v5'[c].pc = "ledger" /\ v5'[c].repo = v5[c].repo /\ v5'[c].flag = v5[c].flag /\ v5'[c].on = v5[c].on /\ v5'[c].text = v5[c].text /\ v5'[c].todo = v5[c].todo /\ v5'[c].held = v5[c].held /\ v5'[c].unsigned = v5[c].unsigned
          /\ \A g \in Commands : g # c => v5'[g] = v5[g]
      <4>1. "ledger" \in GatePcs
        BY <1>0, <2>1 DEF GatePcs, GateKinds, GateTodos
      <4>2. [v5[c] EXCEPT !.pc = "ledger"] \in GateCommands
        BY <1>0, <4>1, GatesRecords DEF GateCommandsFit
      <4>3. LET r == [v5[c] EXCEPT !.pc = "ledger"] IN r.kind = v5[c].kind /\ r.pc = "ledger" /\ r.repo = v5[c].repo /\ r.flag = v5[c].flag /\ r.on = v5[c].on /\ r.text = v5[c].text /\ r.todo = v5[c].todo /\ r.held = v5[c].held /\ r.unsigned = v5[c].unsigned
        BY <1>0 DEF GateCommandsFit, GateCommands
      <4> HIDE DEF Gates!Idle
      <4> DEFINE r == [v5[c] EXCEPT !.pc = "ledger"]
      <4>4. v5' = [v5 EXCEPT ![c] = r]
        BY <2>1
      <4>5. r \in GateCommands /\ r.kind = v5[c].kind /\ r.pc = "ledger" /\ r.repo = v5[c].repo /\ r.flag = v5[c].flag /\ r.on = v5[c].on /\ r.text = v5[c].text /\ r.todo = v5[c].todo /\ r.held = v5[c].held /\ r.unsigned = v5[c].unsigned
        BY <4>2, <4>3
      <4> HIDE DEF r
      <4> QED
        BY <1>0, <4>4, <4>5, GatesGoes
    <3>1. GateCommandsFit'
      BY <3>h
    <3>2. GateTypes'
      BY <1>0, <2>1, <3>h, <2>q DEF GateTypes
    <3>3. GatePulls'
      BY <1>0, <2>1, <3>h, <2>q DEF GatePulls
    <3>4. GateWord'
      BY <1>0, <2>1, <3>h, <2>q DEF GateWord
    <3>5. Gates!TextsFit'
      BY <1>0, <2>1, <3>h, <2>q DEF Gates!TextsFit, GateTypes, Gates!Flags, GateFlags
    <3>6. Gates!IdleIsIdle'
      BY <1>0, <2>1, <3>h, <2>q DEF Gates!IdleIsIdle
    <3>7. Gates!MergesLast'
      BY <1>0, <2>1, <3>h, <2>q DEF Gates!MergesLast
    <3>8. Gates!StillSo'
      BY <1>0, <2>1, <3>h, <2>q DEF Gates!StillSo
    <3>9. Gates!OneRewrites'
      BY <1>0, <2>1, <3>h, <2>q DEF Gates!OneRewrites, Gates!Rewriting
    <3>10. Gates!FilesTellTheWord'
      BY <1>0, <2>1, <3>h, <2>q DEF Gates!FilesTellTheWord, Gates!Emptied, Gates!OneRewrites, Gates!Rewriting
    <3>11. Gates!TextsTellTheWord'
      BY <1>0, <2>1, <3>h, <2>q DEF Gates!TextsTellTheWord, Gates!FilesTellTheWord, Gates!Emptied, Gates!Rewriting, GateWord
    <3>12. Gates!PassedGates'
      BY <1>0, <2>1, <3>h, <2>q DEF Gates!PassedGates, Gates!StillSo, Gates!FilesTellTheWord, Gates!Emptied
    <3> QED
      BY <3>1, <3>2, <3>3, <3>4, <3>5, <3>6, <3>7, <3>8, <3>9, <3>10, <3>11, <3>12
  <2>2. CASE /\ v5[c].pc = "qa"
             /\ UNCHANGED <<v1, v2, v3>>
             /\ v4' = v4
             /\ (Gates!Fine \/ Gates!Fail)
             /\ v5' = [v5 EXCEPT ![c] = Gates!Idle]
    <3>h. /\ GateCommandsFit'
          /\ v5'[c].kind = "idle" /\ v5'[c].pc = "idle" /\ v5'[c].repo = Gates!Idle.repo /\ v5'[c].flag = "hold" /\ v5'[c].on = FALSE /\ v5'[c].text = {} /\ v5'[c].todo = {} /\ v5'[c].held = FALSE /\ v5'[c].unsigned = FALSE
          /\ \A g \in Commands : g # c => v5'[g] = v5[g]
      <4>2. Gates!Idle \in GateCommands
        BY <1>0, GatesRecords DEF GateCommandsFit
      <4>3. LET r == Gates!Idle IN r.kind = "idle" /\ r.pc = "idle" /\ r.repo = Gates!Idle.repo /\ r.flag = "hold" /\ r.on = FALSE /\ r.text = {} /\ r.todo = {} /\ r.held = FALSE /\ r.unsigned = FALSE
        BY DEF Gates!Idle
      <4> HIDE DEF Gates!Idle
      <4> DEFINE r == Gates!Idle
      <4>4. v5' = [v5 EXCEPT ![c] = r]
        BY <2>2
      <4>5. r \in GateCommands /\ r.kind = "idle" /\ r.pc = "idle" /\ r.repo = Gates!Idle.repo /\ r.flag = "hold" /\ r.on = FALSE /\ r.text = {} /\ r.todo = {} /\ r.held = FALSE /\ r.unsigned = FALSE
        BY <4>2, <4>3
      <4> HIDE DEF r
      <4> QED
        BY <1>0, <4>4, <4>5, GatesGoes
    <3>1. GateCommandsFit'
      BY <3>h
    <3>2. GateTypes'
      BY <1>0, <2>2, <3>h, <2>q DEF GateTypes
    <3>3. GatePulls'
      BY <1>0, <2>2, <3>h, <2>q DEF GatePulls
    <3>4. GateWord'
      BY <1>0, <2>2, <3>h, <2>q DEF GateWord
    <3>5. Gates!TextsFit'
      BY <1>0, <2>2, <3>h, <2>q DEF Gates!TextsFit, GateTypes, Gates!Flags, GateFlags
    <3>6. Gates!IdleIsIdle'
      BY <1>0, <2>2, <3>h, <2>q DEF Gates!IdleIsIdle
    <3>7. Gates!MergesLast'
      BY <1>0, <2>2, <3>h, <2>q DEF Gates!MergesLast
    <3>8. Gates!StillSo'
      BY <1>0, <2>2, <3>h, <2>q DEF Gates!StillSo
    <3>9. Gates!OneRewrites'
      BY <1>0, <2>2, <3>h, <2>q DEF Gates!OneRewrites, Gates!Rewriting
    <3>10. Gates!FilesTellTheWord'
      BY <1>0, <2>2, <3>h, <2>q DEF Gates!FilesTellTheWord, Gates!Emptied, Gates!OneRewrites, Gates!Rewriting
    <3>11. Gates!TextsTellTheWord'
      BY <1>0, <2>2, <3>h, <2>q DEF Gates!TextsTellTheWord, Gates!FilesTellTheWord, Gates!Emptied, Gates!Rewriting, GateWord
    <3>12. Gates!PassedGates'
      BY <1>0, <2>2, <3>h, <2>q DEF Gates!PassedGates, Gates!StillSo, Gates!FilesTellTheWord, Gates!Emptied
    <3> QED
      BY <3>1, <3>2, <3>3, <3>4, <3>5, <3>6, <3>7, <3>8, <3>9, <3>10, <3>11, <3>12
  <2> QED
    BY <1>8, <2>1, <2>2 DEF Gates!Gate, Gates!Set, Gates!Done, Gates!Go, Gates!files
<1>9. ASSUME NEW c \in Commands, NEW passes \in BOOLEAN, Gates!Gate(c, "ledger", passes, "list"), passes => v5[c].repo \in v2
      PROVE  Goal
  <2>q. /\ ~v6' => ~v6 /\ \A d \in Commands : d # c => v5[d].pc \notin {"truncate", "fill"}
        /\ v6' \in BOOLEAN /\ v7' = v7
    BY <1>0, <1>9 DEF Gates!Gate, Gates!Note, Gates!Rewriting, GateTypes
  <2>1. CASE /\ v5[c].pc = "ledger"
             /\ v5[c].repo \in v2
             /\ UNCHANGED <<v1, v2, v3>>
             /\ v4' = v4
             /\ Gates!Fine
             /\ v5' = [v5 EXCEPT ![c] = [v5[c] EXCEPT !.pc = "list"]]
    <3>h. /\ GateCommandsFit'
          /\ v5'[c].kind = v5[c].kind /\ v5'[c].pc = "list" /\ v5'[c].repo = v5[c].repo /\ v5'[c].flag = v5[c].flag /\ v5'[c].on = v5[c].on /\ v5'[c].text = v5[c].text /\ v5'[c].todo = v5[c].todo /\ v5'[c].held = v5[c].held /\ v5'[c].unsigned = v5[c].unsigned
          /\ \A g \in Commands : g # c => v5'[g] = v5[g]
      <4>1. "list" \in GatePcs
        BY <1>0, <2>1 DEF GatePcs, GateKinds, GateTodos
      <4>2. [v5[c] EXCEPT !.pc = "list"] \in GateCommands
        BY <1>0, <4>1, GatesRecords DEF GateCommandsFit
      <4>3. LET r == [v5[c] EXCEPT !.pc = "list"] IN r.kind = v5[c].kind /\ r.pc = "list" /\ r.repo = v5[c].repo /\ r.flag = v5[c].flag /\ r.on = v5[c].on /\ r.text = v5[c].text /\ r.todo = v5[c].todo /\ r.held = v5[c].held /\ r.unsigned = v5[c].unsigned
        BY <1>0 DEF GateCommandsFit, GateCommands
      <4> HIDE DEF Gates!Idle
      <4> DEFINE r == [v5[c] EXCEPT !.pc = "list"]
      <4>4. v5' = [v5 EXCEPT ![c] = r]
        BY <2>1
      <4>5. r \in GateCommands /\ r.kind = v5[c].kind /\ r.pc = "list" /\ r.repo = v5[c].repo /\ r.flag = v5[c].flag /\ r.on = v5[c].on /\ r.text = v5[c].text /\ r.todo = v5[c].todo /\ r.held = v5[c].held /\ r.unsigned = v5[c].unsigned
        BY <4>2, <4>3
      <4> HIDE DEF r
      <4> QED
        BY <1>0, <4>4, <4>5, GatesGoes
    <3>1. GateCommandsFit'
      BY <3>h
    <3>2. GateTypes'
      BY <1>0, <2>1, <3>h, <2>q DEF GateTypes
    <3>3. GatePulls'
      BY <1>0, <2>1, <3>h, <2>q DEF GatePulls
    <3>4. GateWord'
      BY <1>0, <2>1, <3>h, <2>q DEF GateWord
    <3>5. Gates!TextsFit'
      BY <1>0, <2>1, <3>h, <2>q DEF Gates!TextsFit, GateTypes, Gates!Flags, GateFlags
    <3>6. Gates!IdleIsIdle'
      BY <1>0, <2>1, <3>h, <2>q DEF Gates!IdleIsIdle
    <3>7. Gates!MergesLast'
      BY <1>0, <2>1, <3>h, <2>q DEF Gates!MergesLast
    <3>8. Gates!StillSo'
      BY <1>0, <2>1, <3>h, <2>q DEF Gates!StillSo
    <3>9. Gates!OneRewrites'
      BY <1>0, <2>1, <3>h, <2>q DEF Gates!OneRewrites, Gates!Rewriting
    <3>10. Gates!FilesTellTheWord'
      BY <1>0, <2>1, <3>h, <2>q DEF Gates!FilesTellTheWord, Gates!Emptied, Gates!OneRewrites, Gates!Rewriting
    <3>11. Gates!TextsTellTheWord'
      BY <1>0, <2>1, <3>h, <2>q DEF Gates!TextsTellTheWord, Gates!FilesTellTheWord, Gates!Emptied, Gates!Rewriting, GateWord
    <3>12. Gates!PassedGates'
      BY <1>0, <2>1, <3>h, <2>q DEF Gates!PassedGates, Gates!StillSo, Gates!FilesTellTheWord, Gates!Emptied
    <3> QED
      BY <3>1, <3>2, <3>3, <3>4, <3>5, <3>6, <3>7, <3>8, <3>9, <3>10, <3>11, <3>12
  <2>2. CASE /\ v5[c].pc = "ledger"
             /\ UNCHANGED <<v1, v2, v3>>
             /\ v4' = v4
             /\ (Gates!Fine \/ Gates!Fail)
             /\ v5' = [v5 EXCEPT ![c] = Gates!Idle]
    <3>h. /\ GateCommandsFit'
          /\ v5'[c].kind = "idle" /\ v5'[c].pc = "idle" /\ v5'[c].repo = Gates!Idle.repo /\ v5'[c].flag = "hold" /\ v5'[c].on = FALSE /\ v5'[c].text = {} /\ v5'[c].todo = {} /\ v5'[c].held = FALSE /\ v5'[c].unsigned = FALSE
          /\ \A g \in Commands : g # c => v5'[g] = v5[g]
      <4>2. Gates!Idle \in GateCommands
        BY <1>0, GatesRecords DEF GateCommandsFit
      <4>3. LET r == Gates!Idle IN r.kind = "idle" /\ r.pc = "idle" /\ r.repo = Gates!Idle.repo /\ r.flag = "hold" /\ r.on = FALSE /\ r.text = {} /\ r.todo = {} /\ r.held = FALSE /\ r.unsigned = FALSE
        BY DEF Gates!Idle
      <4> HIDE DEF Gates!Idle
      <4> DEFINE r == Gates!Idle
      <4>4. v5' = [v5 EXCEPT ![c] = r]
        BY <2>2
      <4>5. r \in GateCommands /\ r.kind = "idle" /\ r.pc = "idle" /\ r.repo = Gates!Idle.repo /\ r.flag = "hold" /\ r.on = FALSE /\ r.text = {} /\ r.todo = {} /\ r.held = FALSE /\ r.unsigned = FALSE
        BY <4>2, <4>3
      <4> HIDE DEF r
      <4> QED
        BY <1>0, <4>4, <4>5, GatesGoes
    <3>1. GateCommandsFit'
      BY <3>h
    <3>2. GateTypes'
      BY <1>0, <2>2, <3>h, <2>q DEF GateTypes
    <3>3. GatePulls'
      BY <1>0, <2>2, <3>h, <2>q DEF GatePulls
    <3>4. GateWord'
      BY <1>0, <2>2, <3>h, <2>q DEF GateWord
    <3>5. Gates!TextsFit'
      BY <1>0, <2>2, <3>h, <2>q DEF Gates!TextsFit, GateTypes, Gates!Flags, GateFlags
    <3>6. Gates!IdleIsIdle'
      BY <1>0, <2>2, <3>h, <2>q DEF Gates!IdleIsIdle
    <3>7. Gates!MergesLast'
      BY <1>0, <2>2, <3>h, <2>q DEF Gates!MergesLast
    <3>8. Gates!StillSo'
      BY <1>0, <2>2, <3>h, <2>q DEF Gates!StillSo
    <3>9. Gates!OneRewrites'
      BY <1>0, <2>2, <3>h, <2>q DEF Gates!OneRewrites, Gates!Rewriting
    <3>10. Gates!FilesTellTheWord'
      BY <1>0, <2>2, <3>h, <2>q DEF Gates!FilesTellTheWord, Gates!Emptied, Gates!OneRewrites, Gates!Rewriting
    <3>11. Gates!TextsTellTheWord'
      BY <1>0, <2>2, <3>h, <2>q DEF Gates!TextsTellTheWord, Gates!FilesTellTheWord, Gates!Emptied, Gates!Rewriting, GateWord
    <3>12. Gates!PassedGates'
      BY <1>0, <2>2, <3>h, <2>q DEF Gates!PassedGates, Gates!StillSo, Gates!FilesTellTheWord, Gates!Emptied
    <3> QED
      BY <3>1, <3>2, <3>3, <3>4, <3>5, <3>6, <3>7, <3>8, <3>9, <3>10, <3>11, <3>12
  <2> QED
    BY <1>9, <2>1, <2>2 DEF Gates!Gate, Gates!Set, Gates!Done, Gates!Go, Gates!files
<1>10. ASSUME NEW c \in Commands, NEW eligible \in SUBSET PullRequests, v5[c].pc = "list", Gates!Note(c), UNCHANGED <<Gates!files, v4>>, Gates!Fine,
         v5' = [v5 EXCEPT ![c] = [v5[c] EXCEPT !.pc = "merge", !.todo = eligible]]
      PROVE  Goal
  <2>q. /\ ~v6' => ~v6 /\ \A d \in Commands : d # c => v5[d].pc \notin {"truncate", "fill"}
        /\ v6' \in BOOLEAN /\ v7' = v7
    BY <1>0, <1>10 DEF Gates!Note, Gates!Note, Gates!Rewriting, GateTypes
  <2>1. CASE /\ v5[c].pc = "list"
             /\ UNCHANGED <<v1, v2, v3>>
             /\ v4' = v4
             /\ Gates!Fine
             /\ v5' = [v5 EXCEPT ![c] = [v5[c] EXCEPT !.pc = "merge", !.todo = eligible]]
    <3>h. /\ GateCommandsFit'
          /\ v5'[c].kind = v5[c].kind /\ v5'[c].pc = "merge" /\ v5'[c].repo = v5[c].repo /\ v5'[c].flag = v5[c].flag /\ v5'[c].on = v5[c].on /\ v5'[c].text = v5[c].text /\ v5'[c].todo = eligible /\ v5'[c].held = v5[c].held /\ v5'[c].unsigned = v5[c].unsigned
          /\ \A g \in Commands : g # c => v5'[g] = v5[g]
      <4>1. "merge" \in GatePcs /\ eligible \in GateTodos
        BY <1>0, <2>1 DEF GatePcs, GateKinds, GateTodos
      <4>2. [v5[c] EXCEPT !.pc = "merge", !.todo = eligible] \in GateCommands
        BY <1>0, <4>1, GatesRecords DEF GateCommandsFit
      <4>3. LET r == [v5[c] EXCEPT !.pc = "merge", !.todo = eligible] IN r.kind = v5[c].kind /\ r.pc = "merge" /\ r.repo = v5[c].repo /\ r.flag = v5[c].flag /\ r.on = v5[c].on /\ r.text = v5[c].text /\ r.todo = eligible /\ r.held = v5[c].held /\ r.unsigned = v5[c].unsigned
        BY <1>0 DEF GateCommandsFit, GateCommands
      <4> HIDE DEF Gates!Idle
      <4> DEFINE r == [v5[c] EXCEPT !.pc = "merge", !.todo = eligible]
      <4>4. v5' = [v5 EXCEPT ![c] = r]
        BY <2>1
      <4>5. r \in GateCommands /\ r.kind = v5[c].kind /\ r.pc = "merge" /\ r.repo = v5[c].repo /\ r.flag = v5[c].flag /\ r.on = v5[c].on /\ r.text = v5[c].text /\ r.todo = eligible /\ r.held = v5[c].held /\ r.unsigned = v5[c].unsigned
        BY <4>2, <4>3
      <4> HIDE DEF r
      <4> QED
        BY <1>0, <4>4, <4>5, GatesGoes
    <3>1. GateCommandsFit'
      BY <3>h
    <3>2. GateTypes'
      BY <1>0, <2>1, <3>h, <2>q DEF GateTypes
    <3>3. GatePulls'
      BY <1>0, <2>1, <3>h, <2>q DEF GatePulls
    <3>4. GateWord'
      BY <1>0, <2>1, <3>h, <2>q DEF GateWord
    <3>5. Gates!TextsFit'
      BY <1>0, <2>1, <3>h, <2>q DEF Gates!TextsFit, GateTypes, Gates!Flags, GateFlags
    <3>6. Gates!IdleIsIdle'
      BY <1>0, <2>1, <3>h, <2>q DEF Gates!IdleIsIdle
    <3>7. Gates!MergesLast'
      BY <1>0, <2>1, <3>h, <2>q DEF Gates!MergesLast
    <3>8. Gates!StillSo'
      BY <1>0, <2>1, <3>h, <2>q DEF Gates!StillSo
    <3>9. Gates!OneRewrites'
      BY <1>0, <2>1, <3>h, <2>q DEF Gates!OneRewrites, Gates!Rewriting
    <3>10. Gates!FilesTellTheWord'
      BY <1>0, <2>1, <3>h, <2>q DEF Gates!FilesTellTheWord, Gates!Emptied, Gates!OneRewrites, Gates!Rewriting
    <3>11. Gates!TextsTellTheWord'
      BY <1>0, <2>1, <3>h, <2>q DEF Gates!TextsTellTheWord, Gates!FilesTellTheWord, Gates!Emptied, Gates!Rewriting, GateWord
    <3>12. Gates!PassedGates'
      BY <1>0, <2>1, <3>h, <2>q DEF Gates!PassedGates, Gates!StillSo, Gates!FilesTellTheWord, Gates!Emptied
    <3> QED
      BY <3>1, <3>2, <3>3, <3>4, <3>5, <3>6, <3>7, <3>8, <3>9, <3>10, <3>11, <3>12
  <2> QED
    BY <1>10, <2>1 DEF Gates!At, Gates!Set, Gates!Done, Gates!Go, Gates!files
<1>11. ASSUME NEW c \in Commands, NEW p \in v5[c].todo, v5[c].pc = "merge", Gates!Note(c), UNCHANGED Gates!files, Gates!Fine \/ Gates!Fail,
         v4' = [v4 EXCEPT ![p] = "merged"] \/ v4' = v4, v5' = [v5 EXCEPT ![c] = [v5[c] EXCEPT !.todo = @ \ {p}]]
      PROVE  Goal
  <2>q. /\ ~v6' => ~v6 /\ \A d \in Commands : d # c => v5[d].pc \notin {"truncate", "fill"}
        /\ v6' \in BOOLEAN /\ v7' = v7
    BY <1>0, <1>11 DEF Gates!Note, Gates!Note, Gates!Rewriting, GateTypes
  <2>1. CASE /\ v5[c].pc = "merge"
             /\ UNCHANGED <<v1, v2, v3>>
             /\ v4' = [v4 EXCEPT ![p] = "merged"] \/ v4' = v4
             /\ (Gates!Fine \/ Gates!Fail)
             /\ v5' = [v5 EXCEPT ![c] = [v5[c] EXCEPT !.todo = v5[c].todo \ {p}]]
    <3>h. /\ GateCommandsFit'
          /\ v5'[c].kind = v5[c].kind /\ v5'[c].pc = v5[c].pc /\ v5'[c].repo = v5[c].repo /\ v5'[c].flag = v5[c].flag /\ v5'[c].on = v5[c].on /\ v5'[c].text = v5[c].text /\ v5'[c].todo = v5[c].todo \ {p} /\ v5'[c].held = v5[c].held /\ v5'[c].unsigned = v5[c].unsigned
          /\ \A g \in Commands : g # c => v5'[g] = v5[g]
      <4>1. v5[c].todo \ {p} \in GateTodos
        BY <1>0, <2>1 DEF GateCommandsFit, GateCommands, GateTodos, GateKinds
      <4>2. [v5[c] EXCEPT !.todo = v5[c].todo \ {p}] \in GateCommands
        BY <1>0, <4>1, GatesRecords DEF GateCommandsFit
      <4>3. LET r == [v5[c] EXCEPT !.todo = v5[c].todo \ {p}] IN r.kind = v5[c].kind /\ r.pc = v5[c].pc /\ r.repo = v5[c].repo /\ r.flag = v5[c].flag /\ r.on = v5[c].on /\ r.text = v5[c].text /\ r.todo = v5[c].todo \ {p} /\ r.held = v5[c].held /\ r.unsigned = v5[c].unsigned
        BY <1>0 DEF GateCommandsFit, GateCommands
      <4> HIDE DEF Gates!Idle
      <4> DEFINE r == [v5[c] EXCEPT !.todo = v5[c].todo \ {p}]
      <4>4. v5' = [v5 EXCEPT ![c] = r]
        BY <2>1
      <4>5. r \in GateCommands /\ r.kind = v5[c].kind /\ r.pc = v5[c].pc /\ r.repo = v5[c].repo /\ r.flag = v5[c].flag /\ r.on = v5[c].on /\ r.text = v5[c].text /\ r.todo = v5[c].todo \ {p} /\ r.held = v5[c].held /\ r.unsigned = v5[c].unsigned
        BY <4>2, <4>3
      <4> HIDE DEF r
      <4> QED
        BY <1>0, <4>4, <4>5, GatesGoes
    <3>1. GateCommandsFit'
      BY <3>h
    <3>2. GateTypes'
      BY <1>0, <2>1, <3>h, <2>q DEF GateTypes
    <3>3. GatePulls'
      BY <1>0, <2>1, <3>h, <2>q DEF GatePulls
    <3>4. GateWord'
      BY <1>0, <2>1, <3>h, <2>q DEF GateWord
    <3>5. Gates!TextsFit'
      BY <1>0, <2>1, <3>h, <2>q DEF Gates!TextsFit, GateTypes, Gates!Flags, GateFlags
    <3>6. Gates!IdleIsIdle'
      BY <1>0, <2>1, <3>h, <2>q DEF Gates!IdleIsIdle
    <3>7. Gates!MergesLast'
      BY <1>0, <2>1, <3>h, <2>q DEF Gates!MergesLast
    <3>8. Gates!StillSo'
      BY <1>0, <2>1, <3>h, <2>q DEF Gates!StillSo
    <3>9. Gates!OneRewrites'
      BY <1>0, <2>1, <3>h, <2>q DEF Gates!OneRewrites, Gates!Rewriting
    <3>10. Gates!FilesTellTheWord'
      BY <1>0, <2>1, <3>h, <2>q DEF Gates!FilesTellTheWord, Gates!Emptied, Gates!OneRewrites, Gates!Rewriting
    <3>11. Gates!TextsTellTheWord'
      BY <1>0, <2>1, <3>h, <2>q DEF Gates!TextsTellTheWord, Gates!FilesTellTheWord, Gates!Emptied, Gates!Rewriting, GateWord
    <3>12. Gates!PassedGates'
      BY <1>0, <2>1, <3>h, <2>q DEF Gates!PassedGates, Gates!StillSo, Gates!FilesTellTheWord, Gates!Emptied
    <3> QED
      BY <3>1, <3>2, <3>3, <3>4, <3>5, <3>6, <3>7, <3>8, <3>9, <3>10, <3>11, <3>12
  <2> QED
    BY <1>11, <2>1 DEF Gates!At, Gates!Set, Gates!Done, Gates!Go, Gates!files
<1>12. ASSUME NEW c \in Commands, v5[c].pc = "list" \/ v5[c].pc = "merge", Gates!Note(c), Gates!Done(c), UNCHANGED Gates!files, v4' = v4, Gates!Fine \/ Gates!Fail
      PROVE  Goal
  <2>q. /\ ~v6' => ~v6 /\ \A d \in Commands : d # c => v5[d].pc \notin {"truncate", "fill"}
        /\ v6' \in BOOLEAN /\ v7' = v7
    BY <1>0, <1>12 DEF Gates!Note, Gates!Note, Gates!Rewriting, GateTypes
  <2>1. CASE /\ v5[c].pc \in {"list", "merge"}
             /\ UNCHANGED <<v1, v2, v3>>
             /\ v4' = v4
             /\ (Gates!Fine \/ Gates!Fail)
             /\ v5' = [v5 EXCEPT ![c] = Gates!Idle]
    <3>h. /\ GateCommandsFit'
          /\ v5'[c].kind = "idle" /\ v5'[c].pc = "idle" /\ v5'[c].repo = Gates!Idle.repo /\ v5'[c].flag = "hold" /\ v5'[c].on = FALSE /\ v5'[c].text = {} /\ v5'[c].todo = {} /\ v5'[c].held = FALSE /\ v5'[c].unsigned = FALSE
          /\ \A g \in Commands : g # c => v5'[g] = v5[g]
      <4>2. Gates!Idle \in GateCommands
        BY <1>0, GatesRecords DEF GateCommandsFit
      <4>3. LET r == Gates!Idle IN r.kind = "idle" /\ r.pc = "idle" /\ r.repo = Gates!Idle.repo /\ r.flag = "hold" /\ r.on = FALSE /\ r.text = {} /\ r.todo = {} /\ r.held = FALSE /\ r.unsigned = FALSE
        BY DEF Gates!Idle
      <4> HIDE DEF Gates!Idle
      <4> DEFINE r == Gates!Idle
      <4>4. v5' = [v5 EXCEPT ![c] = r]
        BY <2>1
      <4>5. r \in GateCommands /\ r.kind = "idle" /\ r.pc = "idle" /\ r.repo = Gates!Idle.repo /\ r.flag = "hold" /\ r.on = FALSE /\ r.text = {} /\ r.todo = {} /\ r.held = FALSE /\ r.unsigned = FALSE
        BY <4>2, <4>3
      <4> HIDE DEF r
      <4> QED
        BY <1>0, <4>4, <4>5, GatesGoes
    <3>1. GateCommandsFit'
      BY <3>h
    <3>2. GateTypes'
      BY <1>0, <2>1, <3>h, <2>q DEF GateTypes
    <3>3. GatePulls'
      BY <1>0, <2>1, <3>h, <2>q DEF GatePulls
    <3>4. GateWord'
      BY <1>0, <2>1, <3>h, <2>q DEF GateWord
    <3>5. Gates!TextsFit'
      BY <1>0, <2>1, <3>h, <2>q DEF Gates!TextsFit, GateTypes, Gates!Flags, GateFlags
    <3>6. Gates!IdleIsIdle'
      BY <1>0, <2>1, <3>h, <2>q DEF Gates!IdleIsIdle
    <3>7. Gates!MergesLast'
      BY <1>0, <2>1, <3>h, <2>q DEF Gates!MergesLast
    <3>8. Gates!StillSo'
      BY <1>0, <2>1, <3>h, <2>q DEF Gates!StillSo
    <3>9. Gates!OneRewrites'
      BY <1>0, <2>1, <3>h, <2>q DEF Gates!OneRewrites, Gates!Rewriting
    <3>10. Gates!FilesTellTheWord'
      BY <1>0, <2>1, <3>h, <2>q DEF Gates!FilesTellTheWord, Gates!Emptied, Gates!OneRewrites, Gates!Rewriting
    <3>11. Gates!TextsTellTheWord'
      BY <1>0, <2>1, <3>h, <2>q DEF Gates!TextsTellTheWord, Gates!FilesTellTheWord, Gates!Emptied, Gates!Rewriting, GateWord
    <3>12. Gates!PassedGates'
      BY <1>0, <2>1, <3>h, <2>q DEF Gates!PassedGates, Gates!StillSo, Gates!FilesTellTheWord, Gates!Emptied
    <3> QED
      BY <3>1, <3>2, <3>3, <3>4, <3>5, <3>6, <3>7, <3>8, <3>9, <3>10, <3>11, <3>12
  <2> QED
    BY <1>12, <2>1 DEF Gates!At, Gates!Set, Gates!Done, Gates!Go, Gates!files
<1>13. ASSUME NEW c \in Commands, Gates!Kill(c)
      PROVE  Goal
  <2>q. v6' \in BOOLEAN
    BY <1>0, <1>13 DEF Gates!Kill, GateTypes
  <2>1. CASE /\ UNCHANGED <<v1, v2, v3>>
             /\ v4' = v4
             /\ v7' = v7
             /\ v6' = (v6 \/ v5[c].pc = "fill")
             /\ Gates!Fail
             /\ v5' = [v5 EXCEPT ![c] = Gates!Idle]
    <3>h. /\ GateCommandsFit'
          /\ v5'[c].kind = "idle" /\ v5'[c].pc = "idle" /\ v5'[c].repo = Gates!Idle.repo /\ v5'[c].flag = "hold" /\ v5'[c].on = FALSE /\ v5'[c].text = {} /\ v5'[c].todo = {} /\ v5'[c].held = FALSE /\ v5'[c].unsigned = FALSE
          /\ \A g \in Commands : g # c => v5'[g] = v5[g]
      <4>2. Gates!Idle \in GateCommands
        BY <1>0, GatesRecords DEF GateCommandsFit
      <4>3. LET r == Gates!Idle IN r.kind = "idle" /\ r.pc = "idle" /\ r.repo = Gates!Idle.repo /\ r.flag = "hold" /\ r.on = FALSE /\ r.text = {} /\ r.todo = {} /\ r.held = FALSE /\ r.unsigned = FALSE
        BY DEF Gates!Idle
      <4> HIDE DEF Gates!Idle
      <4> DEFINE r == Gates!Idle
      <4>4. v5' = [v5 EXCEPT ![c] = r]
        BY <2>1
      <4>5. r \in GateCommands /\ r.kind = "idle" /\ r.pc = "idle" /\ r.repo = Gates!Idle.repo /\ r.flag = "hold" /\ r.on = FALSE /\ r.text = {} /\ r.todo = {} /\ r.held = FALSE /\ r.unsigned = FALSE
        BY <4>2, <4>3
      <4> HIDE DEF r
      <4> QED
        BY <1>0, <4>4, <4>5, GatesGoes
    <3>1. GateCommandsFit'
      BY <3>h
    <3>2. GateTypes'
      BY <1>0, <2>1, <3>h, <2>q DEF GateTypes
    <3>3. GatePulls'
      BY <1>0, <2>1, <3>h, <2>q DEF GatePulls
    <3>4. GateWord'
      BY <1>0, <2>1, <3>h, <2>q DEF GateWord
    <3>5. Gates!TextsFit'
      BY <1>0, <2>1, <3>h, <2>q DEF Gates!TextsFit, GateTypes, Gates!Flags, GateFlags
    <3>6. Gates!IdleIsIdle'
      BY <1>0, <2>1, <3>h, <2>q DEF Gates!IdleIsIdle
    <3>7. Gates!MergesLast'
      BY <1>0, <2>1, <3>h, <2>q DEF Gates!MergesLast
    <3>8. Gates!StillSo'
      BY <1>0, <2>1, <3>h, <2>q DEF Gates!StillSo
    <3>9. Gates!OneRewrites'
      BY <1>0, <2>1, <3>h, <2>q DEF Gates!OneRewrites, Gates!Rewriting
    <3>10. Gates!FilesTellTheWord'
      BY <1>0, <2>1, <3>h, <2>q DEF Gates!FilesTellTheWord, Gates!Emptied, Gates!OneRewrites, Gates!Rewriting
    <3>11. Gates!TextsTellTheWord'
      <4>1. \A d \in Commands : v5'[d].pc # "idle" => v5'[d] = v5[d]
        BY <3>h
      <4>2. (~v6' => ~v6) /\ v7' = v7
        BY <2>1
      <4> QED
        BY <1>0, <4>1, <4>2 DEF Gates!TextsTellTheWord, Gates!Rewriting
    <3>12. Gates!PassedGates'
      BY <1>0, <2>1, <3>h, <2>q DEF Gates!PassedGates, Gates!StillSo, Gates!FilesTellTheWord, Gates!Emptied
    <3> QED
      BY <3>1, <3>2, <3>3, <3>4, <3>5, <3>6, <3>7, <3>8, <3>9, <3>10, <3>11, <3>12
  <2> QED
    BY <1>13, <2>1 DEF Gates!Kill, Gates!Set, Gates!Done, Gates!Go, Gates!files
<1>14. ASSUME NEW c \in Commands, Gates!Fill(c)
      PROVE  Goal
  <2> DEFINE Later(r) == [r EXCEPT !.held = @ /\ v7'.hold, !.unsigned = @ /\ r.repo \notin v7'.signed]
  <2>1. v5' = [d \in Commands |-> IF d = c THEN Gates!Idle ELSE Later(v5[d])]
    BY <1>14 DEF Gates!Fill
  <2>2. \A r \in GateCommands : /\ Later(r) \in GateCommands
                                /\ Later(r).kind = r.kind /\ Later(r).pc = r.pc /\ Later(r).repo = r.repo
                                /\ Later(r).flag = r.flag /\ Later(r).on = r.on /\ Later(r).text = r.text
                                /\ Later(r).todo = r.todo
                                /\ (Later(r).held => r.held /\ v7'.hold)
                                /\ (Later(r).unsigned => r.unsigned /\ r.repo \notin v7'.signed)
    <3> TAKE r \in GateCommands
    <3>1. Later(r) \in GateCommands
      <4>1. (r.held /\ v7'.hold) \in GateBools /\ (r.unsigned /\ r.repo \notin v7'.signed) \in GateBools
        BY DEF GateBools
      <4> QED
        BY <4>1 DEF GateCommands
    <3> QED
      BY <3>1 DEF GateCommands
  <2>3. Gates!Idle \in GateCommands /\ v5[c] \in GateCommands
    BY <1>0, GatesRecords DEF GateCommandsFit
  <2>4. /\ Gates!Idle.kind = "idle" /\ Gates!Idle.pc = "idle" /\ Gates!Idle.text = {} /\ Gates!Idle.todo = {}
        /\ ~Gates!Idle.held /\ ~Gates!Idle.unsigned
    BY DEF Gates!Idle
  <2> HIDE DEF Later
  <2>5. v5'[c] = Gates!Idle /\ \A d \in Commands : d # c => v5'[d] = Later(v5[d]) /\ v5[d] \in GateCommands
    BY <1>0, <2>1 DEF GateCommandsFit
  <2>6. /\ v5'[c].pc = "idle" /\ v5'[c].kind = "idle" /\ v5'[c].text = {} /\ v5'[c].todo = {}
        /\ ~v5'[c].held /\ ~v5'[c].unsigned
        /\ \A d \in Commands : d # c =>
              /\ v5'[d].kind = v5[d].kind /\ v5'[d].pc = v5[d].pc /\ v5'[d].repo = v5[d].repo
              /\ v5'[d].flag = v5[d].flag /\ v5'[d].on = v5[d].on /\ v5'[d].text = v5[d].text
              /\ v5'[d].todo = v5[d].todo
              /\ (v5'[d].held => v5[d].held /\ v7'.hold)
              /\ (v5'[d].unsigned => v5[d].unsigned /\ v5[d].repo \notin v7'.signed)
    BY <2>2, <2>4, <2>5
  <2>7. /\ v5[c].pc = "fill" /\ UNCHANGED <<v4, faults>> /\ v6' \in BOOLEAN
        /\ ~v6' => ~v6 /\ \A d \in Commands : d # c => v5[d].pc \notin {"truncate", "fill"}
    BY <1>0, <1>14 DEF Gates!Fill, Gates!Rewriting, GateTypes
  <2>8. /\ v1' = IF v5[c].kind = "flag" THEN v5[c].text ELSE v1
        /\ v2' = IF v5[c].kind = "sign-off" THEN v5[c].text ELSE v2
        /\ v3' = IF v5[c].kind = "cut" THEN Gates!Cardinality(v5[c].text) ELSE v3
    BY <1>14 DEF Gates!Fill
  <2>9. /\ GateWord'
        /\ v7'.hold = IF v5[c].kind = "flag" /\ v5[c].flag = "hold" THEN v5[c].on ELSE v7.hold
        /\ v7'.signed = IF v5[c].kind # "sign-off" THEN v7.signed
                        ELSE IF v5[c].on THEN v7.signed \cup {v5[c].repo} ELSE v7.signed \ {v5[c].repo}
    <3>1. CASE v5[c].kind = "flag" /\ v5[c].flag = "hold"
      <4>1. v7' = [v7 EXCEPT !.hold = v5[c].on]
        BY <1>14, <3>1 DEF Gates!Fill
      <4>2. v5[c].on \in BOOLEAN
        BY <2>3 DEF GateCommands, GateBools
      <4> QED
        BY <1>0, <3>1, <4>1, <4>2 DEF GateWord
    <3>2. CASE v5[c].kind = "sign-off"
      <4>1. v7' = [v7 EXCEPT !.signed = IF v5[c].on THEN @ \cup {v5[c].repo} ELSE @ \ {v5[c].repo}]
        BY <1>14, <3>2 DEF Gates!Fill
      <4>2. v5[c].repo \in Repos
        BY <1>0, <3>2 DEF Gates!TextsFit
      <4> QED
        BY <1>0, <3>2, <4>1, <4>2 DEF GateWord
    <3>3. CASE ~(v5[c].kind = "flag" /\ v5[c].flag = "hold") /\ v5[c].kind # "sign-off"
      <4>1. v7' = v7
        BY <1>14, <3>3 DEF Gates!Fill
      <4> QED
        BY <1>0, <3>3, <4>1 DEF GateWord
    <3> QED
      BY <3>1, <3>2, <3>3
  <2>10. GateCommandsFit'
    BY <1>0, <2>1, <2>2, <2>3 DEF GateCommandsFit
  <2>11. GateTypes'
    <3>1. v5[c].kind = "cut" => Gates!Cardinality(v5[c].text) \in 0 .. MaxCuts
      <4> SUFFICES ASSUME v5[c].kind = "cut" PROVE Gates!Cardinality(v5[c].text) \in 0 .. MaxCuts
        OBVIOUS
      <4>1. PICK n \in 1 .. MaxCuts : v5[c].text = 1 .. n
        BY <1>0 DEF Gates!TextsFit
      <4>2. Gates!Cardinality(v5[c].text) = n
        BY <1>0, <4>1, CutsCounted
      <4> QED
        BY <1>0, <4>1, <4>2
    <3> QED
      BY <1>0, <2>7, <2>8, <3>1 DEF GateTypes, Gates!TextsFit, GateFlags, Gates!Flags
  <2>12. GatePulls'
    BY <1>0, <2>6, <2>7, <2>8, <2>9 DEF GatePulls
  <2>13. GateWord'
    BY <2>9
  <2>14. Gates!TextsFit'
    BY <1>0, <2>6, <2>7, <2>8, <2>9 DEF Gates!TextsFit, GateTypes, Gates!Flags, GateFlags
  <2>15. Gates!IdleIsIdle'
    <3>1. \A d \in Commands : d # c /\ v5'[d].pc = "idle" => v5'[d] = Gates!Idle
      <4> SUFFICES ASSUME NEW d \in Commands, d # c, v5'[d].pc = "idle" PROVE v5'[d] = Gates!Idle
        OBVIOUS
      <4>1. v5[d] = Gates!Idle /\ v5'[d] = Later(Gates!Idle)
        BY <1>0, <2>5, <2>6 DEF Gates!IdleIsIdle
      <4>2. Later(Gates!Idle) = Gates!Idle
        <5>1. Gates!Idle \in GateCommands /\ Later(Gates!Idle) \in GateCommands
          BY <2>2, <2>3
        <5>2. /\ Later(Gates!Idle).kind = Gates!Idle.kind /\ Later(Gates!Idle).pc = Gates!Idle.pc
              /\ Later(Gates!Idle).repo = Gates!Idle.repo /\ Later(Gates!Idle).flag = Gates!Idle.flag
              /\ Later(Gates!Idle).on = Gates!Idle.on /\ Later(Gates!Idle).text = Gates!Idle.text
              /\ Later(Gates!Idle).todo = Gates!Idle.todo
              /\ Later(Gates!Idle).held = Gates!Idle.held /\ Later(Gates!Idle).unsigned = Gates!Idle.unsigned
          <6>1. Gates!Idle.held = FALSE /\ Gates!Idle.unsigned = FALSE
            BY DEF Gates!Idle
          <6>2. Later(Gates!Idle).held \in BOOLEAN /\ Later(Gates!Idle).unsigned \in BOOLEAN
            BY <5>1 DEF GateCommands, GateBools
          <6> QED
            BY <2>2, <5>1, <6>1, <6>2
        <5> QED
          BY <5>1, <5>2 DEF GateCommands
      <4> QED
        BY <4>1, <4>2
    <3> QED
      BY <2>5, <3>1 DEF Gates!IdleIsIdle
  <2>16. Gates!MergesLast'
    BY <1>0, <2>6, <2>7, <2>8, <2>9 DEF Gates!MergesLast
  <2>17. Gates!StillSo'
    BY <1>0, <2>6, <2>7, <2>8, <2>9 DEF Gates!StillSo
  <2>18. Gates!OneRewrites'
    BY <1>0, <2>6, <2>7, <2>8, <2>9 DEF Gates!OneRewrites, Gates!Rewriting
  <2>19. Gates!FilesTellTheWord'
    <3> SUFFICES ASSUME ~v6' PROVE ("hold" \in v1' <=> v7'.hold) /\ v2' = v7'.signed
      BY DEF Gates!FilesTellTheWord
    <3>1. ~v6 /\ \A d \in Commands : v5[d].pc = "fill" => d = c
      BY <2>7
    <3>2. CASE v5[c].kind = "flag"
      <4>1. v1' = v5[c].text /\ v2' = v2 /\ v7'.signed = v7.signed
        BY <2>8, <2>9, <3>2
      <4>2. "hold" \in v5[c].text <=> IF v5[c].flag = "hold" THEN v5[c].on ELSE v7.hold
        BY <1>0, <2>7, <3>1, <3>2 DEF Gates!TextsTellTheWord, Gates!Rewriting
      <4>3. v2 = v7.signed
        BY <1>0, <3>1, <3>2 DEF Gates!FilesTellTheWord, Gates!Emptied
      <4> QED
        BY <2>9, <3>2, <4>1, <4>2, <4>3
    <3>3. CASE v5[c].kind = "sign-off"
      <4>1. v1' = v1 /\ v2' = v5[c].text /\ v7'.hold = v7.hold
        BY <2>8, <2>9, <3>3
      <4>2. v2' = v7'.signed
        BY <1>0, <2>7, <2>9, <3>1, <3>3, <4>1 DEF Gates!TextsTellTheWord, Gates!Rewriting
      <4>3. "hold" \in v1 <=> v7.hold
        BY <1>0, <3>1, <3>3 DEF Gates!FilesTellTheWord, Gates!Emptied
      <4> QED
        BY <4>1, <4>2, <4>3
    <3>4. CASE v5[c].kind \notin {"flag", "sign-off"}
      <4>1. v1' = v1 /\ v2' = v2 /\ v7'.hold = v7.hold /\ v7'.signed = v7.signed
        BY <2>8, <2>9, <3>4
      <4>2. ("hold" \in v1 <=> v7.hold) /\ v2 = v7.signed
        BY <1>0, <3>1, <3>4 DEF Gates!FilesTellTheWord, Gates!Emptied
      <4> QED
        BY <4>1, <4>2
    <3> QED
      BY <3>2, <3>3, <3>4
  <2>20. Gates!TextsTellTheWord'
    BY <1>0, <2>6, <2>7, <2>8, <2>9 DEF Gates!TextsTellTheWord, Gates!FilesTellTheWord, Gates!Emptied, Gates!Rewriting, GateWord
  <2>21. Gates!PassedGates'
    BY <1>0, <2>6, <2>7, <2>8, <2>9 DEF Gates!PassedGates, Gates!StillSo, Gates!FilesTellTheWord, Gates!Emptied
  <2> QED
    BY <2>10, <2>11, <2>12, <2>13, <2>14, <2>15, <2>16, <2>17, <2>18, <2>19, <2>20, <2>21
<1>15. ASSUME Goal PROVE Gates!IInv'
  <2>1. (GateCommandsFit /\ GateTypes /\ GatePulls /\ GateWord)' => Gates!TypeOK'
    BY GatesFit, PTL
  <2> QED
    BY <1>15, <2>1 DEF Gates!IInv
<1>16. ASSUME NEW c \in Commands, Gates!ReleasePRAutonomous(c) \/ Gates!RequireQaReleasePass(c) \/ Gates!RequireSignoff(c)
       PROVE  Goal
  <2>1. CASE Gates!Gate(c, "hold", "hold" \notin v1, "autonomous")
    <3>1. ("hold" \notin v1) \in BOOLEAN /\ (("hold" \notin v1) => "hold" \notin v1)
      OBVIOUS
    <3> QED
      BY <2>1, <3>1, <1>6
  <2>2. ASSUME NEW passes \in BOOLEAN, Gates!Gate(c, "autonomous", passes, "qa") PROVE Goal
    BY <2>2, <1>7
  <2>3. ASSUME NEW passes \in BOOLEAN, Gates!Gate(c, "qa", passes, "ledger") PROVE Goal
    BY <2>3, <1>8
  <2>4. CASE Gates!Gate(c, "ledger", v5[c].repo \in v2, "list")
    <3>1. (v5[c].repo \in v2) \in BOOLEAN /\ ((v5[c].repo \in v2) => v5[c].repo \in v2)
      OBVIOUS
    <3> QED
      BY <2>4, <3>1, <1>9
  <2>5. CASE Gates!ReleasePRAutonomous(c)
    <3>1. Gates!Gate(c, "hold", "hold" \notin v1, "autonomous") \/ Gates!Gate(c, "autonomous", "autonomous" \in v1, "qa")
      BY <2>5 DEF Gates!ReleasePRAutonomous, Gates!IsEnabled
    <3>2. ("autonomous" \in v1) \in BOOLEAN
      OBVIOUS
    <3> QED
      BY <2>1, <2>2, <3>1, <3>2
  <2>6. CASE Gates!RequireQaReleasePass(c)
    <3>1. PICK verdict \in BOOLEAN : Gates!Gate(c, "qa", "qa" \in v1 => verdict, "ledger")
      BY <2>6 DEF Gates!RequireQaReleasePass, Gates!IsEnabled
    <3>2. ("qa" \in v1 => verdict) \in BOOLEAN
      OBVIOUS
    <3> QED
      BY <2>3, <3>1, <3>2
  <2>7. CASE Gates!RequireSignoff(c)
    BY <2>4, <2>7 DEF Gates!RequireSignoff
  <2> QED
    BY <1>16, <2>5, <2>6, <2>7
<1>17. ASSUME NEW c \in Commands, Gates!FetchCandidates(c) PROVE Goal
  <2>1. v5[c].pc = "list" /\ Gates!Note(c) /\ UNCHANGED Gates!files /\ v4' = v4
    BY <1>17 DEF Gates!FetchCandidates, Gates!files
  <2>2. ASSUME NEW eligible \in SUBSET Gates!Open(v5[c].repo), Gates!Fine,
               v5' = [v5 EXCEPT ![c] = [v5[c] EXCEPT !.pc = "merge", !.todo = eligible]]
        PROVE  Goal
    <3>1. eligible \in SUBSET PullRequests
      BY DEF Gates!Open
    <3> QED
      BY <2>1, <2>2, <3>1, <1>10
  <2>3. CASE Gates!Done(c) /\ Gates!Fail
    BY <2>1, <2>3, <1>12
  <2> QED
    BY <1>17, <2>2, <2>3 DEF Gates!FetchCandidates, Gates!Set
<1>18. ASSUME NEW c \in Commands, Gates!MergePR(c) PROVE Goal
  <2>1. v5[c].pc = "merge" /\ Gates!Note(c) /\ UNCHANGED Gates!files
    BY <1>18 DEF Gates!MergePR, Gates!files
  <2>2. CASE v5[c].todo = {}
    BY <1>18, <2>1, <2>2, <1>12 DEF Gates!MergePR
  <2>3. CASE v5[c].todo # {}
    <3>1. PICK p \in v5[c].todo :
             /\ v5' = [v5 EXCEPT ![c] = [v5[c] EXCEPT !.todo = @ \ {p}]]
             /\ Gates!Fine \/ Gates!Fail
             /\ v4' = [v4 EXCEPT ![p] = "merged"] \/ v4' = v4
      BY <1>18, <2>3 DEF Gates!MergePR, Gates!Set
    <3> QED
      BY <2>1, <3>1, <1>11
  <2> QED
    BY <2>2, <2>3
<1>19. Goal
  <2>1. ASSUME NEW c \in Commands, NEW f \in Gates!Flags, NEW on \in BOOLEAN, Gates!SetFlag(c, f, on) PROVE Goal
    BY <2>1, <1>1 DEF GateFlags, Gates!Flags
  <2> QED
    BY <1>2, <1>3, <1>4, <1>5, <1>13, <1>14, <1>16, <1>17, <1>18, <2>1 DEF Gates!Next
<1> QED
  BY <1>15, <1>19

LEMMA GatesRests == Gates!IInv /\ UNCHANGED Gates!vars => Gates!IInv'
<1> SUFFICES ASSUME Gates!IInv, UNCHANGED Gates!vars PROVE Gates!IInv'
  OBVIOUS
<1>0. UNCHANGED <<v1, v2, v3, v4, v5, faults, v6, v7>> /\ Gates!IInv
  BY DEF Gates!vars
<1>1. Gates!TypeOK'
  BY <1>0 DEF Gates!IInv, Gates!TypeOK
<1>2. Gates!TextsFit'
  BY <1>0 DEF Gates!IInv, Gates!TextsFit
<1>3. Gates!IdleIsIdle'
  BY <1>0 DEF Gates!IInv, Gates!IdleIsIdle, Gates!At
<1>4. Gates!MergesLast'
  BY <1>0 DEF Gates!IInv, Gates!MergesLast, Gates!At
<1>5. Gates!StillSo'
  BY <1>0 DEF Gates!IInv, Gates!StillSo
<1>6. Gates!OneRewrites'
  BY <1>0 DEF Gates!IInv, Gates!OneRewrites, Gates!Rewriting
<1>7. Gates!FilesTellTheWord'
  BY <1>0 DEF Gates!IInv, Gates!FilesTellTheWord, Gates!Emptied, Gates!At
<1>8. Gates!TextsTellTheWord'
  BY <1>0 DEF Gates!IInv, Gates!TextsTellTheWord, Gates!Rewriting
<1>9. Gates!PassedGates'
  BY <1>0 DEF Gates!IInv, Gates!PassedGates
<1> QED
  BY <1>1, <1>2, <1>3, <1>4, <1>5, <1>6, <1>7, <1>8, <1>9 DEF Gates!IInv

LEMMA GatesHolds == Spec => [](part = "gates" => Gates!IInv)
<1> DEFINE Kept == part = "gates" => Gates!IInv
<1>1. Init => Kept
  BY GatesStarts DEF Init
<1>2. Kept /\ [Next]_vars => Kept'
  BY GatesNext, GatesRests DEF Next, vars, Gates!vars
<1> QED
  BY <1>1, <1>2, PTL DEF Spec

\* A merge that began after the hold was set or its repo's sign-off cleared
\* merges nothing while that is the last word, for any number of commands, PRs
\* and cuts - unless one command worked while another rewrote a file, or died
\* doing so (internal/cli/release_handlers.go).
THEOREM LastWordAlwaysHolds == Spec => []LastWordHolds
<1>1. (part = "gates" => Gates!IInv) => LastWordHolds
  BY DEF LastWordHolds, Gates!LastWordHolds, Gates!IInv, Gates!MergesLast, Gates!PassedGates, Gates!At
<1> QED
  BY <1>1, GatesHolds, PTL

-----------------------------------------------------------------------------
(* Worktrees onto a release.                                               *)

PropPcs == {"idle", "next", "status", "fetch", "resolve", "rebase", "base", "head", "ci", "after", "report"}
PropTodos == SUBSET Worktrees
PropAts == Worktrees \cup {Propagate!Resting.at}
PropBools == BOOLEAN
PropCandidates == 0 .. MaxMain + 1
PropTargets == 0 .. MaxMain
PropHeads == (0 .. MaxMain) \X (0 .. MaxOwn)
PropRuns ==
    [pc : PropPcs, todo : PropTodos, at : PropAts, apply : PropBools, candidate : PropCandidates,
     target : PropTargets, tested : PropHeads, ranOn : PropHeads]
PropBases == 1 .. MaxMain
PropOwns == 0 .. MaxOwn
PropTree == [base : PropBases, own : PropOwns, dirty : PropBools]
PropRun == v4 \in PropRuns
PropTypes ==
    /\ v1 \in 1 .. MaxMain /\ v2 \in 1 .. MaxMain /\ v6 \subseteq Worktrees
    /\ v7 \in {"none", "completed", "failed"} /\ faults \in 0 .. MaxFaults
PropTrees == v3 \in [Worktrees -> PropTree]
PropResults == v5 \in [Worktrees -> {"none", "blocked", "preview", "green"}]

LEMMA PropagateTyped == Propagate!TypeOK <=> PropRun /\ PropTypes /\ PropTrees /\ PropResults
BY DEF Propagate!TypeOK, PropRun, PropTypes, PropTrees, PropResults, PropRuns, PropPcs, PropTodos, PropAts, PropBools,
   PropCandidates, PropTargets, PropHeads, PropTree, PropBases, PropOwns, Propagate!Candidates, Propagate!Latest


LEMMA PropagateRecords ==
    /\ Propagate!Resting \in PropRuns
    /\ \A pc \in PropPcs, todo \in PropTodos, apply \in PropBools, candidate \in PropCandidates :
          [Propagate!Resting EXCEPT !.pc = pc, !.todo = todo, !.apply = apply, !.candidate = candidate] \in PropRuns
    /\ \A r \in PropRuns, pc \in PropPcs :
          [r EXCEPT !.pc = pc] \in PropRuns
    /\ \A r \in PropRuns, pc \in PropPcs, at \in PropAts, todo \in PropTodos :
          [r EXCEPT !.pc = pc, !.at = at, !.todo = todo] \in PropRuns
    /\ \A r \in PropRuns, target \in PropTargets, pc \in PropPcs :
          [r EXCEPT !.target = target, !.pc = pc] \in PropRuns
    /\ \A r \in PropRuns, pc \in PropPcs, tested \in PropHeads :
          [r EXCEPT !.pc = pc, !.tested = tested] \in PropRuns
    /\ \A r \in PropRuns, pc \in PropPcs, ranOn \in PropHeads :
          [r EXCEPT !.pc = pc, !.ranOn = ranOn] \in PropRuns
<1>1. Propagate!Resting \in PropRuns
  BY ConstantsAssumption DEF Propagate!Resting, PropRuns, PropPcs, PropTodos, PropAts, PropBools, PropCandidates, PropTargets, PropHeads, Propagate!BoundsAssumption
<1>2. \A pc \in PropPcs, todo \in PropTodos, apply \in PropBools, candidate \in PropCandidates :
          [Propagate!Resting EXCEPT !.pc = pc, !.todo = todo, !.apply = apply, !.candidate = candidate] \in PropRuns
  BY <1>1 DEF PropRuns
<1>3. \A r \in PropRuns, pc \in PropPcs :
          [r EXCEPT !.pc = pc] \in PropRuns
  BY <1>1 DEF PropRuns
<1>4. \A r \in PropRuns, pc \in PropPcs, at \in PropAts, todo \in PropTodos :
          [r EXCEPT !.pc = pc, !.at = at, !.todo = todo] \in PropRuns
  BY <1>1 DEF PropRuns
<1>5. \A r \in PropRuns, target \in PropTargets, pc \in PropPcs :
          [r EXCEPT !.target = target, !.pc = pc] \in PropRuns
  BY <1>1 DEF PropRuns
<1>6. \A r \in PropRuns, pc \in PropPcs, tested \in PropHeads :
          [r EXCEPT !.pc = pc, !.tested = tested] \in PropRuns
  BY <1>1 DEF PropRuns
<1>7. \A r \in PropRuns, pc \in PropPcs, ranOn \in PropHeads :
          [r EXCEPT !.pc = pc, !.ranOn = ranOn] \in PropRuns
  BY <1>1 DEF PropRuns
<1> QED
  BY <1>1, <1>2, <1>3, <1>4, <1>5, <1>6, <1>7

LEMMA PropagateStarts == ASSUME Propagate!Init PROVE Propagate!IInv
<1>1. /\ MaxMain \in Nat \ {0} /\ MaxOwn \in Nat /\ MaxFaults \in Nat /\ v1 = 1 /\ v2 = 1
      /\ v3 = [w \in Worktrees |-> [base |-> 1, own |-> 0, dirty |-> FALSE]] /\ v4 = Propagate!Resting
      /\ v5 = [w \in Worktrees |-> "none"] /\ v6 = {} /\ v7 = "none" /\ faults = 0
  BY ConstantsAssumption DEF Propagate!Init, Propagate!BoundsAssumption
<1>2. PropRun /\ PropTypes
  <2>1. PropRun
    BY <1>1, PropagateRecords DEF PropRun
  <2>2. v1 \in 1 .. MaxMain /\ v2 \in 1 .. MaxMain /\ faults \in 0 .. MaxFaults
    BY <1>1
  <2>3. v6 \subseteq Worktrees /\ v7 \in {"none", "completed", "failed"}
    BY <1>1
  <2> QED
    BY <2>1, <2>2, <2>3 DEF PropTypes
<1>3. PropTrees
  <2>1. [base |-> 1, own |-> 0, dirty |-> FALSE] \in PropTree
    BY <1>1 DEF PropTree, PropBases, PropOwns, PropBools
  <2> QED
    BY <1>1, <2>1 DEF PropTrees
<1>4. PropResults
  BY <1>1 DEF PropResults
<1>5. v4.pc = "idle"
  BY <1>1 DEF Propagate!Resting
<1> QED
  BY <1>2, <1>3, <1>4, <1>5, PropagateTyped DEF Propagate!IInv, Propagate!AtAWorktree, Propagate!TargetIsOnMain,
     Propagate!ContainsTarget, Propagate!HeadsGrow

LEMMA PropagateNext ==
    ASSUME Propagate!IInv, Propagate!Next
    PROVE  Propagate!IInv'
<1> USE DEF Propagate!Fine, Propagate!Fail
<1> DEFINE Goal == PropRun' /\ PropTypes' /\ PropTrees' /\ PropResults' /\ Propagate!AtAWorktree' /\ Propagate!TargetIsOnMain' /\ Propagate!ContainsTarget' /\ Propagate!HeadsGrow'
<1>0. /\ PropRun /\ PropTypes /\ PropTrees /\ PropResults /\ Propagate!AtAWorktree /\ Propagate!TargetIsOnMain
      /\ Propagate!ContainsTarget /\ Propagate!HeadsGrow
      /\ MaxMain \in Nat \ {0} /\ MaxOwn \in Nat /\ MaxFaults \in Nat
  BY PropagateTyped, ConstantsAssumption DEF Propagate!BoundsAssumption, Propagate!IInv
<1>1. ASSUME NEW apply \in BOOLEAN, NEW candidate \in Propagate!Candidates, Propagate!Start(apply, candidate)
      PROVE  Goal
  <2>1. CASE /\ v4.pc = "idle"
             /\ UNCHANGED <<v1, v2, v3>>
             /\ v5' = [w \in Worktrees |-> "none"]
             /\ UNCHANGED <<v6, v7>>
             /\ Propagate!Fine
             /\ v4' = [Propagate!Resting EXCEPT !.pc = "next", !.todo = Worktrees, !.apply = apply, !.candidate = candidate]
    <3>h. /\ PropRun'
          /\ v4'.pc = "next" /\ v4'.todo = Worktrees /\ v4'.at = Propagate!Resting.at /\ v4'.apply = apply /\ v4'.candidate = candidate /\ v4'.target = 0 /\ v4'.tested = <<0, 0>> /\ v4'.ranOn = <<0, 0>>
      <4>1. "next" \in PropPcs /\ Worktrees \in PropTodos /\ apply \in PropBools /\ candidate \in PropCandidates
        BY <1>0, <2>1 DEF PropPcs, PropTodos, PropAts, PropBools, PropCandidates, PropTargets, PropTypes, Propagate!Candidates, Propagate!Latest
      <4>2. [Propagate!Resting EXCEPT !.pc = "next", !.todo = Worktrees, !.apply = apply, !.candidate = candidate] \in PropRuns
        BY <1>0, <4>1, PropagateRecords DEF PropRun
      <4>3. LET r == [Propagate!Resting EXCEPT !.pc = "next", !.todo = Worktrees, !.apply = apply, !.candidate = candidate] IN r.pc = "next" /\ r.todo = Worktrees /\ r.at = Propagate!Resting.at /\ r.apply = apply /\ r.candidate = candidate /\ r.target = 0 /\ r.tested = <<0, 0>> /\ r.ranOn = <<0, 0>>
        BY DEF Propagate!Resting
      <4> HIDE DEF Propagate!Resting
      <4> DEFINE r == [Propagate!Resting EXCEPT !.pc = "next", !.todo = Worktrees, !.apply = apply, !.candidate = candidate]
      <4>4. v4' = r
        BY <2>1
      <4>5. r \in PropRuns /\ r.pc = "next" /\ r.todo = Worktrees /\ r.at = Propagate!Resting.at /\ r.apply = apply /\ r.candidate = candidate /\ r.target = 0 /\ r.tested = <<0, 0>> /\ r.ranOn = <<0, 0>>
        BY <4>2, <4>3
      <4> HIDE DEF r
      <4> QED
        BY <4>4, <4>5 DEF PropRun
    <3>1. PropRun'
      BY <3>h
    <3>2. PropTypes'
      BY <1>0, <2>1, <3>h DEF PropTypes
    <3>3. PropTrees'
      BY <1>0, <2>1, <3>h DEF PropTrees
    <3>4. PropResults'
      BY <1>0, <2>1, <3>h DEF PropResults
    <3>5. Propagate!AtAWorktree'
      BY <1>0, <2>1, <3>h DEF Propagate!AtAWorktree
    <3>6. Propagate!TargetIsOnMain'
      BY <1>0, <2>1, <3>h DEF Propagate!TargetIsOnMain
    <3>7. Propagate!ContainsTarget'
      BY <1>0, <2>1, <3>h DEF Propagate!ContainsTarget, Propagate!W
    <3>8. Propagate!HeadsGrow'
      BY <1>0, <2>1, <3>h DEF Propagate!HeadsGrow, Propagate!W
    <3> QED
      BY <3>1, <3>2, <3>3, <3>4, <3>5, <3>6, <3>7, <3>8
  <2> QED
    BY <1>1, <2>1 DEF Propagate!Start, Propagate!Go, Propagate!clone, Propagate!records, Propagate!Continue, Propagate!W, PropTypes, PropRun, PropRuns
<1>2. ASSUME v4.pc = "next", UNCHANGED <<v1, v2, v3, v5, v6, v7, faults>>,
         v4' = [v4 EXCEPT !.pc = "report"] \/ \E w \in v4.todo : v4' = [v4 EXCEPT !.pc = "status", !.at = w, !.todo = @ \ {w}]
      PROVE  Goal
  <2>2. ASSUME NEW w \in v4.todo, v4' = [v4 EXCEPT !.pc = "status", !.at = w, !.todo = v4.todo \ {w}]
        PROVE  Goal
    <3>1. w \in Worktrees /\ v4.todo \ {w} \in PropTodos /\ "status" \in PropPcs /\ w \in PropAts
      BY <1>0 DEF PropRun, PropRuns, PropTodos, PropPcs, PropAts
    <3>2. [v4 EXCEPT !.pc = "status", !.at = w, !.todo = v4.todo \ {w}] \in PropRuns
      BY <1>0, <3>1, PropagateRecords DEF PropRun
    <3>3. PropRun' /\ v4'.pc = "status" /\ v4'.at = w
      BY <1>0, <2>2, <3>2 DEF PropRun, PropRuns
    <3> QED
      BY <1>0, <1>2, <3>1, <3>3 DEF PropTypes, PropTrees, PropResults, Propagate!AtAWorktree, Propagate!TargetIsOnMain,
         Propagate!ContainsTarget, Propagate!HeadsGrow
  <2>1. CASE /\ v4.pc = "next"
             /\ UNCHANGED <<v1, v2, v3>>
             /\ UNCHANGED <<v5, v6, v7>>
             /\ Propagate!Fine
             /\ v4' = [v4 EXCEPT !.pc = "report"]
    <3>h. /\ PropRun'
          /\ v4'.pc = "report" /\ v4'.todo = v4.todo /\ v4'.at = v4.at /\ v4'.apply = v4.apply /\ v4'.candidate = v4.candidate /\ v4'.target = v4.target /\ v4'.tested = v4.tested /\ v4'.ranOn = v4.ranOn
      <4>1. "report" \in PropPcs
        BY <1>0, <2>1 DEF PropPcs, PropTodos, PropAts, PropBools, PropCandidates, PropTargets, PropTypes
      <4>2. [v4 EXCEPT !.pc = "report"] \in PropRuns
        BY <1>0, <4>1, PropagateRecords DEF PropRun
      <4>3. LET r == [v4 EXCEPT !.pc = "report"] IN r.pc = "report" /\ r.todo = v4.todo /\ r.at = v4.at /\ r.apply = v4.apply /\ r.candidate = v4.candidate /\ r.target = v4.target /\ r.tested = v4.tested /\ r.ranOn = v4.ranOn
        BY <1>0 DEF PropRun, PropRuns
      <4> HIDE DEF Propagate!Resting
      <4> DEFINE r == [v4 EXCEPT !.pc = "report"]
      <4>4. v4' = r
        BY <2>1
      <4>5. r \in PropRuns /\ r.pc = "report" /\ r.todo = v4.todo /\ r.at = v4.at /\ r.apply = v4.apply /\ r.candidate = v4.candidate /\ r.target = v4.target /\ r.tested = v4.tested /\ r.ranOn = v4.ranOn
        BY <4>2, <4>3
      <4> HIDE DEF r
      <4> QED
        BY <4>4, <4>5 DEF PropRun
    <3>1. PropRun'
      BY <3>h
    <3>2. PropTypes'
      BY <1>0, <2>1, <3>h DEF PropTypes
    <3>3. PropTrees'
      BY <1>0, <2>1, <3>h DEF PropTrees
    <3>4. PropResults'
      BY <1>0, <2>1, <3>h DEF PropResults
    <3>5. Propagate!AtAWorktree'
      BY <1>0, <2>1, <3>h DEF Propagate!AtAWorktree
    <3>6. Propagate!TargetIsOnMain'
      BY <1>0, <2>1, <3>h DEF Propagate!TargetIsOnMain
    <3>7. Propagate!ContainsTarget'
      BY <1>0, <2>1, <3>h DEF Propagate!ContainsTarget, Propagate!W
    <3>8. Propagate!HeadsGrow'
      BY <1>0, <2>1, <3>h DEF Propagate!HeadsGrow, Propagate!W
    <3> QED
      BY <3>1, <3>2, <3>3, <3>4, <3>5, <3>6, <3>7, <3>8
  <2> QED
    BY <1>2, <2>1, <2>2 DEF Propagate!Go, Propagate!Go, Propagate!clone, Propagate!records, Propagate!Continue, Propagate!W, PropTypes, PropRun, PropRuns
<1>3. ASSUME Propagate!Status
      PROVE  Goal
  <2>1. CASE /\ v4.pc = "status"
             /\ UNCHANGED <<v1, v2, v3>>
             /\ Propagate!Blocked
             /\ (Propagate!Fine \/ Propagate!Fail)
             /\ v4' = [v4 EXCEPT !.pc = "next"]
    <3>h. /\ PropRun'
          /\ v4'.pc = "next" /\ v4'.todo = v4.todo /\ v4'.at = v4.at /\ v4'.apply = v4.apply /\ v4'.candidate = v4.candidate /\ v4'.target = v4.target /\ v4'.tested = v4.tested /\ v4'.ranOn = v4.ranOn
      <4>1. "next" \in PropPcs
        BY <1>0, <2>1 DEF PropPcs, PropTodos, PropAts, PropBools, PropCandidates, PropTargets, PropTypes
      <4>2. [v4 EXCEPT !.pc = "next"] \in PropRuns
        BY <1>0, <4>1, PropagateRecords DEF PropRun
      <4>3. LET r == [v4 EXCEPT !.pc = "next"] IN r.pc = "next" /\ r.todo = v4.todo /\ r.at = v4.at /\ r.apply = v4.apply /\ r.candidate = v4.candidate /\ r.target = v4.target /\ r.tested = v4.tested /\ r.ranOn = v4.ranOn
        BY <1>0 DEF PropRun, PropRuns
      <4> HIDE DEF Propagate!Resting
      <4> DEFINE r == [v4 EXCEPT !.pc = "next"]
      <4>4. v4' = r
        BY <2>1
      <4>5. r \in PropRuns /\ r.pc = "next" /\ r.todo = v4.todo /\ r.at = v4.at /\ r.apply = v4.apply /\ r.candidate = v4.candidate /\ r.target = v4.target /\ r.tested = v4.tested /\ r.ranOn = v4.ranOn
        BY <4>2, <4>3
      <4> HIDE DEF r
      <4> QED
        BY <4>4, <4>5 DEF PropRun
    <3>b. /\ v4.at \in Worktrees /\ v5' = [v5 EXCEPT ![v4.at] = "blocked"] /\ v6' \subseteq v6 \cup {v4.at}
          /\ v7' = v7
      BY <1>0, <2>1 DEF Propagate!Blocked, Propagate!AtAWorktree, Propagate!W
    <3>1. PropRun'
      BY <3>h
    <3>2. PropTypes'
      BY <1>0, <2>1, <3>h, <3>b DEF PropTypes
    <3>3. PropTrees'
      BY <1>0, <2>1, <3>h, <3>b DEF PropTrees
    <3>4. PropResults'
      BY <1>0, <2>1, <3>h, <3>b DEF PropResults
    <3>5. Propagate!AtAWorktree'
      BY <1>0, <2>1, <3>h, <3>b DEF Propagate!AtAWorktree
    <3>6. Propagate!TargetIsOnMain'
      BY <1>0, <2>1, <3>h, <3>b DEF Propagate!TargetIsOnMain
    <3>7. Propagate!ContainsTarget'
      BY <1>0, <2>1, <3>h, <3>b DEF Propagate!ContainsTarget, Propagate!W
    <3>8. Propagate!HeadsGrow'
      BY <1>0, <2>1, <3>h, <3>b DEF Propagate!HeadsGrow, Propagate!W
    <3> QED
      BY <3>1, <3>2, <3>3, <3>4, <3>5, <3>6, <3>7, <3>8
  <2>2. CASE /\ v4.pc = "status"
             /\ UNCHANGED <<v1, v2, v3>>
             /\ UNCHANGED <<v5, v6, v7>>
             /\ Propagate!Fine
             /\ v4' = [v4 EXCEPT !.pc = "fetch"]
    <3>h. /\ PropRun'
          /\ v4'.pc = "fetch" /\ v4'.todo = v4.todo /\ v4'.at = v4.at /\ v4'.apply = v4.apply /\ v4'.candidate = v4.candidate /\ v4'.target = v4.target /\ v4'.tested = v4.tested /\ v4'.ranOn = v4.ranOn
      <4>1. "fetch" \in PropPcs
        BY <1>0, <2>2 DEF PropPcs, PropTodos, PropAts, PropBools, PropCandidates, PropTargets, PropTypes
      <4>2. [v4 EXCEPT !.pc = "fetch"] \in PropRuns
        BY <1>0, <4>1, PropagateRecords DEF PropRun
      <4>3. LET r == [v4 EXCEPT !.pc = "fetch"] IN r.pc = "fetch" /\ r.todo = v4.todo /\ r.at = v4.at /\ r.apply = v4.apply /\ r.candidate = v4.candidate /\ r.target = v4.target /\ r.tested = v4.tested /\ r.ranOn = v4.ranOn
        BY <1>0 DEF PropRun, PropRuns
      <4> HIDE DEF Propagate!Resting
      <4> DEFINE r == [v4 EXCEPT !.pc = "fetch"]
      <4>4. v4' = r
        BY <2>2
      <4>5. r \in PropRuns /\ r.pc = "fetch" /\ r.todo = v4.todo /\ r.at = v4.at /\ r.apply = v4.apply /\ r.candidate = v4.candidate /\ r.target = v4.target /\ r.tested = v4.tested /\ r.ranOn = v4.ranOn
        BY <4>2, <4>3
      <4> HIDE DEF r
      <4> QED
        BY <4>4, <4>5 DEF PropRun
    <3>1. PropRun'
      BY <3>h
    <3>2. PropTypes'
      BY <1>0, <2>2, <3>h DEF PropTypes
    <3>3. PropTrees'
      BY <1>0, <2>2, <3>h DEF PropTrees
    <3>4. PropResults'
      BY <1>0, <2>2, <3>h DEF PropResults
    <3>5. Propagate!AtAWorktree'
      BY <1>0, <2>2, <3>h DEF Propagate!AtAWorktree
    <3>6. Propagate!TargetIsOnMain'
      BY <1>0, <2>2, <3>h DEF Propagate!TargetIsOnMain
    <3>7. Propagate!ContainsTarget'
      BY <1>0, <2>2, <3>h DEF Propagate!ContainsTarget, Propagate!W
    <3>8. Propagate!HeadsGrow'
      BY <1>0, <2>2, <3>h DEF Propagate!HeadsGrow, Propagate!W
    <3> QED
      BY <3>1, <3>2, <3>3, <3>4, <3>5, <3>6, <3>7, <3>8
  <2>3. CASE /\ v4.pc = "status"
             /\ UNCHANGED <<v1, v2, v3>>
             /\ v5' = [v5 EXCEPT ![v4.at] = "preview"]
             /\ UNCHANGED <<v6, v7>>
             /\ Propagate!Fine
             /\ v4' = [v4 EXCEPT !.pc = "next"]
    <3>h. /\ PropRun'
          /\ v4'.pc = "next" /\ v4'.todo = v4.todo /\ v4'.at = v4.at /\ v4'.apply = v4.apply /\ v4'.candidate = v4.candidate /\ v4'.target = v4.target /\ v4'.tested = v4.tested /\ v4'.ranOn = v4.ranOn
      <4>1. "next" \in PropPcs
        BY <1>0, <2>3 DEF PropPcs, PropTodos, PropAts, PropBools, PropCandidates, PropTargets, PropTypes
      <4>2. [v4 EXCEPT !.pc = "next"] \in PropRuns
        BY <1>0, <4>1, PropagateRecords DEF PropRun
      <4>3. LET r == [v4 EXCEPT !.pc = "next"] IN r.pc = "next" /\ r.todo = v4.todo /\ r.at = v4.at /\ r.apply = v4.apply /\ r.candidate = v4.candidate /\ r.target = v4.target /\ r.tested = v4.tested /\ r.ranOn = v4.ranOn
        BY <1>0 DEF PropRun, PropRuns
      <4> HIDE DEF Propagate!Resting
      <4> DEFINE r == [v4 EXCEPT !.pc = "next"]
      <4>4. v4' = r
        BY <2>3
      <4>5. r \in PropRuns /\ r.pc = "next" /\ r.todo = v4.todo /\ r.at = v4.at /\ r.apply = v4.apply /\ r.candidate = v4.candidate /\ r.target = v4.target /\ r.tested = v4.tested /\ r.ranOn = v4.ranOn
        BY <4>2, <4>3
      <4> HIDE DEF r
      <4> QED
        BY <4>4, <4>5 DEF PropRun
    <3>1. PropRun'
      BY <3>h
    <3>2. PropTypes'
      BY <1>0, <2>3, <3>h DEF PropTypes
    <3>3. PropTrees'
      BY <1>0, <2>3, <3>h DEF PropTrees
    <3>4. PropResults'
      BY <1>0, <2>3, <3>h DEF PropResults
    <3>5. Propagate!AtAWorktree'
      BY <1>0, <2>3, <3>h DEF Propagate!AtAWorktree
    <3>6. Propagate!TargetIsOnMain'
      BY <1>0, <2>3, <3>h DEF Propagate!TargetIsOnMain
    <3>7. Propagate!ContainsTarget'
      BY <1>0, <2>3, <3>h DEF Propagate!ContainsTarget, Propagate!W
    <3>8. Propagate!HeadsGrow'
      BY <1>0, <2>3, <3>h DEF Propagate!HeadsGrow, Propagate!W
    <3> QED
      BY <3>1, <3>2, <3>3, <3>4, <3>5, <3>6, <3>7, <3>8
  <2> QED
    BY <1>3, <2>1, <2>2, <2>3 DEF Propagate!Status, Propagate!Go, Propagate!clone, Propagate!records, Propagate!Continue, Propagate!W, PropTypes, PropRun, PropRuns, Propagate!Blocked
<1>4. ASSUME Propagate!Fetch
      PROVE  Goal
  <2>1. CASE /\ v4.pc = "fetch"
             /\ UNCHANGED <<v1, v2, v3>>
             /\ Propagate!Blocked
             /\ (Propagate!Fine \/ Propagate!Fail)
             /\ v4' = [v4 EXCEPT !.pc = "next"]
    <3>h. /\ PropRun'
          /\ v4'.pc = "next" /\ v4'.todo = v4.todo /\ v4'.at = v4.at /\ v4'.apply = v4.apply /\ v4'.candidate = v4.candidate /\ v4'.target = v4.target /\ v4'.tested = v4.tested /\ v4'.ranOn = v4.ranOn
      <4>1. "next" \in PropPcs
        BY <1>0, <2>1 DEF PropPcs, PropTodos, PropAts, PropBools, PropCandidates, PropTargets, PropTypes
      <4>2. [v4 EXCEPT !.pc = "next"] \in PropRuns
        BY <1>0, <4>1, PropagateRecords DEF PropRun
      <4>3. LET r == [v4 EXCEPT !.pc = "next"] IN r.pc = "next" /\ r.todo = v4.todo /\ r.at = v4.at /\ r.apply = v4.apply /\ r.candidate = v4.candidate /\ r.target = v4.target /\ r.tested = v4.tested /\ r.ranOn = v4.ranOn
        BY <1>0 DEF PropRun, PropRuns
      <4> HIDE DEF Propagate!Resting
      <4> DEFINE r == [v4 EXCEPT !.pc = "next"]
      <4>4. v4' = r
        BY <2>1
      <4>5. r \in PropRuns /\ r.pc = "next" /\ r.todo = v4.todo /\ r.at = v4.at /\ r.apply = v4.apply /\ r.candidate = v4.candidate /\ r.target = v4.target /\ r.tested = v4.tested /\ r.ranOn = v4.ranOn
        BY <4>2, <4>3
      <4> HIDE DEF r
      <4> QED
        BY <4>4, <4>5 DEF PropRun
    <3>b. /\ v4.at \in Worktrees /\ v5' = [v5 EXCEPT ![v4.at] = "blocked"] /\ v6' \subseteq v6 \cup {v4.at}
          /\ v7' = v7
      BY <1>0, <2>1 DEF Propagate!Blocked, Propagate!AtAWorktree, Propagate!W
    <3>1. PropRun'
      BY <3>h
    <3>2. PropTypes'
      BY <1>0, <2>1, <3>h, <3>b DEF PropTypes
    <3>3. PropTrees'
      BY <1>0, <2>1, <3>h, <3>b DEF PropTrees
    <3>4. PropResults'
      BY <1>0, <2>1, <3>h, <3>b DEF PropResults
    <3>5. Propagate!AtAWorktree'
      BY <1>0, <2>1, <3>h, <3>b DEF Propagate!AtAWorktree
    <3>6. Propagate!TargetIsOnMain'
      BY <1>0, <2>1, <3>h, <3>b DEF Propagate!TargetIsOnMain
    <3>7. Propagate!ContainsTarget'
      BY <1>0, <2>1, <3>h, <3>b DEF Propagate!ContainsTarget, Propagate!W
    <3>8. Propagate!HeadsGrow'
      BY <1>0, <2>1, <3>h, <3>b DEF Propagate!HeadsGrow, Propagate!W
    <3> QED
      BY <3>1, <3>2, <3>3, <3>4, <3>5, <3>6, <3>7, <3>8
  <2>2. CASE /\ v4.pc = "fetch"
             /\ UNCHANGED <<v1, v3>>
             /\ v2' = v1
             /\ UNCHANGED <<v5, v6, v7>>
             /\ Propagate!Fine
             /\ v4' = [v4 EXCEPT !.pc = "resolve"]
    <3>h. /\ PropRun'
          /\ v4'.pc = "resolve" /\ v4'.todo = v4.todo /\ v4'.at = v4.at /\ v4'.apply = v4.apply /\ v4'.candidate = v4.candidate /\ v4'.target = v4.target /\ v4'.tested = v4.tested /\ v4'.ranOn = v4.ranOn
      <4>1. "resolve" \in PropPcs
        BY <1>0, <2>2 DEF PropPcs, PropTodos, PropAts, PropBools, PropCandidates, PropTargets, PropTypes
      <4>2. [v4 EXCEPT !.pc = "resolve"] \in PropRuns
        BY <1>0, <4>1, PropagateRecords DEF PropRun
      <4>3. LET r == [v4 EXCEPT !.pc = "resolve"] IN r.pc = "resolve" /\ r.todo = v4.todo /\ r.at = v4.at /\ r.apply = v4.apply /\ r.candidate = v4.candidate /\ r.target = v4.target /\ r.tested = v4.tested /\ r.ranOn = v4.ranOn
        BY <1>0 DEF PropRun, PropRuns
      <4> HIDE DEF Propagate!Resting
      <4> DEFINE r == [v4 EXCEPT !.pc = "resolve"]
      <4>4. v4' = r
        BY <2>2
      <4>5. r \in PropRuns /\ r.pc = "resolve" /\ r.todo = v4.todo /\ r.at = v4.at /\ r.apply = v4.apply /\ r.candidate = v4.candidate /\ r.target = v4.target /\ r.tested = v4.tested /\ r.ranOn = v4.ranOn
        BY <4>2, <4>3
      <4> HIDE DEF r
      <4> QED
        BY <4>4, <4>5 DEF PropRun
    <3>1. PropRun'
      BY <3>h
    <3>2. PropTypes'
      BY <1>0, <2>2, <3>h DEF PropTypes
    <3>3. PropTrees'
      BY <1>0, <2>2, <3>h DEF PropTrees
    <3>4. PropResults'
      BY <1>0, <2>2, <3>h DEF PropResults
    <3>5. Propagate!AtAWorktree'
      BY <1>0, <2>2, <3>h DEF Propagate!AtAWorktree
    <3>6. Propagate!TargetIsOnMain'
      BY <1>0, <2>2, <3>h DEF Propagate!TargetIsOnMain
    <3>7. Propagate!ContainsTarget'
      BY <1>0, <2>2, <3>h DEF Propagate!ContainsTarget, Propagate!W
    <3>8. Propagate!HeadsGrow'
      BY <1>0, <2>2, <3>h DEF Propagate!HeadsGrow, Propagate!W
    <3> QED
      BY <3>1, <3>2, <3>3, <3>4, <3>5, <3>6, <3>7, <3>8
  <2> QED
    BY <1>4, <2>1, <2>2 DEF Propagate!Fetch, Propagate!Go, Propagate!clone, Propagate!records, Propagate!Continue, Propagate!W, PropTypes, PropRun, PropRuns, Propagate!Blocked
<1>5. ASSUME Propagate!Resolve
      PROVE  Goal
  <2> DEFINE target == IF v4.candidate = Propagate!Latest THEN v2 ELSE v4.candidate
  <2> DEFINE next == IF v3[v4.at].base = target THEN "base" ELSE "rebase"
  <2>n. next = "base" \/ next = "rebase"
    OBVIOUS
  <2>t. target \in 0 .. MaxMain + 1 /\ v2 \in 1 .. MaxMain
    BY <1>0 DEF PropTypes, PropRun, PropRuns, PropCandidates
  <2>u. /\ v4.pc = "resolve" /\ UNCHANGED <<v1, v2, v3>> /\ Propagate!Fine
        /\ \/ Propagate!Blocked
           \/ /\ target # 0 /\ ~(target > v2)
              /\ v4' = [v4 EXCEPT !.target = target, !.pc = next]
              /\ UNCHANGED <<v5, v6, v7>>
    BY <1>5 DEF Propagate!Resolve, Propagate!clone, Propagate!records, Propagate!W
  <2> HIDE DEF target, next
  <2>v. \/ Propagate!Blocked
        \/ target \in 1 .. v2 /\ UNCHANGED <<v5, v6, v7>> /\ v4' = [v4 EXCEPT !.target = target, !.pc = "base"]
        \/ target \in 1 .. v2 /\ UNCHANGED <<v5, v6, v7>> /\ v4' = [v4 EXCEPT !.target = target, !.pc = "rebase"]
    <3>1. CASE Propagate!Blocked
      BY <3>1
    <3>2. CASE ~Propagate!Blocked
      <4>1. target \in 1 .. v2
        BY <2>t, <2>u, <3>2, ConstantsAssumption DEF Propagate!BoundsAssumption
      <4> QED
        BY <2>n, <2>u, <3>2, <4>1
    <3> QED
      BY <3>1, <3>2
  <2>1. CASE /\ v4.pc = "resolve"
             /\ UNCHANGED <<v1, v2, v3>>
             /\ Propagate!Blocked
             /\ (Propagate!Fine \/ Propagate!Fail)
             /\ v4' = [v4 EXCEPT !.pc = "next"]
    <3>h. /\ PropRun'
          /\ v4'.pc = "next" /\ v4'.todo = v4.todo /\ v4'.at = v4.at /\ v4'.apply = v4.apply /\ v4'.candidate = v4.candidate /\ v4'.target = v4.target /\ v4'.tested = v4.tested /\ v4'.ranOn = v4.ranOn
      <4>1. "next" \in PropPcs
        BY <1>0, <2>1 DEF PropPcs, PropTodos, PropAts, PropBools, PropCandidates, PropTargets, PropTypes
      <4>2. [v4 EXCEPT !.pc = "next"] \in PropRuns
        BY <1>0, <4>1, PropagateRecords DEF PropRun
      <4>3. LET r == [v4 EXCEPT !.pc = "next"] IN r.pc = "next" /\ r.todo = v4.todo /\ r.at = v4.at /\ r.apply = v4.apply /\ r.candidate = v4.candidate /\ r.target = v4.target /\ r.tested = v4.tested /\ r.ranOn = v4.ranOn
        BY <1>0 DEF PropRun, PropRuns
      <4> HIDE DEF Propagate!Resting
      <4> DEFINE r == [v4 EXCEPT !.pc = "next"]
      <4>4. v4' = r
        BY <2>1
      <4>5. r \in PropRuns /\ r.pc = "next" /\ r.todo = v4.todo /\ r.at = v4.at /\ r.apply = v4.apply /\ r.candidate = v4.candidate /\ r.target = v4.target /\ r.tested = v4.tested /\ r.ranOn = v4.ranOn
        BY <4>2, <4>3
      <4> HIDE DEF r
      <4> QED
        BY <4>4, <4>5 DEF PropRun
    <3>b. /\ v4.at \in Worktrees /\ v5' = [v5 EXCEPT ![v4.at] = "blocked"] /\ v6' \subseteq v6 \cup {v4.at}
          /\ v7' = v7
      BY <1>0, <2>1 DEF Propagate!Blocked, Propagate!AtAWorktree, Propagate!W
    <3>1. PropRun'
      BY <3>h
    <3>2. PropTypes'
      BY <1>0, <2>1, <3>h, <3>b DEF PropTypes
    <3>3. PropTrees'
      BY <1>0, <2>1, <3>h, <3>b DEF PropTrees
    <3>4. PropResults'
      BY <1>0, <2>1, <3>h, <3>b DEF PropResults
    <3>5. Propagate!AtAWorktree'
      BY <1>0, <2>1, <3>h, <3>b DEF Propagate!AtAWorktree
    <3>6. Propagate!TargetIsOnMain'
      BY <1>0, <2>1, <3>h, <3>b DEF Propagate!TargetIsOnMain
    <3>7. Propagate!ContainsTarget'
      BY <1>0, <2>1, <3>h, <3>b DEF Propagate!ContainsTarget, Propagate!W
    <3>8. Propagate!HeadsGrow'
      BY <1>0, <2>1, <3>h, <3>b DEF Propagate!HeadsGrow, Propagate!W
    <3> QED
      BY <3>1, <3>2, <3>3, <3>4, <3>5, <3>6, <3>7, <3>8
  <2>2. CASE /\ v4.pc = "resolve"
             /\ UNCHANGED <<v1, v2, v3>>
             /\ UNCHANGED <<v5, v6, v7>>
             /\ Propagate!Fine
             /\ target \in 1 .. v2
             /\ v4' = [v4 EXCEPT !.target = target, !.pc = "base"]
    <3>h. /\ PropRun'
          /\ v4'.pc = "base" /\ v4'.todo = v4.todo /\ v4'.at = v4.at /\ v4'.apply = v4.apply /\ v4'.candidate = v4.candidate /\ v4'.target = target /\ v4'.tested = v4.tested /\ v4'.ranOn = v4.ranOn
      <4>1. target \in PropTargets /\ "base" \in PropPcs
        BY <1>0, <2>2 DEF PropPcs, PropTodos, PropAts, PropBools, PropCandidates, PropTargets, PropTypes
      <4>2. [v4 EXCEPT !.target = target, !.pc = "base"] \in PropRuns
        BY <1>0, <4>1, PropagateRecords DEF PropRun
      <4>3. LET r == [v4 EXCEPT !.target = target, !.pc = "base"] IN r.pc = "base" /\ r.todo = v4.todo /\ r.at = v4.at /\ r.apply = v4.apply /\ r.candidate = v4.candidate /\ r.target = target /\ r.tested = v4.tested /\ r.ranOn = v4.ranOn
        BY <1>0 DEF PropRun, PropRuns
      <4> HIDE DEF Propagate!Resting
      <4> DEFINE r == [v4 EXCEPT !.target = target, !.pc = "base"]
      <4>4. v4' = r
        BY <2>2
      <4>5. r \in PropRuns /\ r.pc = "base" /\ r.todo = v4.todo /\ r.at = v4.at /\ r.apply = v4.apply /\ r.candidate = v4.candidate /\ r.target = target /\ r.tested = v4.tested /\ r.ranOn = v4.ranOn
        BY <4>2, <4>3
      <4> HIDE DEF r
      <4> QED
        BY <4>4, <4>5 DEF PropRun
    <3>1. PropRun'
      BY <3>h
    <3>2. PropTypes'
      BY <1>0, <2>2, <3>h DEF PropTypes
    <3>3. PropTrees'
      BY <1>0, <2>2, <3>h DEF PropTrees
    <3>4. PropResults'
      BY <1>0, <2>2, <3>h DEF PropResults
    <3>5. Propagate!AtAWorktree'
      BY <1>0, <2>2, <3>h DEF Propagate!AtAWorktree
    <3>6. Propagate!TargetIsOnMain'
      BY <1>0, <2>2, <3>h DEF Propagate!TargetIsOnMain
    <3>7. Propagate!ContainsTarget'
      BY <1>0, <2>2, <3>h DEF Propagate!ContainsTarget, Propagate!W
    <3>8. Propagate!HeadsGrow'
      BY <1>0, <2>2, <3>h DEF Propagate!HeadsGrow, Propagate!W
    <3> QED
      BY <3>1, <3>2, <3>3, <3>4, <3>5, <3>6, <3>7, <3>8
  <2>3. CASE /\ v4.pc = "resolve"
             /\ UNCHANGED <<v1, v2, v3>>
             /\ UNCHANGED <<v5, v6, v7>>
             /\ Propagate!Fine
             /\ target \in 1 .. v2
             /\ v4' = [v4 EXCEPT !.target = target, !.pc = "rebase"]
    <3>h. /\ PropRun'
          /\ v4'.pc = "rebase" /\ v4'.todo = v4.todo /\ v4'.at = v4.at /\ v4'.apply = v4.apply /\ v4'.candidate = v4.candidate /\ v4'.target = target /\ v4'.tested = v4.tested /\ v4'.ranOn = v4.ranOn
      <4>1. target \in PropTargets /\ "rebase" \in PropPcs
        BY <1>0, <2>3 DEF PropPcs, PropTodos, PropAts, PropBools, PropCandidates, PropTargets, PropTypes
      <4>2. [v4 EXCEPT !.target = target, !.pc = "rebase"] \in PropRuns
        BY <1>0, <4>1, PropagateRecords DEF PropRun
      <4>3. LET r == [v4 EXCEPT !.target = target, !.pc = "rebase"] IN r.pc = "rebase" /\ r.todo = v4.todo /\ r.at = v4.at /\ r.apply = v4.apply /\ r.candidate = v4.candidate /\ r.target = target /\ r.tested = v4.tested /\ r.ranOn = v4.ranOn
        BY <1>0 DEF PropRun, PropRuns
      <4> HIDE DEF Propagate!Resting
      <4> DEFINE r == [v4 EXCEPT !.target = target, !.pc = "rebase"]
      <4>4. v4' = r
        BY <2>3
      <4>5. r \in PropRuns /\ r.pc = "rebase" /\ r.todo = v4.todo /\ r.at = v4.at /\ r.apply = v4.apply /\ r.candidate = v4.candidate /\ r.target = target /\ r.tested = v4.tested /\ r.ranOn = v4.ranOn
        BY <4>2, <4>3
      <4> HIDE DEF r
      <4> QED
        BY <4>4, <4>5 DEF PropRun
    <3>1. PropRun'
      BY <3>h
    <3>2. PropTypes'
      BY <1>0, <2>3, <3>h DEF PropTypes
    <3>3. PropTrees'
      BY <1>0, <2>3, <3>h DEF PropTrees
    <3>4. PropResults'
      BY <1>0, <2>3, <3>h DEF PropResults
    <3>5. Propagate!AtAWorktree'
      BY <1>0, <2>3, <3>h DEF Propagate!AtAWorktree
    <3>6. Propagate!TargetIsOnMain'
      BY <1>0, <2>3, <3>h DEF Propagate!TargetIsOnMain
    <3>7. Propagate!ContainsTarget'
      BY <1>0, <2>3, <3>h DEF Propagate!ContainsTarget, Propagate!W
    <3>8. Propagate!HeadsGrow'
      BY <1>0, <2>3, <3>h DEF Propagate!HeadsGrow, Propagate!W
    <3> QED
      BY <3>1, <3>2, <3>3, <3>4, <3>5, <3>6, <3>7, <3>8
  <2> QED
    BY <1>5, <2>1, <2>2, <2>3, <2>t, <2>u, <2>v DEF Propagate!Resolve, Propagate!Go, Propagate!clone, Propagate!records, Propagate!Continue, Propagate!W, PropTypes, PropRun, PropRuns, Propagate!Blocked, Propagate!Latest
<1>6. ASSUME Propagate!Rebase
      PROVE  Goal
  <2>1. CASE /\ v4.pc = "rebase"
             /\ UNCHANGED <<v1, v2, v3>>
             /\ Propagate!Blocked
             /\ (Propagate!Fine \/ Propagate!Fail)
             /\ v4' = [v4 EXCEPT !.pc = "next"]
    <3>h. /\ PropRun'
          /\ v4'.pc = "next" /\ v4'.todo = v4.todo /\ v4'.at = v4.at /\ v4'.apply = v4.apply /\ v4'.candidate = v4.candidate /\ v4'.target = v4.target /\ v4'.tested = v4.tested /\ v4'.ranOn = v4.ranOn
      <4>1. "next" \in PropPcs
        BY <1>0, <2>1 DEF PropPcs, PropTodos, PropAts, PropBools, PropCandidates, PropTargets, PropTypes
      <4>2. [v4 EXCEPT !.pc = "next"] \in PropRuns
        BY <1>0, <4>1, PropagateRecords DEF PropRun
      <4>3. LET r == [v4 EXCEPT !.pc = "next"] IN r.pc = "next" /\ r.todo = v4.todo /\ r.at = v4.at /\ r.apply = v4.apply /\ r.candidate = v4.candidate /\ r.target = v4.target /\ r.tested = v4.tested /\ r.ranOn = v4.ranOn
        BY <1>0 DEF PropRun, PropRuns
      <4> HIDE DEF Propagate!Resting
      <4> DEFINE r == [v4 EXCEPT !.pc = "next"]
      <4>4. v4' = r
        BY <2>1
      <4>5. r \in PropRuns /\ r.pc = "next" /\ r.todo = v4.todo /\ r.at = v4.at /\ r.apply = v4.apply /\ r.candidate = v4.candidate /\ r.target = v4.target /\ r.tested = v4.tested /\ r.ranOn = v4.ranOn
        BY <4>2, <4>3
      <4> HIDE DEF r
      <4> QED
        BY <4>4, <4>5 DEF PropRun
    <3>b. /\ v4.at \in Worktrees /\ v5' = [v5 EXCEPT ![v4.at] = "blocked"] /\ v6' \subseteq v6 \cup {v4.at}
          /\ v7' = v7
      BY <1>0, <2>1 DEF Propagate!Blocked, Propagate!AtAWorktree, Propagate!W
    <3>1. PropRun'
      BY <3>h
    <3>2. PropTypes'
      BY <1>0, <2>1, <3>h, <3>b DEF PropTypes
    <3>3. PropTrees'
      BY <1>0, <2>1, <3>h, <3>b DEF PropTrees
    <3>4. PropResults'
      BY <1>0, <2>1, <3>h, <3>b DEF PropResults
    <3>5. Propagate!AtAWorktree'
      BY <1>0, <2>1, <3>h, <3>b DEF Propagate!AtAWorktree
    <3>6. Propagate!TargetIsOnMain'
      BY <1>0, <2>1, <3>h, <3>b DEF Propagate!TargetIsOnMain
    <3>7. Propagate!ContainsTarget'
      BY <1>0, <2>1, <3>h, <3>b DEF Propagate!ContainsTarget, Propagate!W
    <3>8. Propagate!HeadsGrow'
      BY <1>0, <2>1, <3>h, <3>b DEF Propagate!HeadsGrow, Propagate!W
    <3> QED
      BY <3>1, <3>2, <3>3, <3>4, <3>5, <3>6, <3>7, <3>8
  <2>2. CASE /\ v4.pc = "rebase"
             /\ UNCHANGED <<v1, v2>>
             /\ v3' = [v3 EXCEPT ![v4.at].base = IF @ < v4.target THEN v4.target ELSE @]
             /\ UNCHANGED <<v5, v6, v7>>
             /\ Propagate!Fine
             /\ v4' = [v4 EXCEPT !.pc = "base"]
    <3>h. /\ PropRun'
          /\ v4'.pc = "base" /\ v4'.todo = v4.todo /\ v4'.at = v4.at /\ v4'.apply = v4.apply /\ v4'.candidate = v4.candidate /\ v4'.target = v4.target /\ v4'.tested = v4.tested /\ v4'.ranOn = v4.ranOn
      <4>1. "base" \in PropPcs
        BY <1>0, <2>2 DEF PropPcs, PropTodos, PropAts, PropBools, PropCandidates, PropTargets, PropTypes
      <4>2. [v4 EXCEPT !.pc = "base"] \in PropRuns
        BY <1>0, <4>1, PropagateRecords DEF PropRun
      <4>3. LET r == [v4 EXCEPT !.pc = "base"] IN r.pc = "base" /\ r.todo = v4.todo /\ r.at = v4.at /\ r.apply = v4.apply /\ r.candidate = v4.candidate /\ r.target = v4.target /\ r.tested = v4.tested /\ r.ranOn = v4.ranOn
        BY <1>0 DEF PropRun, PropRuns
      <4> HIDE DEF Propagate!Resting
      <4> DEFINE r == [v4 EXCEPT !.pc = "base"]
      <4>4. v4' = r
        BY <2>2
      <4>5. r \in PropRuns /\ r.pc = "base" /\ r.todo = v4.todo /\ r.at = v4.at /\ r.apply = v4.apply /\ r.candidate = v4.candidate /\ r.target = v4.target /\ r.tested = v4.tested /\ r.ranOn = v4.ranOn
        BY <4>2, <4>3
      <4> HIDE DEF r
      <4> QED
        BY <4>4, <4>5 DEF PropRun
    <3>t. PropTrees'
      BY <1>0, <2>2 DEF PropTrees, PropTree, PropBases, PropOwns, PropBases, PropOwns, Propagate!AtAWorktree, PropRun, PropRuns, PropTargets
    <3>1. PropRun'
      BY <3>h
    <3>2. PropTypes'
      BY <1>0, <2>2, <3>h, <3>t DEF PropTypes
    <3>3. PropTrees'
      BY <1>0, <2>2, <3>h, <3>t DEF PropTrees
    <3>4. PropResults'
      BY <1>0, <2>2, <3>h, <3>t DEF PropResults
    <3>5. Propagate!AtAWorktree'
      BY <1>0, <2>2, <3>h, <3>t DEF Propagate!AtAWorktree
    <3>6. Propagate!TargetIsOnMain'
      BY <1>0, <2>2, <3>h, <3>t DEF Propagate!TargetIsOnMain
    <3>7. Propagate!ContainsTarget'
      BY <1>0, <2>2, <3>h, <3>t DEF Propagate!ContainsTarget, Propagate!W
    <3>8. Propagate!HeadsGrow'
      BY <1>0, <2>2, <3>h, <3>t DEF Propagate!HeadsGrow, Propagate!W
    <3> QED
      BY <3>1, <3>2, <3>3, <3>4, <3>5, <3>6, <3>7, <3>8
  <2> QED
    BY <1>6, <2>1, <2>2 DEF Propagate!Rebase, Propagate!Go, Propagate!clone, Propagate!records, Propagate!Continue, Propagate!W, PropTypes, PropRun, PropRuns, Propagate!Blocked
<1>7. ASSUME Propagate!CheckBase
      PROVE  Goal
  <2>1. CASE /\ v4.pc = "base"
             /\ UNCHANGED <<v1, v2, v3>>
             /\ Propagate!Blocked
             /\ (Propagate!Fine \/ Propagate!Fail)
             /\ v4' = [v4 EXCEPT !.pc = "next"]
    <3>h. /\ PropRun'
          /\ v4'.pc = "next" /\ v4'.todo = v4.todo /\ v4'.at = v4.at /\ v4'.apply = v4.apply /\ v4'.candidate = v4.candidate /\ v4'.target = v4.target /\ v4'.tested = v4.tested /\ v4'.ranOn = v4.ranOn
      <4>1. "next" \in PropPcs
        BY <1>0, <2>1 DEF PropPcs, PropTodos, PropAts, PropBools, PropCandidates, PropTargets, PropTypes
      <4>2. [v4 EXCEPT !.pc = "next"] \in PropRuns
        BY <1>0, <4>1, PropagateRecords DEF PropRun
      <4>3. LET r == [v4 EXCEPT !.pc = "next"] IN r.pc = "next" /\ r.todo = v4.todo /\ r.at = v4.at /\ r.apply = v4.apply /\ r.candidate = v4.candidate /\ r.target = v4.target /\ r.tested = v4.tested /\ r.ranOn = v4.ranOn
        BY <1>0 DEF PropRun, PropRuns
      <4> HIDE DEF Propagate!Resting
      <4> DEFINE r == [v4 EXCEPT !.pc = "next"]
      <4>4. v4' = r
        BY <2>1
      <4>5. r \in PropRuns /\ r.pc = "next" /\ r.todo = v4.todo /\ r.at = v4.at /\ r.apply = v4.apply /\ r.candidate = v4.candidate /\ r.target = v4.target /\ r.tested = v4.tested /\ r.ranOn = v4.ranOn
        BY <4>2, <4>3
      <4> HIDE DEF r
      <4> QED
        BY <4>4, <4>5 DEF PropRun
    <3>b. /\ v4.at \in Worktrees /\ v5' = [v5 EXCEPT ![v4.at] = "blocked"] /\ v6' \subseteq v6 \cup {v4.at}
          /\ v7' = v7
      BY <1>0, <2>1 DEF Propagate!Blocked, Propagate!AtAWorktree, Propagate!W
    <3>1. PropRun'
      BY <3>h
    <3>2. PropTypes'
      BY <1>0, <2>1, <3>h, <3>b DEF PropTypes
    <3>3. PropTrees'
      BY <1>0, <2>1, <3>h, <3>b DEF PropTrees
    <3>4. PropResults'
      BY <1>0, <2>1, <3>h, <3>b DEF PropResults
    <3>5. Propagate!AtAWorktree'
      BY <1>0, <2>1, <3>h, <3>b DEF Propagate!AtAWorktree
    <3>6. Propagate!TargetIsOnMain'
      BY <1>0, <2>1, <3>h, <3>b DEF Propagate!TargetIsOnMain
    <3>7. Propagate!ContainsTarget'
      BY <1>0, <2>1, <3>h, <3>b DEF Propagate!ContainsTarget, Propagate!W
    <3>8. Propagate!HeadsGrow'
      BY <1>0, <2>1, <3>h, <3>b DEF Propagate!HeadsGrow, Propagate!W
    <3> QED
      BY <3>1, <3>2, <3>3, <3>4, <3>5, <3>6, <3>7, <3>8
  <2>2. CASE /\ v4.pc = "base"
             /\ UNCHANGED <<v1, v2, v3>>
             /\ UNCHANGED <<v5, v6, v7>>
             /\ Propagate!Fine
             /\ v3[v4.at].base = v4.target
             /\ v4' = [v4 EXCEPT !.pc = "head"]
    <3>h. /\ PropRun'
          /\ v4'.pc = "head" /\ v4'.todo = v4.todo /\ v4'.at = v4.at /\ v4'.apply = v4.apply /\ v4'.candidate = v4.candidate /\ v4'.target = v4.target /\ v4'.tested = v4.tested /\ v4'.ranOn = v4.ranOn
      <4>1. "head" \in PropPcs
        BY <1>0, <2>2 DEF PropPcs, PropTodos, PropAts, PropBools, PropCandidates, PropTargets, PropTypes
      <4>2. [v4 EXCEPT !.pc = "head"] \in PropRuns
        BY <1>0, <4>1, PropagateRecords DEF PropRun
      <4>3. LET r == [v4 EXCEPT !.pc = "head"] IN r.pc = "head" /\ r.todo = v4.todo /\ r.at = v4.at /\ r.apply = v4.apply /\ r.candidate = v4.candidate /\ r.target = v4.target /\ r.tested = v4.tested /\ r.ranOn = v4.ranOn
        BY <1>0 DEF PropRun, PropRuns
      <4> HIDE DEF Propagate!Resting
      <4> DEFINE r == [v4 EXCEPT !.pc = "head"]
      <4>4. v4' = r
        BY <2>2
      <4>5. r \in PropRuns /\ r.pc = "head" /\ r.todo = v4.todo /\ r.at = v4.at /\ r.apply = v4.apply /\ r.candidate = v4.candidate /\ r.target = v4.target /\ r.tested = v4.tested /\ r.ranOn = v4.ranOn
        BY <4>2, <4>3
      <4> HIDE DEF r
      <4> QED
        BY <4>4, <4>5 DEF PropRun
    <3>1. PropRun'
      BY <3>h
    <3>2. PropTypes'
      BY <1>0, <2>2, <3>h DEF PropTypes
    <3>3. PropTrees'
      BY <1>0, <2>2, <3>h DEF PropTrees
    <3>4. PropResults'
      BY <1>0, <2>2, <3>h DEF PropResults
    <3>5. Propagate!AtAWorktree'
      BY <1>0, <2>2, <3>h DEF Propagate!AtAWorktree
    <3>6. Propagate!TargetIsOnMain'
      BY <1>0, <2>2, <3>h DEF Propagate!TargetIsOnMain
    <3>7. Propagate!ContainsTarget'
      BY <1>0, <2>2, <3>h DEF Propagate!ContainsTarget, Propagate!W, PropRun, PropRuns, PropTargets
    <3>8. Propagate!HeadsGrow'
      BY <1>0, <2>2, <3>h DEF Propagate!HeadsGrow, Propagate!W
    <3> QED
      BY <3>1, <3>2, <3>3, <3>4, <3>5, <3>6, <3>7, <3>8
  <2> QED
    BY <1>7, <2>1, <2>2 DEF Propagate!CheckBase, Propagate!Go, Propagate!clone, Propagate!records, Propagate!Continue, Propagate!W, PropTypes, PropRun, PropRuns, Propagate!Blocked
<1>8. ASSUME Propagate!ReadHead
      PROVE  Goal
  <2>1. CASE /\ v4.pc = "head"
             /\ UNCHANGED <<v1, v2, v3>>
             /\ Propagate!Blocked
             /\ (Propagate!Fine \/ Propagate!Fail)
             /\ v4' = [v4 EXCEPT !.pc = "next"]
    <3>h. /\ PropRun'
          /\ v4'.pc = "next" /\ v4'.todo = v4.todo /\ v4'.at = v4.at /\ v4'.apply = v4.apply /\ v4'.candidate = v4.candidate /\ v4'.target = v4.target /\ v4'.tested = v4.tested /\ v4'.ranOn = v4.ranOn
      <4>1. "next" \in PropPcs
        BY <1>0, <2>1 DEF PropPcs, PropTodos, PropAts, PropBools, PropCandidates, PropTargets, PropTypes
      <4>2. [v4 EXCEPT !.pc = "next"] \in PropRuns
        BY <1>0, <4>1, PropagateRecords DEF PropRun
      <4>3. LET r == [v4 EXCEPT !.pc = "next"] IN r.pc = "next" /\ r.todo = v4.todo /\ r.at = v4.at /\ r.apply = v4.apply /\ r.candidate = v4.candidate /\ r.target = v4.target /\ r.tested = v4.tested /\ r.ranOn = v4.ranOn
        BY <1>0 DEF PropRun, PropRuns
      <4> HIDE DEF Propagate!Resting
      <4> DEFINE r == [v4 EXCEPT !.pc = "next"]
      <4>4. v4' = r
        BY <2>1
      <4>5. r \in PropRuns /\ r.pc = "next" /\ r.todo = v4.todo /\ r.at = v4.at /\ r.apply = v4.apply /\ r.candidate = v4.candidate /\ r.target = v4.target /\ r.tested = v4.tested /\ r.ranOn = v4.ranOn
        BY <4>2, <4>3
      <4> HIDE DEF r
      <4> QED
        BY <4>4, <4>5 DEF PropRun
    <3>b. /\ v4.at \in Worktrees /\ v5' = [v5 EXCEPT ![v4.at] = "blocked"] /\ v6' \subseteq v6 \cup {v4.at}
          /\ v7' = v7
      BY <1>0, <2>1 DEF Propagate!Blocked, Propagate!AtAWorktree, Propagate!W
    <3>1. PropRun'
      BY <3>h
    <3>2. PropTypes'
      BY <1>0, <2>1, <3>h, <3>b DEF PropTypes
    <3>3. PropTrees'
      BY <1>0, <2>1, <3>h, <3>b DEF PropTrees
    <3>4. PropResults'
      BY <1>0, <2>1, <3>h, <3>b DEF PropResults
    <3>5. Propagate!AtAWorktree'
      BY <1>0, <2>1, <3>h, <3>b DEF Propagate!AtAWorktree
    <3>6. Propagate!TargetIsOnMain'
      BY <1>0, <2>1, <3>h, <3>b DEF Propagate!TargetIsOnMain
    <3>7. Propagate!ContainsTarget'
      BY <1>0, <2>1, <3>h, <3>b DEF Propagate!ContainsTarget, Propagate!W
    <3>8. Propagate!HeadsGrow'
      BY <1>0, <2>1, <3>h, <3>b DEF Propagate!HeadsGrow, Propagate!W
    <3> QED
      BY <3>1, <3>2, <3>3, <3>4, <3>5, <3>6, <3>7, <3>8
  <2>2. CASE /\ v4.pc = "head"
             /\ UNCHANGED <<v1, v2, v3>>
             /\ UNCHANGED <<v5, v6, v7>>
             /\ Propagate!Fine
             /\ v4' = [v4 EXCEPT !.pc = "ci", !.tested = <<v3[v4.at].base, v3[v4.at].own>>]
    <3>h. /\ PropRun'
          /\ v4'.pc = "ci" /\ v4'.todo = v4.todo /\ v4'.at = v4.at /\ v4'.apply = v4.apply /\ v4'.candidate = v4.candidate /\ v4'.target = v4.target /\ v4'.tested = <<v3[v4.at].base, v3[v4.at].own>> /\ v4'.ranOn = v4.ranOn
      <4>1. "ci" \in PropPcs /\ <<v3[v4.at].base, v3[v4.at].own>> \in PropHeads
        BY <1>0, <2>2 DEF PropPcs, PropTodos, PropAts, PropBools, PropCandidates, PropTargets, PropTypes, PropHeads, PropTrees, PropTree, PropBases, PropOwns, PropBases, PropOwns, Propagate!AtAWorktree
      <4>2. [v4 EXCEPT !.pc = "ci", !.tested = <<v3[v4.at].base, v3[v4.at].own>>] \in PropRuns
        BY <1>0, <4>1, PropagateRecords DEF PropRun
      <4>3. LET r == [v4 EXCEPT !.pc = "ci", !.tested = <<v3[v4.at].base, v3[v4.at].own>>] IN r.pc = "ci" /\ r.todo = v4.todo /\ r.at = v4.at /\ r.apply = v4.apply /\ r.candidate = v4.candidate /\ r.target = v4.target /\ r.tested = <<v3[v4.at].base, v3[v4.at].own>> /\ r.ranOn = v4.ranOn
        BY <1>0 DEF PropRun, PropRuns
      <4> HIDE DEF Propagate!Resting
      <4> DEFINE r == [v4 EXCEPT !.pc = "ci", !.tested = <<v3[v4.at].base, v3[v4.at].own>>]
      <4>4. v4' = r
        BY <2>2
      <4>5. r \in PropRuns /\ r.pc = "ci" /\ r.todo = v4.todo /\ r.at = v4.at /\ r.apply = v4.apply /\ r.candidate = v4.candidate /\ r.target = v4.target /\ r.tested = <<v3[v4.at].base, v3[v4.at].own>> /\ r.ranOn = v4.ranOn
        BY <4>2, <4>3
      <4> HIDE DEF r
      <4> QED
        BY <4>4, <4>5 DEF PropRun
    <3>w. v4.at \in Worktrees /\ v3[v4.at].base \in 1 .. MaxMain /\ v3[v4.at].own \in 0 .. MaxOwn
      BY <1>0, <2>2 DEF Propagate!AtAWorktree, PropTrees, PropTree, PropBases, PropOwns
    <3>1. PropRun'
      BY <3>h
    <3>2. PropTypes'
      BY <1>0, <2>2, <3>h, <3>w DEF PropTypes
    <3>3. PropTrees'
      BY <1>0, <2>2, <3>h, <3>w DEF PropTrees
    <3>4. PropResults'
      BY <1>0, <2>2, <3>h, <3>w DEF PropResults
    <3>5. Propagate!AtAWorktree'
      BY <1>0, <2>2, <3>h, <3>w DEF Propagate!AtAWorktree
    <3>6. Propagate!TargetIsOnMain'
      BY <1>0, <2>2, <3>h, <3>w DEF Propagate!TargetIsOnMain
    <3>7. Propagate!ContainsTarget'
      BY <1>0, <2>2, <3>h, <3>w DEF Propagate!ContainsTarget, Propagate!W
    <3>8. Propagate!HeadsGrow'
      BY <1>0, <2>2, <3>h, <3>w DEF Propagate!HeadsGrow, Propagate!W
    <3> QED
      BY <3>1, <3>2, <3>3, <3>4, <3>5, <3>6, <3>7, <3>8
  <2> QED
    BY <1>8, <2>1, <2>2 DEF Propagate!ReadHead, Propagate!Go, Propagate!clone, Propagate!records, Propagate!Continue, Propagate!W, Propagate!Head, PropTypes, PropRun, PropRuns, Propagate!Blocked
<1>9. ASSUME Propagate!RunCI
      PROVE  Goal
  <2>1. CASE /\ v4.pc = "ci"
             /\ UNCHANGED <<v1, v2, v3>>
             /\ Propagate!Blocked
             /\ (Propagate!Fine \/ Propagate!Fail)
             /\ v4' = [v4 EXCEPT !.pc = "next"]
    <3>h. /\ PropRun'
          /\ v4'.pc = "next" /\ v4'.todo = v4.todo /\ v4'.at = v4.at /\ v4'.apply = v4.apply /\ v4'.candidate = v4.candidate /\ v4'.target = v4.target /\ v4'.tested = v4.tested /\ v4'.ranOn = v4.ranOn
      <4>1. "next" \in PropPcs
        BY <1>0, <2>1 DEF PropPcs, PropTodos, PropAts, PropBools, PropCandidates, PropTargets, PropTypes
      <4>2. [v4 EXCEPT !.pc = "next"] \in PropRuns
        BY <1>0, <4>1, PropagateRecords DEF PropRun
      <4>3. LET r == [v4 EXCEPT !.pc = "next"] IN r.pc = "next" /\ r.todo = v4.todo /\ r.at = v4.at /\ r.apply = v4.apply /\ r.candidate = v4.candidate /\ r.target = v4.target /\ r.tested = v4.tested /\ r.ranOn = v4.ranOn
        BY <1>0 DEF PropRun, PropRuns
      <4> HIDE DEF Propagate!Resting
      <4> DEFINE r == [v4 EXCEPT !.pc = "next"]
      <4>4. v4' = r
        BY <2>1
      <4>5. r \in PropRuns /\ r.pc = "next" /\ r.todo = v4.todo /\ r.at = v4.at /\ r.apply = v4.apply /\ r.candidate = v4.candidate /\ r.target = v4.target /\ r.tested = v4.tested /\ r.ranOn = v4.ranOn
        BY <4>2, <4>3
      <4> HIDE DEF r
      <4> QED
        BY <4>4, <4>5 DEF PropRun
    <3>b. /\ v4.at \in Worktrees /\ v5' = [v5 EXCEPT ![v4.at] = "blocked"] /\ v6' \subseteq v6 \cup {v4.at}
          /\ v7' = v7
      BY <1>0, <2>1 DEF Propagate!Blocked, Propagate!AtAWorktree, Propagate!W
    <3>1. PropRun'
      BY <3>h
    <3>2. PropTypes'
      BY <1>0, <2>1, <3>h, <3>b DEF PropTypes
    <3>3. PropTrees'
      BY <1>0, <2>1, <3>h, <3>b DEF PropTrees
    <3>4. PropResults'
      BY <1>0, <2>1, <3>h, <3>b DEF PropResults
    <3>5. Propagate!AtAWorktree'
      BY <1>0, <2>1, <3>h, <3>b DEF Propagate!AtAWorktree
    <3>6. Propagate!TargetIsOnMain'
      BY <1>0, <2>1, <3>h, <3>b DEF Propagate!TargetIsOnMain
    <3>7. Propagate!ContainsTarget'
      BY <1>0, <2>1, <3>h, <3>b DEF Propagate!ContainsTarget, Propagate!W
    <3>8. Propagate!HeadsGrow'
      BY <1>0, <2>1, <3>h, <3>b DEF Propagate!HeadsGrow, Propagate!W
    <3> QED
      BY <3>1, <3>2, <3>3, <3>4, <3>5, <3>6, <3>7, <3>8
  <2>2. CASE /\ v4.pc = "ci"
             /\ UNCHANGED <<v1, v2, v3>>
             /\ UNCHANGED <<v5, v6, v7>>
             /\ Propagate!Fine
             /\ v4' = [v4 EXCEPT !.pc = "after", !.ranOn = <<v3[v4.at].base, v3[v4.at].own>>]
    <3>h. /\ PropRun'
          /\ v4'.pc = "after" /\ v4'.todo = v4.todo /\ v4'.at = v4.at /\ v4'.apply = v4.apply /\ v4'.candidate = v4.candidate /\ v4'.target = v4.target /\ v4'.tested = v4.tested /\ v4'.ranOn = <<v3[v4.at].base, v3[v4.at].own>>
      <4>1. "after" \in PropPcs /\ <<v3[v4.at].base, v3[v4.at].own>> \in PropHeads
        BY <1>0, <2>2 DEF PropPcs, PropTodos, PropAts, PropBools, PropCandidates, PropTargets, PropTypes, PropHeads, PropTrees, PropTree, PropBases, PropOwns, PropBases, PropOwns, Propagate!AtAWorktree
      <4>2. [v4 EXCEPT !.pc = "after", !.ranOn = <<v3[v4.at].base, v3[v4.at].own>>] \in PropRuns
        BY <1>0, <4>1, PropagateRecords DEF PropRun
      <4>3. LET r == [v4 EXCEPT !.pc = "after", !.ranOn = <<v3[v4.at].base, v3[v4.at].own>>] IN r.pc = "after" /\ r.todo = v4.todo /\ r.at = v4.at /\ r.apply = v4.apply /\ r.candidate = v4.candidate /\ r.target = v4.target /\ r.tested = v4.tested /\ r.ranOn = <<v3[v4.at].base, v3[v4.at].own>>
        BY <1>0 DEF PropRun, PropRuns
      <4> HIDE DEF Propagate!Resting
      <4> DEFINE r == [v4 EXCEPT !.pc = "after", !.ranOn = <<v3[v4.at].base, v3[v4.at].own>>]
      <4>4. v4' = r
        BY <2>2
      <4>5. r \in PropRuns /\ r.pc = "after" /\ r.todo = v4.todo /\ r.at = v4.at /\ r.apply = v4.apply /\ r.candidate = v4.candidate /\ r.target = v4.target /\ r.tested = v4.tested /\ r.ranOn = <<v3[v4.at].base, v3[v4.at].own>>
        BY <4>2, <4>3
      <4> HIDE DEF r
      <4> QED
        BY <4>4, <4>5 DEF PropRun
    <3>w. v4.at \in Worktrees /\ v3[v4.at].base \in 1 .. MaxMain /\ v3[v4.at].own \in 0 .. MaxOwn
      BY <1>0, <2>2 DEF Propagate!AtAWorktree, PropTrees, PropTree, PropBases, PropOwns
    <3>1. PropRun'
      BY <3>h
    <3>2. PropTypes'
      BY <1>0, <2>2, <3>h, <3>w DEF PropTypes
    <3>3. PropTrees'
      BY <1>0, <2>2, <3>h, <3>w DEF PropTrees
    <3>4. PropResults'
      BY <1>0, <2>2, <3>h, <3>w DEF PropResults
    <3>5. Propagate!AtAWorktree'
      BY <1>0, <2>2, <3>h, <3>w DEF Propagate!AtAWorktree
    <3>6. Propagate!TargetIsOnMain'
      BY <1>0, <2>2, <3>h, <3>w DEF Propagate!TargetIsOnMain
    <3>7. Propagate!ContainsTarget'
      BY <1>0, <2>2, <3>h, <3>w DEF Propagate!ContainsTarget, Propagate!W
    <3>8. Propagate!HeadsGrow'
      BY <1>0, <2>2, <3>h, <3>w DEF Propagate!HeadsGrow, Propagate!W
    <3> QED
      BY <3>1, <3>2, <3>3, <3>4, <3>5, <3>6, <3>7, <3>8
  <2> QED
    BY <1>9, <2>1, <2>2 DEF Propagate!RunCI, Propagate!Go, Propagate!clone, Propagate!records, Propagate!Continue, Propagate!W, Propagate!Head, PropTypes, PropRun, PropRuns, Propagate!Blocked
<1>10. ASSUME Propagate!CheckAfter
      PROVE  Goal
  <2>1. CASE /\ v4.pc = "after"
             /\ UNCHANGED <<v1, v2, v3>>
             /\ Propagate!Blocked
             /\ (Propagate!Fine \/ Propagate!Fail)
             /\ v4' = [v4 EXCEPT !.pc = "next"]
    <3>h. /\ PropRun'
          /\ v4'.pc = "next" /\ v4'.todo = v4.todo /\ v4'.at = v4.at /\ v4'.apply = v4.apply /\ v4'.candidate = v4.candidate /\ v4'.target = v4.target /\ v4'.tested = v4.tested /\ v4'.ranOn = v4.ranOn
      <4>1. "next" \in PropPcs
        BY <1>0, <2>1 DEF PropPcs, PropTodos, PropAts, PropBools, PropCandidates, PropTargets, PropTypes
      <4>2. [v4 EXCEPT !.pc = "next"] \in PropRuns
        BY <1>0, <4>1, PropagateRecords DEF PropRun
      <4>3. LET r == [v4 EXCEPT !.pc = "next"] IN r.pc = "next" /\ r.todo = v4.todo /\ r.at = v4.at /\ r.apply = v4.apply /\ r.candidate = v4.candidate /\ r.target = v4.target /\ r.tested = v4.tested /\ r.ranOn = v4.ranOn
        BY <1>0 DEF PropRun, PropRuns
      <4> HIDE DEF Propagate!Resting
      <4> DEFINE r == [v4 EXCEPT !.pc = "next"]
      <4>4. v4' = r
        BY <2>1
      <4>5. r \in PropRuns /\ r.pc = "next" /\ r.todo = v4.todo /\ r.at = v4.at /\ r.apply = v4.apply /\ r.candidate = v4.candidate /\ r.target = v4.target /\ r.tested = v4.tested /\ r.ranOn = v4.ranOn
        BY <4>2, <4>3
      <4> HIDE DEF r
      <4> QED
        BY <4>4, <4>5 DEF PropRun
    <3>b. /\ v4.at \in Worktrees /\ v5' = [v5 EXCEPT ![v4.at] = "blocked"] /\ v6' \subseteq v6 \cup {v4.at}
          /\ v7' = v7
      BY <1>0, <2>1 DEF Propagate!Blocked, Propagate!AtAWorktree, Propagate!W
    <3>1. PropRun'
      BY <3>h
    <3>2. PropTypes'
      BY <1>0, <2>1, <3>h, <3>b DEF PropTypes
    <3>3. PropTrees'
      BY <1>0, <2>1, <3>h, <3>b DEF PropTrees
    <3>4. PropResults'
      BY <1>0, <2>1, <3>h, <3>b DEF PropResults
    <3>5. Propagate!AtAWorktree'
      BY <1>0, <2>1, <3>h, <3>b DEF Propagate!AtAWorktree
    <3>6. Propagate!TargetIsOnMain'
      BY <1>0, <2>1, <3>h, <3>b DEF Propagate!TargetIsOnMain
    <3>7. Propagate!ContainsTarget'
      BY <1>0, <2>1, <3>h, <3>b DEF Propagate!ContainsTarget, Propagate!W
    <3>8. Propagate!HeadsGrow'
      BY <1>0, <2>1, <3>h, <3>b DEF Propagate!HeadsGrow, Propagate!W
    <3> QED
      BY <3>1, <3>2, <3>3, <3>4, <3>5, <3>6, <3>7, <3>8
  <2>2. CASE /\ v4.pc = "after"
             /\ UNCHANGED <<v1, v2, v3>>
             /\ v5' = [v5 EXCEPT ![v4.at] = "green"]
             /\ UNCHANGED <<v6, v7>>
             /\ Propagate!Fine
             /\ v4' = [v4 EXCEPT !.pc = "next"]
    <3>h. /\ PropRun'
          /\ v4'.pc = "next" /\ v4'.todo = v4.todo /\ v4'.at = v4.at /\ v4'.apply = v4.apply /\ v4'.candidate = v4.candidate /\ v4'.target = v4.target /\ v4'.tested = v4.tested /\ v4'.ranOn = v4.ranOn
      <4>1. "next" \in PropPcs
        BY <1>0, <2>2 DEF PropPcs, PropTodos, PropAts, PropBools, PropCandidates, PropTargets, PropTypes
      <4>2. [v4 EXCEPT !.pc = "next"] \in PropRuns
        BY <1>0, <4>1, PropagateRecords DEF PropRun
      <4>3. LET r == [v4 EXCEPT !.pc = "next"] IN r.pc = "next" /\ r.todo = v4.todo /\ r.at = v4.at /\ r.apply = v4.apply /\ r.candidate = v4.candidate /\ r.target = v4.target /\ r.tested = v4.tested /\ r.ranOn = v4.ranOn
        BY <1>0 DEF PropRun, PropRuns
      <4> HIDE DEF Propagate!Resting
      <4> DEFINE r == [v4 EXCEPT !.pc = "next"]
      <4>4. v4' = r
        BY <2>2
      <4>5. r \in PropRuns /\ r.pc = "next" /\ r.todo = v4.todo /\ r.at = v4.at /\ r.apply = v4.apply /\ r.candidate = v4.candidate /\ r.target = v4.target /\ r.tested = v4.tested /\ r.ranOn = v4.ranOn
        BY <4>2, <4>3
      <4> HIDE DEF r
      <4> QED
        BY <4>4, <4>5 DEF PropRun
    <3>1. PropRun'
      BY <3>h
    <3>2. PropTypes'
      BY <1>0, <2>2, <3>h DEF PropTypes
    <3>3. PropTrees'
      BY <1>0, <2>2, <3>h DEF PropTrees
    <3>4. PropResults'
      BY <1>0, <2>2, <3>h DEF PropResults
    <3>5. Propagate!AtAWorktree'
      BY <1>0, <2>2, <3>h DEF Propagate!AtAWorktree
    <3>6. Propagate!TargetIsOnMain'
      BY <1>0, <2>2, <3>h DEF Propagate!TargetIsOnMain
    <3>7. Propagate!ContainsTarget'
      BY <1>0, <2>2, <3>h DEF Propagate!ContainsTarget, Propagate!W
    <3>8. Propagate!HeadsGrow'
      BY <1>0, <2>2, <3>h DEF Propagate!HeadsGrow, Propagate!W
    <3> QED
      BY <3>1, <3>2, <3>3, <3>4, <3>5, <3>6, <3>7, <3>8
  <2> QED
    BY <1>10, <2>1, <2>2 DEF Propagate!CheckAfter, Propagate!Go, Propagate!clone, Propagate!records, Propagate!Continue, Propagate!W, PropTypes, PropRun, PropRuns, Propagate!Blocked
<1>11. ASSUME Propagate!WriteReport
      PROVE  Goal
  <2>1. CASE /\ v4.pc = "report"
             /\ UNCHANGED <<v1, v2, v3>>
             /\ UNCHANGED <<v5, v6>>
             /\ v7' \in {"none", "completed", "failed"}
             /\ (Propagate!Fine \/ Propagate!Fail)
             /\ v4' = [v4 EXCEPT !.pc = "idle"]
    <3>h. /\ PropRun'
          /\ v4'.pc = "idle" /\ v4'.todo = v4.todo /\ v4'.at = v4.at /\ v4'.apply = v4.apply /\ v4'.candidate = v4.candidate /\ v4'.target = v4.target /\ v4'.tested = v4.tested /\ v4'.ranOn = v4.ranOn
      <4>1. "idle" \in PropPcs
        BY <1>0, <2>1 DEF PropPcs, PropTodos, PropAts, PropBools, PropCandidates, PropTargets, PropTypes
      <4>2. [v4 EXCEPT !.pc = "idle"] \in PropRuns
        BY <1>0, <4>1, PropagateRecords DEF PropRun
      <4>3. LET r == [v4 EXCEPT !.pc = "idle"] IN r.pc = "idle" /\ r.todo = v4.todo /\ r.at = v4.at /\ r.apply = v4.apply /\ r.candidate = v4.candidate /\ r.target = v4.target /\ r.tested = v4.tested /\ r.ranOn = v4.ranOn
        BY <1>0 DEF PropRun, PropRuns
      <4> HIDE DEF Propagate!Resting
      <4> DEFINE r == [v4 EXCEPT !.pc = "idle"]
      <4>4. v4' = r
        BY <2>1
      <4>5. r \in PropRuns /\ r.pc = "idle" /\ r.todo = v4.todo /\ r.at = v4.at /\ r.apply = v4.apply /\ r.candidate = v4.candidate /\ r.target = v4.target /\ r.tested = v4.tested /\ r.ranOn = v4.ranOn
        BY <4>2, <4>3
      <4> HIDE DEF r
      <4> QED
        BY <4>4, <4>5 DEF PropRun
    <3>1. PropRun'
      BY <3>h
    <3>2. PropTypes'
      BY <1>0, <2>1, <3>h DEF PropTypes
    <3>3. PropTrees'
      BY <1>0, <2>1, <3>h DEF PropTrees
    <3>4. PropResults'
      BY <1>0, <2>1, <3>h DEF PropResults
    <3>5. Propagate!AtAWorktree'
      BY <1>0, <2>1, <3>h DEF Propagate!AtAWorktree
    <3>6. Propagate!TargetIsOnMain'
      BY <1>0, <2>1, <3>h DEF Propagate!TargetIsOnMain
    <3>7. Propagate!ContainsTarget'
      BY <1>0, <2>1, <3>h DEF Propagate!ContainsTarget, Propagate!W
    <3>8. Propagate!HeadsGrow'
      BY <1>0, <2>1, <3>h DEF Propagate!HeadsGrow, Propagate!W
    <3> QED
      BY <3>1, <3>2, <3>3, <3>4, <3>5, <3>6, <3>7, <3>8
  <2> QED
    BY <1>0, <1>11, <2>1 DEF Propagate!WriteReport, Propagate!Go, Propagate!clone, Propagate!records, Propagate!Continue, Propagate!W, PropTypes, PropRun, PropRuns, Propagate!Blocked
<1>12. ASSUME NEW w \in Worktrees, Propagate!Edit(w)
      PROVE  Goal
  <2>a. UNCHANGED <<v1, v2, v4, v5, v6, v7, faults>>
    BY <1>12 DEF Propagate!Edit, Propagate!records
  <2>t. PropTrees' /\ \A x \in Worktrees : v3'[x].base >= v3[x].base /\ v3'[x].own >= v3[x].own
    <3>1. v3[w] \in PropTree /\ v2 \in 1 .. MaxMain
      BY <1>0 DEF PropTrees, PropTypes
    <3> DEFINE t == [v3[w] EXCEPT !.dirty = TRUE]
    <3>4. t.base >= v3[w].base /\ t.own >= v3[w].own
      BY <1>0, <1>12, <3>1 DEF Propagate!Edit, PropTree, PropBases, PropOwns
    <3>5. v2 \in PropBases /\ (v3[w].own < MaxOwn => v3[w].own + 1 \in PropOwns) /\ TRUE \in PropBools /\ FALSE \in PropBools
      BY <1>0, <3>1 DEF PropTree, PropBases, PropOwns, PropBools
    <3>2. t \in PropTree /\ t.base >= v3[w].base /\ t.own >= v3[w].own
      BY <1>12, <3>1, <3>4, <3>5 DEF Propagate!Edit, PropTree
    <3>3. v3' = [v3 EXCEPT ![w] = t]
      BY <1>12 DEF Propagate!Edit
    <3> HIDE DEF t
    <3> QED
      BY <1>0, <3>1, <3>2, <3>3 DEF PropTrees, PropTree, PropBases, PropOwns, PropBases, PropOwns
  <2>1. PropRun'
    BY <1>0, <2>a, <2>t DEF PropRun
  <2>2. PropTypes'
    BY <1>0, <2>a, <2>t DEF PropTypes
  <2>3. PropTrees'
    BY <1>0, <2>a, <2>t DEF PropTrees
  <2>4. PropResults'
    BY <1>0, <2>a, <2>t DEF PropResults
  <2>5. Propagate!AtAWorktree'
    BY <1>0, <2>a, <2>t DEF Propagate!AtAWorktree
  <2>6. Propagate!TargetIsOnMain'
    BY <1>0, <2>a, <2>t DEF Propagate!TargetIsOnMain
  <2>7. Propagate!ContainsTarget'
    BY <1>0, <2>a, <2>t DEF Propagate!ContainsTarget, Propagate!W, PropRun, PropRuns, PropHeads, PropTargets, PropTrees, PropTree, PropBases, PropOwns, PropBases, PropOwns, Propagate!AtAWorktree
  <2>8. Propagate!HeadsGrow'
    BY <1>0, <2>a, <2>t DEF Propagate!HeadsGrow, Propagate!W, PropRun, PropRuns, PropHeads, PropTargets, PropTrees, PropTree, PropBases, PropOwns, PropBases, PropOwns, Propagate!AtAWorktree
  <2> QED
    BY <2>1, <2>2, <2>3, <2>4, <2>5, <2>6, <2>7, <2>8
<1>13. ASSUME NEW w \in Worktrees, Propagate!Discard(w)
      PROVE  Goal
  <2>a. UNCHANGED <<v1, v2, v4, v5, v6, v7, faults>>
    BY <1>13 DEF Propagate!Discard, Propagate!records
  <2>t. PropTrees' /\ \A x \in Worktrees : v3'[x].base >= v3[x].base /\ v3'[x].own >= v3[x].own
    <3>1. v3[w] \in PropTree /\ v2 \in 1 .. MaxMain
      BY <1>0 DEF PropTrees, PropTypes
    <3> DEFINE t == [v3[w] EXCEPT !.dirty = FALSE]
    <3>4. t.base >= v3[w].base /\ t.own >= v3[w].own
      BY <1>0, <1>13, <3>1 DEF Propagate!Discard, PropTree, PropBases, PropOwns
    <3>5. v2 \in PropBases /\ (v3[w].own < MaxOwn => v3[w].own + 1 \in PropOwns) /\ TRUE \in PropBools /\ FALSE \in PropBools
      BY <1>0, <3>1 DEF PropTree, PropBases, PropOwns, PropBools
    <3>2. t \in PropTree /\ t.base >= v3[w].base /\ t.own >= v3[w].own
      BY <1>13, <3>1, <3>4, <3>5 DEF Propagate!Discard, PropTree
    <3>3. v3' = [v3 EXCEPT ![w] = t]
      BY <1>13 DEF Propagate!Discard
    <3> HIDE DEF t
    <3> QED
      BY <1>0, <3>1, <3>2, <3>3 DEF PropTrees, PropTree, PropBases, PropOwns, PropBases, PropOwns
  <2>1. PropRun'
    BY <1>0, <2>a, <2>t DEF PropRun
  <2>2. PropTypes'
    BY <1>0, <2>a, <2>t DEF PropTypes
  <2>3. PropTrees'
    BY <1>0, <2>a, <2>t DEF PropTrees
  <2>4. PropResults'
    BY <1>0, <2>a, <2>t DEF PropResults
  <2>5. Propagate!AtAWorktree'
    BY <1>0, <2>a, <2>t DEF Propagate!AtAWorktree
  <2>6. Propagate!TargetIsOnMain'
    BY <1>0, <2>a, <2>t DEF Propagate!TargetIsOnMain
  <2>7. Propagate!ContainsTarget'
    BY <1>0, <2>a, <2>t DEF Propagate!ContainsTarget, Propagate!W, PropRun, PropRuns, PropHeads, PropTargets, PropTrees, PropTree, PropBases, PropOwns, PropBases, PropOwns, Propagate!AtAWorktree
  <2>8. Propagate!HeadsGrow'
    BY <1>0, <2>a, <2>t DEF Propagate!HeadsGrow, Propagate!W, PropRun, PropRuns, PropHeads, PropTargets, PropTrees, PropTree, PropBases, PropOwns, PropBases, PropOwns, Propagate!AtAWorktree
  <2> QED
    BY <2>1, <2>2, <2>3, <2>4, <2>5, <2>6, <2>7, <2>8
<1>14. ASSUME NEW w \in Worktrees, Propagate!Commit(w)
      PROVE  Goal
  <2>a. UNCHANGED <<v1, v2, v4, v5, v6, v7, faults>>
    BY <1>14 DEF Propagate!Commit, Propagate!records
  <2>t. PropTrees' /\ \A x \in Worktrees : v3'[x].base >= v3[x].base /\ v3'[x].own >= v3[x].own
    <3>1. v3[w] \in PropTree /\ v2 \in 1 .. MaxMain
      BY <1>0 DEF PropTrees, PropTypes
    <3> DEFINE t == [v3[w] EXCEPT !.dirty = FALSE, !.own = @ + 1]
    <3>4. t.base >= v3[w].base /\ t.own >= v3[w].own
      BY <1>0, <1>14, <3>1 DEF Propagate!Commit, PropTree, PropBases, PropOwns
    <3>5. v2 \in PropBases /\ (v3[w].own < MaxOwn => v3[w].own + 1 \in PropOwns) /\ TRUE \in PropBools /\ FALSE \in PropBools
      BY <1>0, <3>1 DEF PropTree, PropBases, PropOwns, PropBools
    <3>2. t \in PropTree /\ t.base >= v3[w].base /\ t.own >= v3[w].own
      BY <1>14, <3>1, <3>4, <3>5 DEF Propagate!Commit, PropTree
    <3>3. v3' = [v3 EXCEPT ![w] = t]
      BY <1>14 DEF Propagate!Commit
    <3> HIDE DEF t
    <3> QED
      BY <1>0, <3>1, <3>2, <3>3 DEF PropTrees, PropTree, PropBases, PropOwns, PropBases, PropOwns
  <2>1. PropRun'
    BY <1>0, <2>a, <2>t DEF PropRun
  <2>2. PropTypes'
    BY <1>0, <2>a, <2>t DEF PropTypes
  <2>3. PropTrees'
    BY <1>0, <2>a, <2>t DEF PropTrees
  <2>4. PropResults'
    BY <1>0, <2>a, <2>t DEF PropResults
  <2>5. Propagate!AtAWorktree'
    BY <1>0, <2>a, <2>t DEF Propagate!AtAWorktree
  <2>6. Propagate!TargetIsOnMain'
    BY <1>0, <2>a, <2>t DEF Propagate!TargetIsOnMain
  <2>7. Propagate!ContainsTarget'
    BY <1>0, <2>a, <2>t DEF Propagate!ContainsTarget, Propagate!W, PropRun, PropRuns, PropHeads, PropTargets, PropTrees, PropTree, PropBases, PropOwns, PropBases, PropOwns, Propagate!AtAWorktree
  <2>8. Propagate!HeadsGrow'
    BY <1>0, <2>a, <2>t DEF Propagate!HeadsGrow, Propagate!W, PropRun, PropRuns, PropHeads, PropTargets, PropTrees, PropTree, PropBases, PropOwns, PropBases, PropOwns, Propagate!AtAWorktree
  <2> QED
    BY <2>1, <2>2, <2>3, <2>4, <2>5, <2>6, <2>7, <2>8
<1>15. ASSUME NEW w \in Worktrees, Propagate!SessionRebases(w)
      PROVE  Goal
  <2>a. UNCHANGED <<v1, v2, v4, v5, v6, v7, faults>>
    BY <1>15 DEF Propagate!SessionRebases, Propagate!records
  <2>t. PropTrees' /\ \A x \in Worktrees : v3'[x].base >= v3[x].base /\ v3'[x].own >= v3[x].own
    <3>1. v3[w] \in PropTree /\ v2 \in 1 .. MaxMain
      BY <1>0 DEF PropTrees, PropTypes
    <3> DEFINE t == [v3[w] EXCEPT !.base = v2]
    <3>4. t.base >= v3[w].base /\ t.own >= v3[w].own
      BY <1>0, <1>15, <3>1 DEF Propagate!SessionRebases, PropTree, PropBases, PropOwns
    <3>5. v2 \in PropBases /\ (v3[w].own < MaxOwn => v3[w].own + 1 \in PropOwns) /\ TRUE \in PropBools /\ FALSE \in PropBools
      BY <1>0, <3>1 DEF PropTree, PropBases, PropOwns, PropBools
    <3>2. t \in PropTree /\ t.base >= v3[w].base /\ t.own >= v3[w].own
      BY <1>15, <3>1, <3>4, <3>5 DEF Propagate!SessionRebases, PropTree
    <3>3. v3' = [v3 EXCEPT ![w] = t]
      BY <1>15 DEF Propagate!SessionRebases
    <3> HIDE DEF t
    <3> QED
      BY <1>0, <3>1, <3>2, <3>3 DEF PropTrees, PropTree, PropBases, PropOwns, PropBases, PropOwns
  <2>1. PropRun'
    BY <1>0, <2>a, <2>t DEF PropRun
  <2>2. PropTypes'
    BY <1>0, <2>a, <2>t DEF PropTypes
  <2>3. PropTrees'
    BY <1>0, <2>a, <2>t DEF PropTrees
  <2>4. PropResults'
    BY <1>0, <2>a, <2>t DEF PropResults
  <2>5. Propagate!AtAWorktree'
    BY <1>0, <2>a, <2>t DEF Propagate!AtAWorktree
  <2>6. Propagate!TargetIsOnMain'
    BY <1>0, <2>a, <2>t DEF Propagate!TargetIsOnMain
  <2>7. Propagate!ContainsTarget'
    BY <1>0, <2>a, <2>t DEF Propagate!ContainsTarget, Propagate!W, PropRun, PropRuns, PropHeads, PropTargets, PropTrees, PropTree, PropBases, PropOwns, PropBases, PropOwns, Propagate!AtAWorktree
  <2>8. Propagate!HeadsGrow'
    BY <1>0, <2>a, <2>t DEF Propagate!HeadsGrow, Propagate!W, PropRun, PropRuns, PropHeads, PropTargets, PropTrees, PropTree, PropBases, PropOwns, PropBases, PropOwns, Propagate!AtAWorktree
  <2> QED
    BY <2>1, <2>2, <2>3, <2>4, <2>5, <2>6, <2>7, <2>8
<1>16. ASSUME Propagate!MainGrows
      PROVE  Goal
  <2>1. PropRun'
    BY <1>0, <1>16 DEF Propagate!MainGrows, Propagate!records, PropRun
  <2>2. PropTypes'
    BY <1>0, <1>16 DEF Propagate!MainGrows, Propagate!records, PropTypes
  <2>3. PropTrees'
    BY <1>0, <1>16 DEF Propagate!MainGrows, Propagate!records, PropTrees
  <2>4. PropResults'
    BY <1>0, <1>16 DEF Propagate!MainGrows, Propagate!records, PropResults
  <2>5. Propagate!AtAWorktree'
    BY <1>0, <1>16 DEF Propagate!MainGrows, Propagate!records, Propagate!AtAWorktree
  <2>6. Propagate!TargetIsOnMain'
    BY <1>0, <1>16 DEF Propagate!MainGrows, Propagate!records, Propagate!TargetIsOnMain
  <2>7. Propagate!ContainsTarget'
    BY <1>0, <1>16 DEF Propagate!MainGrows, Propagate!records, Propagate!ContainsTarget, Propagate!W
  <2>8. Propagate!HeadsGrow'
    BY <1>0, <1>16 DEF Propagate!MainGrows, Propagate!records, Propagate!HeadsGrow, Propagate!W
  <2> QED
    BY <2>1, <2>2, <2>3, <2>4, <2>5, <2>6, <2>7, <2>8
<1>18. (PropRun /\ PropTypes /\ PropTrees /\ PropResults)' => Propagate!TypeOK'
  BY PropagateTyped, PTL
<1>19. ASSUME Propagate!NextWorktree PROVE Goal
  <2>1. v4.pc = "next" /\ UNCHANGED <<v1, v2, v3, v5, v6, v7, faults>>
    BY <1>19 DEF Propagate!NextWorktree, Propagate!clone, Propagate!records
  <2>2. v4' = [v4 EXCEPT !.pc = "report"] \/ \E w \in v4.todo : v4' = [v4 EXCEPT !.pc = "status", !.at = w, !.todo = @ \ {w}]
    BY <1>19 DEF Propagate!NextWorktree, Propagate!Go
  <2> QED
    BY <1>2, <2>1, <2>2
<1> HIDE DEF Goal
<1>20. Goal
  BY <1>1, <1>3, <1>4, <1>5, <1>6, <1>7, <1>8, <1>9, <1>10, <1>11, <1>12, <1>13, <1>14, <1>15, <1>16, <1>19 DEF Propagate!Next
<1> QED
  BY <1>18, <1>20 DEF Goal, Propagate!IInv

LEMMA PropagateRests == Propagate!IInv /\ UNCHANGED Propagate!vars => Propagate!IInv'
<1> SUFFICES ASSUME Propagate!IInv, UNCHANGED Propagate!vars PROVE Propagate!IInv'
  OBVIOUS
<1>0. UNCHANGED <<v1, v2, v3, v4, v5, v6, v7, faults>> /\ Propagate!IInv
  BY DEF Propagate!vars
<1>1. Propagate!TypeOK'
  BY <1>0 DEF Propagate!IInv, Propagate!TypeOK
<1>2. Propagate!AtAWorktree'
  BY <1>0 DEF Propagate!IInv, Propagate!AtAWorktree
<1>3. Propagate!TargetIsOnMain'
  BY <1>0 DEF Propagate!IInv, Propagate!TargetIsOnMain
<1>4. Propagate!ContainsTarget'
  BY <1>0 DEF Propagate!IInv, Propagate!ContainsTarget, Propagate!W
<1>5. Propagate!HeadsGrow'
  BY <1>0 DEF Propagate!IInv, Propagate!HeadsGrow, Propagate!W
<1> QED
  BY <1>1, <1>2, <1>3, <1>4, <1>5 DEF Propagate!IInv

LEMMA PropagateHolds == Spec => [](part = "propagate" => Propagate!IInv)
<1> DEFINE Kept == part = "propagate" => Propagate!IInv
<1>1. Init => Kept
  BY PropagateStarts DEF Init
<1>2. Kept /\ [Next]_vars => Kept'
  BY PropagateNext, PropagateRests DEF Next, vars, Propagate!vars
<1> QED
  BY <1>1, <1>2, PTL DEF Spec

\* A worktree is reported green when it is clean, at the head CI ran on, and
\* contains the candidate, for any number of worktrees, commits and sessions at
\* work (internal/cli/release_propagate.go).
THEOREM GreenIsAlwaysOfTheHead == Spec => GreenIsOfTheHead
<1>1. Propagate!IInv /\ [Next]_vars => (part = "propagate" => Propagate!GreenIsOfTheHead)
  <2> SUFFICES ASSUME Propagate!IInv, [Next]_vars, part = "propagate", NEW w \in Worktrees,
                      v5[w] # "green", v5'[w] = "green"
               PROVE  /\ ~v3[w].dirty /\ Propagate!Head(v3[w]) = v4.ranOn
                      /\ v4.target \in 1 .. v3[w].base
    BY DEF Propagate!GreenIsOfTheHead
  <2>0. /\ PropRun /\ PropTypes /\ PropTrees /\ PropResults /\ Propagate!AtAWorktree /\ Propagate!TargetIsOnMain
        /\ Propagate!ContainsTarget /\ Propagate!HeadsGrow
    BY PropagateTyped DEF Propagate!IInv
  <2>1. Propagate!Next
    BY DEF Next, vars
  <2>2. Propagate!CheckAfter
    BY <2>0, <2>1 DEF Propagate!Next, Propagate!Start, Propagate!NextWorktree, Propagate!Status, Propagate!Fetch,
       Propagate!Resolve, Propagate!Rebase, Propagate!CheckBase, Propagate!ReadHead, Propagate!RunCI, Propagate!WriteReport,
       Propagate!Edit, Propagate!Discard, Propagate!Commit, Propagate!SessionRebases, Propagate!MainGrows,
       Propagate!Blocked, Propagate!Continue, Propagate!records, PropResults
  <2>3. /\ v4.pc = "after" /\ v4.at = w /\ Propagate!Head(v3[w]) = v4.tested /\ ~v3[w].dirty
    BY <2>0, <2>2 DEF Propagate!CheckAfter, Propagate!Blocked, Propagate!W, PropResults
  <2>4. v4.tested \in PropHeads /\ v4.ranOn \in PropHeads /\ v3[w] \in PropTree
    BY <2>0 DEF PropRun, PropRuns, PropTrees
  <2>5. v4.ranOn[1] = v3[w].base /\ v4.ranOn[2] = v3[w].own
    BY <2>0, <2>3, <2>4, ConstantsAssumption DEF Propagate!HeadsGrow, Propagate!W, Propagate!Head, PropHeads, PropTree, PropBases, PropOwns,
       Propagate!BoundsAssumption
  <2>6. Propagate!Head(v3[w]) = v4.ranOn
    BY <2>4, <2>5 DEF Propagate!Head, PropHeads
  <2>7. v4.target \in 1 .. v3[w].base
    BY <2>0, <2>3, <2>4, ConstantsAssumption DEF Propagate!TargetIsOnMain, Propagate!ContainsTarget, Propagate!W, PropRun,
       PropRuns, PropTargets, PropTree, PropBases, PropOwns, Propagate!BoundsAssumption
  <2> QED
    BY <2>3, <2>6, <2>7
<1>2. Spec => [][part = "propagate" => Propagate!GreenIsOfTheHead]_vars
  BY <1>1, PropagateHolds, PTL DEF Spec
<1> QED
  BY <1>2 DEF GreenIsOfTheHead

-----------------------------------------------------------------------------
(* Versions and tags: the ladder.                                          *)

TagPcs == {"idle", "exists", "guard", "prompt", "create", "push"}
TagKinds == {"other", "feat", "breaking"}
TagRuns == [pc : TagPcs, next : Tag!Version]
TagMain == v1 \in Seq(TagKinds) /\ Len(v1) \in 1 .. MaxCommits
TagHeads == v2 \in [Clones -> Tag!Commit]
TagTags == v4 \subseteq Tag!Tag /\ v3 \in [Clones -> SUBSET Tag!Tag]
TagHands == v5 \in [Clones -> TagRuns]
TagBound == v6 \in 0 .. MaxFaults

LEMMA TagTyped == Tag!TypeOK <=> TagMain /\ TagHeads /\ TagTags /\ TagHands /\ TagBound
BY DEF Tag!TypeOK, TagMain, TagHeads, TagTags, TagHands, TagBound, TagRuns, TagPcs, TagKinds

LEMMA TagConstants ==
    MaxCommits \in Nat \ {0} /\ FewCommits \in 0 .. MaxCommits /\ MaxFaults \in Nat /\ Explicit \subseteq Tag!Version
BY ConstantsAssumption DEF Tag!CommitsAssumption, Tag!Version

LEMMA TagFields ==
    ASSUME NEW t \in Tag!Tag
    PROVE  t.version \in Tag!Version /\ t.on \in Tag!Commit /\ t.on.at \in Nat /\ t.on.at >= 1 /\ t.on.at <= MaxCommits
BY TagConstants DEF Tag!Tag, Tag!Commit

LEMMA BumpIs ==
    ASSUME NEW v \in Tag!Version, NEW S, NEW w, w = Tag!Bumped(v, Tag!LargestKind(S))
    PROVE  /\ w \in Tag!Version
           /\ "breaking" \in S => w.major = v.major + 1 /\ w.minor = 0 /\ w.patch = 0
           /\ "breaking" \notin S /\ "feat" \in S => w.major = v.major /\ w.minor = v.minor + 1 /\ w.patch = 0
           /\ "breaking" \notin S /\ "feat" \notin S => w.major = v.major /\ w.minor = v.minor /\ w.patch = v.patch + 1
<1>1. CASE "breaking" \in S
  <2>1. w = [major |-> v.major + 1, minor |-> 0, patch |-> 0]
    BY <1>1 DEF Tag!Bumped, Tag!LargestKind
  <2>2. v.major + 1 \in Nat
    BY DEF Tag!Version
  <2> QED
    BY <1>1, <2>1, <2>2 DEF Tag!Version
<1>2. CASE "breaking" \notin S /\ "feat" \in S
  <2>1. w = [v EXCEPT !.minor = v.minor + 1, !.patch = 0]
    BY <1>2 DEF Tag!Bumped, Tag!LargestKind, Tag!Version
  <2>2. \A x \in Nat : LET r == [v EXCEPT !.minor = x, !.patch = 0] IN
            r \in Tag!Version /\ r.major = v.major /\ r.minor = x /\ r.patch = 0
    BY DEF Tag!Version
  <2>3. v.minor + 1 \in Nat
    BY DEF Tag!Version
  <2> QED
    BY <1>2, <2>1, <2>2, <2>3
<1>3. CASE "breaking" \notin S /\ "feat" \notin S
  <2>1. w = [v EXCEPT !.patch = v.patch + 1]
    BY <1>3 DEF Tag!Bumped, Tag!LargestKind, Tag!Version
  <2> QED
    BY <1>3, <2>1 DEF Tag!Version
<1> QED
  BY <1>1, <1>2, <1>3

LEMMA BumpsDiffer ==
    ASSUME NEW S, NEW T, S \subseteq T, Tag!LargestKind(S) # Tag!LargestKind(T)
    PROVE  \/ "breaking" \in T /\ "breaking" \notin S
           \/ "breaking" \notin T /\ "feat" \in T /\ "feat" \notin S
BY DEF Tag!LargestKind

LEMMA SameVersion ==
    ASSUME NEW v \in Tag!Version, NEW w \in Tag!Version, v.major = w.major, v.minor = w.minor, v.patch = w.patch
    PROVE  v = w
BY DEF Tag!Version

LEMMA VersionFields ==
    ASSUME NEW v \in Tag!Version
    PROVE  v.major \in Nat /\ v.minor \in Nat /\ v.patch \in Nat
BY DEF Tag!Version

\* A bump follows what it is a bump of.
LEMMA BumpFollows ==
    ASSUME NEW v \in Tag!Version, NEW S
    PROVE  Tag!Follows(v, Tag!Bumped(v, Tag!LargestKind(S)), S)
<1> DEFINE w == Tag!Bumped(v, Tag!LargestKind(S))
<1>1. w \in Tag!Version /\ w = Tag!Bumped(v, Tag!LargestKind(S))
  BY BumpIs
<1> HIDE DEF w
<1> QED
  BY <1>1, BumpIs, VersionFields DEF Tag!Follows

LEMMA FollowsOn ==
    ASSUME NEW v \in Tag!Version, NEW w \in Tag!Version, NEW x \in Tag!Version, NEW S, NEW T,
           Tag!Follows(v, w, S), Tag!Follows(w, x, T)
    PROVE  Tag!Follows(v, x, S \cup T)
BY VersionFields DEF Tag!Follows

LEMMA FollowsIsLess ==
    ASSUME NEW v \in Tag!Version, NEW w \in Tag!Version, NEW S, Tag!Follows(v, w, S)
    PROVE  Tag!Less(v, w) /\ v # w
BY VersionFields DEF Tag!Follows, Tag!Less

\* Past commits that ask for less, the same version is still to come.
LEMMA SameBump ==
    ASSUME NEW v \in Tag!Version, NEW w \in Tag!Version, NEW S, NEW T, Tag!Follows(v, w, S),
           Tag!LargestKind(S) # Tag!LargestKind(S \cup T)
    PROVE  Tag!Bumped(w, Tag!LargestKind(T)) = Tag!Bumped(v, Tag!LargestKind(S \cup T))
<1> DEFINE x == Tag!Bumped(w, Tag!LargestKind(T))
           y == Tag!Bumped(v, Tag!LargestKind(S \cup T))
<1>1. x = Tag!Bumped(w, Tag!LargestKind(T)) /\ y = Tag!Bumped(v, Tag!LargestKind(S \cup T))
  OBVIOUS
<1> HIDE DEF x, y
<1>2. \/ "breaking" \in T /\ "breaking" \notin S
      \/ "breaking" \notin S /\ "breaking" \notin T /\ "feat" \in T /\ "feat" \notin S
  BY BumpsDiffer
<1>3. x \in Tag!Version /\ y \in Tag!Version
  BY <1>1, BumpIs
<1>4. x.major = y.major /\ x.minor = y.minor /\ x.patch = y.patch
  <2>1. CASE "breaking" \in T /\ "breaking" \notin S
    <3>1. v.major = w.major
      BY <2>1 DEF Tag!Follows
    <3>2. x.major = w.major + 1 /\ x.minor = 0 /\ x.patch = 0
      BY <1>1, <2>1, BumpIs
    <3>3. y.major = v.major + 1 /\ y.minor = 0 /\ y.patch = 0
      BY <1>1, <2>1, BumpIs
    <3> QED
      BY <3>1, <3>2, <3>3
  <2>2. CASE "breaking" \notin S /\ "breaking" \notin T /\ "feat" \in T /\ "feat" \notin S
    <3>1. v.major = w.major /\ v.minor = w.minor
      BY <2>2 DEF Tag!Follows
    <3>2. x.major = w.major /\ x.minor = w.minor + 1 /\ x.patch = 0
      BY <1>1, <2>2, BumpIs
    <3>3. y.major = v.major /\ y.minor = v.minor + 1 /\ y.patch = 0
      BY <1>1, <2>2, BumpIs, SMTT(30)
    <3> QED
      BY <3>1, <3>2, <3>3
  <2> QED
    BY <1>2, <2>1, <2>2
<1> QED
  BY <1>1, <1>3, <1>4, SameVersion

\* What comes later differs from what lies between by the rest of the commits.
LEMMA RestFollows ==
    ASSUME NEW v \in Tag!Version, NEW w \in Tag!Version, NEW x \in Tag!Version, NEW S, NEW T,
           Tag!Follows(v, w, S), Tag!Follows(v, x, S \cup T), Tag!LargestKind(S) # Tag!LargestKind(S \cup T)
    PROVE  Tag!Follows(w, x, T)
<1>1. \/ "breaking" \in T /\ "breaking" \notin S
      \/ "breaking" \notin S /\ "breaking" \notin T /\ "feat" \in T /\ "feat" \notin S
  BY BumpsDiffer
<1> QED
  BY <1>1, VersionFields DEF Tag!Follows

\* A version the first commits do not ask for is none of theirs.
LEMMA NotBefore ==
    ASSUME NEW v \in Tag!Version, NEW S, NEW T, NEW Q, Q \subseteq S, S \subseteq T,
           Tag!LargestKind(S) # Tag!LargestKind(T)
    PROVE  ~Tag!Follows(v, Tag!Bumped(v, Tag!LargestKind(T)), Q)
<1> DEFINE w == Tag!Bumped(v, Tag!LargestKind(T))
<1>1. w = Tag!Bumped(v, Tag!LargestKind(T))
  OBVIOUS
<1> HIDE DEF w
<1>2. \/ "breaking" \in T /\ "breaking" \notin Q
      \/ "breaking" \notin T /\ "breaking" \notin Q /\ "feat" \in T /\ "feat" \notin Q
  BY BumpsDiffer
<1> QED
  BY <1>1, <1>2, BumpIs, VersionFields DEF Tag!Follows

LEMMA BetweenJoins ==
    ASSUME NEW t \in Tag!Tag, NEW u \in Tag!Tag, NEW w \in Tag!Tag, t.on.at <= u.on.at, u.on.at <= w.on.at
    PROVE  Tag!Between(t, w) = Tag!Between(t, u) \cup Tag!Between(u, w)
<1>1. t.on.at \in Nat /\ u.on.at \in Nat /\ w.on.at \in Nat
  BY TagFields
<1>2. \A i : i \in t.on.at + 1 .. w.on.at <=> i \in t.on.at + 1 .. u.on.at \/ i \in u.on.at + 1 .. w.on.at
  BY <1>1
<1> QED
  BY <1>2 DEF Tag!Between

\* A tag whose version was computed from a published one and is not published
\* fits into the ladder, wherever its commit is.
LEMMA LadderGrows ==
    ASSUME Tag!Ladder, v4 \subseteq Tag!Tag, v1' = v1, NEW n \in Tag!Tag, v4' = v4 \cup {n}, NEW b \in v4,
           b.on.at < n.on.at, n.version = Tag!Bumped(b.version, Tag!LargestKind(Tag!Between(b, n))),
           \A t \in v4 : t.version # n.version
    PROVE  Tag!Ladder'
<1> DEFINE K(t, u) == Tag!LargestKind(Tag!Between(t, u))
           Rung(t, u, R) == \E w \in R : t.on.at < w.on.at /\ w.on.at <= u.on.at /\ w.version = Tag!Bumped(t.version, K(t, u))
           Fits(t, u, R) == Tag!Follows(t.version, u.version, Tag!Between(t, u)) /\ Rung(t, u, R)
<1>1. \A t \in v4 \cup {n} : t \in Tag!Tag /\ t.version \in Tag!Version /\ t.on.at \in Nat
  BY TagFields
<1>2. \A t, u \in v4 : (t.on.at = u.on.at => t = u) /\ (t.on.at < u.on.at => Fits(t, u, v4))
  BY DEF Tag!Ladder
<1>3. \A t, u, w \in v4 \cup {n} : t.on.at <= u.on.at /\ u.on.at <= w.on.at =>
          Tag!Between(t, w) = Tag!Between(t, u) \cup Tag!Between(u, w)
  BY <1>1, BetweenJoins
<1>4. \A t \in v4 : b.on.at < t.on.at /\ t.on.at <= n.on.at => K(b, t) # K(b, n)
  BY <1>2
<1>5. \A t \in v4 : t.on.at # n.on.at
  <2> SUFFICES ASSUME NEW t \in v4, t.on.at = n.on.at PROVE FALSE
    OBVIOUS
  <2>1. Tag!Between(b, t) = Tag!Between(b, n)
    BY DEF Tag!Between
  <2> QED
    BY <1>1, <1>4, <2>1
<1>6. Tag!Follows(b.version, n.version, Tag!Between(b, n))
  BY <1>1, BumpFollows
<1>7. ASSUME NEW t \in v4, t.on.at < n.on.at PROVE Fits(t, n, v4')
  <2>1. CASE t = b
    <3>1. n \in v4' /\ t.on.at < n.on.at /\ n.on.at <= n.on.at /\ n.version = Tag!Bumped(t.version, K(t, n))
      BY <1>1, <2>1
    <3> QED
      BY <1>6, <2>1, <3>1
  <2>2. CASE b.on.at < t.on.at
    <3>1. Tag!Follows(b.version, t.version, Tag!Between(b, t)) /\ K(b, t) # K(b, n)
      BY <1>1, <1>2, <1>4, <1>7, <2>2
    <3>2. Tag!Between(b, n) = Tag!Between(b, t) \cup Tag!Between(t, n)
      BY <1>1, <1>3, <1>7, <2>2
    <3>3. Tag!Bumped(t.version, K(t, n)) = n.version
      BY <1>1, <3>1, <3>2, SameBump
    <3>4. Tag!Follows(t.version, n.version, Tag!Between(t, n))
      BY <1>1, <3>3, BumpFollows
    <3>5. n \in v4' /\ t.on.at < n.on.at /\ n.on.at <= n.on.at
      BY <1>1, <1>7
    <3> QED
      BY <3>3, <3>4, <3>5
  <2>3. CASE t.on.at < b.on.at
    <3>1. Tag!Follows(t.version, b.version, Tag!Between(t, b)) /\ Rung(t, b, v4)
      BY <1>2, <2>3
    <3>2. Tag!Between(t, n) = Tag!Between(t, b) \cup Tag!Between(b, n)
      BY <1>1, <1>3, <2>3
    <3>3. Tag!Follows(t.version, n.version, Tag!Between(t, n))
      BY <1>1, <1>6, <3>1, <3>2, FollowsOn
    <3>4. CASE K(t, b) = K(t, n)
      <4>1. PICK w \in v4 : t.on.at < w.on.at /\ w.on.at <= b.on.at /\ w.version = Tag!Bumped(t.version, K(t, b))
        BY <3>1
      <4>2. w \in v4' /\ t.on.at < w.on.at /\ w.on.at <= n.on.at /\ w.version = Tag!Bumped(t.version, K(t, n))
        BY <1>1, <3>4, <4>1
      <4> QED
        BY <3>3, <4>2
    <3>5. CASE K(t, b) # K(t, n)
      <4>1. Tag!Bumped(b.version, K(b, n)) = Tag!Bumped(t.version, K(t, n))
        BY <1>1, <3>1, <3>2, <3>5, SameBump
      <4>2. n \in v4' /\ t.on.at < n.on.at /\ n.on.at <= n.on.at
        BY <1>1, <1>7
      <4> QED
        BY <3>3, <4>1, <4>2
    <3> QED
      BY <3>4, <3>5
  <2>4. t.on.at = b.on.at => t = b
    BY <1>2
  <2>5. t.on.at \in Nat /\ b.on.at \in Nat
    BY <1>1
  <2> HIDE DEF Fits
  <2> QED
    BY <2>1, <2>2, <2>3, <2>4, <2>5
<1>8. ASSUME NEW u \in v4, n.on.at < u.on.at PROVE Fits(n, u, v4')
  <2>1. b.on.at < u.on.at
    BY <1>1, <1>8
  <2>2. Tag!Follows(b.version, u.version, Tag!Between(b, u)) /\ Rung(b, u, v4)
    BY <1>2, <2>1
  <2>3. Tag!Between(b, u) = Tag!Between(b, n) \cup Tag!Between(n, u)
    BY <1>1, <1>3, <1>8
  <2>4. PICK w \in v4 : b.on.at < w.on.at /\ w.on.at <= u.on.at /\ w.version = Tag!Bumped(b.version, K(b, u))
    BY <2>2
  <2>5. K(b, n) # K(b, u)
    BY <2>4
  <2>6. Tag!Follows(n.version, u.version, Tag!Between(n, u))
    BY <1>1, <1>6, <2>2, <2>3, <2>5, RestFollows
  <2>7. Tag!Bumped(n.version, K(n, u)) = w.version
    BY <1>1, <1>6, <2>3, <2>4, <2>5, SameBump
  <2>8. n.on.at < w.on.at
    <3> SUFFICES ASSUME w.on.at < n.on.at PROVE FALSE
      BY <1>1, <1>5
    <3>1. Tag!Follows(b.version, w.version, Tag!Between(b, w))
      BY <1>2, <2>4
    <3>2. Tag!Between(b, n) = Tag!Between(b, w) \cup Tag!Between(w, n)
      BY <1>1, <1>3, <2>4
    <3>3. ~Tag!Follows(b.version, Tag!Bumped(b.version, K(b, u)), Tag!Between(b, w))
      BY <1>1, <2>3, <2>5, <3>2, NotBefore
    <3> QED
      BY <2>4, <3>1, <3>3
  <2> QED
    BY <2>4, <2>6, <2>7, <2>8
<1>9. \A t, u \in v4 : t.on.at < u.on.at => Fits(t, u, v4')
  BY <1>2
<1>10. \A t, u \in v4' : (t.on.at = u.on.at => t = u) /\ (t.on.at < u.on.at => Fits(t, u, v4'))
  <2> HIDE DEF Fits
  <2> SUFFICES ASSUME NEW t \in v4 \cup {n}, NEW u \in v4 \cup {n}
               PROVE  (t.on.at = u.on.at => t = u) /\ (t.on.at < u.on.at => Fits(t, u, v4'))
    OBVIOUS
  <2>1. CASE t \in v4 /\ u \in v4
    BY <1>2, <1>9, <2>1
  <2>2. CASE t = n /\ u \in v4
    BY <1>5, <1>8, <2>2
  <2>3. CASE t \in v4 /\ u = n
    BY <1>5, <1>7, <2>3
  <2>4. CASE t = n /\ u = n
    BY <1>1, <2>4
  <2> QED
    BY <2>1, <2>2, <2>3, <2>4
<1>11. \E t \in v4' : t.version = Tag!Seed
  BY DEF Tag!Ladder
<1>12. \A t, u \in v4' : Tag!Between(t, u)' = Tag!Between(t, u)
  BY DEF Tag!Between
<1> QED
  BY <1>10, <1>11, <1>12 DEF Tag!Ladder

LEMMA LadderRests == ASSUME Tag!Ladder, UNCHANGED <<v1, v4>> PROVE Tag!Ladder'
<1>1. \A t, u : Tag!Between(t, u)' = Tag!Between(t, u)
  BY DEF Tag!Between
<1> QED
  BY <1>1 DEF Tag!Ladder

LEMMA LessIsAnOrder ==
    /\ \A v, w \in Tag!Version : ~(Tag!Less(v, w) /\ Tag!Less(w, v))
    /\ \A v, w, x \in Tag!Version : Tag!Less(v, w) /\ Tag!Less(w, x) => Tag!Less(v, x)
BY VersionFields DEF Tag!Less

\* Of finitely many tags there is one with no other above it.
LEMMA HighestExists ==
    ASSUME NEW S \in SUBSET Tag!Tag, IsFiniteSet(S), S # {}
    PROVE  \E t \in S : \A u \in S \ {t} : ~Tag!Less(t.version, u.version)
<1> DEFINE Has(T) == \E t \in T : \A u \in T \ {t} : ~Tag!Less(t.version, u.version)
           Bad == {n \in Nat : \E T \in SUBSET S : T # {} /\ Cardinality(T) = n /\ ~Has(T)}
<1> SUFFICES ASSUME Bad # {} PROVE FALSE
  <2>1. Cardinality(S) \in Nat
    BY FS_CardinalityType
  <2> QED
    BY <2>1
<1>1. PICK m \in Bad : \A n \in Bad : m <= n
  <2>1. Bad \in SUBSET Nat /\ Bad # {}
    OBVIOUS
  <2> HIDE DEF Bad
  <2>2. PICK m \in Bad : \A n \in Bad : ~(<<n, m>> \in OpToRel(<, Nat))
    BY <2>1, NatLessThanWellFounded, WFMin
  <2>3. \A x, y \in Nat : x <= y \/ <<y, x>> \in OpToRel(<, Nat)
    BY DEF OpToRel
  <2> QED
    BY <2>1, <2>2, <2>3
<1>2. PICK T \in SUBSET S : T # {} /\ Cardinality(T) = m /\ ~Has(T)
  BY <1>1
<1>3. PICK x \in T : TRUE
  BY <1>2
<1>4. IsFiniteSet(T) /\ m \in Nat
  BY <1>1, FS_Subset
<1>5. IsFiniteSet(T \ {x}) /\ Cardinality(T \ {x}) = m - 1 /\ m - 1 \in Nat
  <2>1. IsFiniteSet(T \ {x}) /\ Cardinality(T \ {x}) = Cardinality(T) - 1
    BY <1>3, <1>4, FS_RemoveElement
  <2>2. Cardinality(T \ {x}) \in Nat
    BY <2>1, FS_CardinalityType
  <2> QED
    BY <1>2, <2>1, <2>2
<1>6. m - 1 \notin Bad
  BY <1>1, <1>4
<1>7. CASE T \ {x} = {}
  BY <1>2, <1>3, <1>7
<1>8. CASE T \ {x} # {}
  <2>1. Has(T \ {x})
    BY <1>5, <1>6, <1>8
  <2>2. PICK y \in T \ {x} : \A u \in (T \ {x}) \ {y} : ~Tag!Less(y.version, u.version)
    BY <2>1
  <2>3. \A u \in T : u.version \in Tag!Version
    BY TagFields
  <2>4. CASE Tag!Less(y.version, x.version)
    <3>1. \A u \in T \ {x} : ~Tag!Less(x.version, u.version)
      BY <1>3, <2>2, <2>3, <2>4, LessIsAnOrder
    <3> QED
      BY <1>2, <1>3, <3>1
  <2>5. CASE ~Tag!Less(y.version, x.version)
    <3>1. \A u \in T \ {y} : ~Tag!Less(y.version, u.version)
      BY <2>2, <2>5
    <3> QED
      BY <1>2, <2>2, <3>1
  <2> QED
    BY <2>4, <2>5
<1> QED
  BY <1>7, <1>8

LEMMA TagFinite == Tag!Finite <=> IsFiniteSet(v4) /\ \A c \in Clones : IsFiniteSet(v3[c])
BY DEF Tag!Finite, Tag!IsFiniteSet, IsFiniteSet

LEMMA LastIsMerged ==
    ASSUME TagTags, Tag!Finite, NEW c \in Clones, Tag!Merged(c) # {}
    PROVE  Tag!LastMatchingTag(c) \in Tag!Merged(c)
<1>1. Tag!Merged(c) \in SUBSET Tag!Tag /\ Tag!Merged(c) \subseteq v3[c]
  BY DEF TagTags, Tag!Merged
<1>2. IsFiniteSet(Tag!Merged(c))
  BY <1>1, TagFinite, FS_Subset
<1>3. \E t \in Tag!Merged(c) : \A u \in Tag!Merged(c) \ {t} : ~Tag!Less(t.version, u.version)
  BY <1>1, <1>2, HighestExists
<1> QED
  BY <1>3 DEF Tag!LastMatchingTag

LEMMA SeedIsAVersion == Tag!Seed \in Tag!Version /\ Tag!NoVersion \in Tag!Version
BY DEF Tag!Seed, Tag!NoVersion, Tag!Version

LEMMA NextIsAVersion ==
    ASSUME TagTags, Tag!Finite, NEW c \in Clones
    PROVE  Tag!NextVersion(c) \in Tag!Version
<1>1. CASE Tag!Merged(c) = {}
  BY <1>1, SeedIsAVersion DEF Tag!NextVersion, Tag!Seed
<1>2. CASE Tag!Merged(c) # {}
  <2>1. Tag!LastMatchingTag(c) \in Tag!Tag
    BY <1>2, LastIsMerged DEF Tag!Merged, TagTags
  <2>2. Tag!LastMatchingTag(c).version \in Tag!Version
    BY <2>1, TagFields
  <2> QED
    BY <1>2, <2>2, BumpIs DEF Tag!NextVersion
<1> QED
  BY <1>1, <1>2

\* A command goes on, with its version.
LEMMA TaggerGoes ==
    ASSUME TagHands, NEW c \in Clones, NEW pc \in TagPcs, Tag!Tagger(c, pc)
    PROVE  /\ TagHands' /\ v5'[c].pc = pc /\ v5'[c].next = v5[c].next
           /\ \A d \in Clones : d # c => v5'[d] = v5[d]
<1> DEFINE r == [v5[c] EXCEPT !.pc = pc]
<1>1. r \in TagRuns /\ r.pc = pc /\ r.next = v5[c].next
  BY DEF TagHands, TagRuns
<1>2. v5' = [v5 EXCEPT ![c] = r]
  BY DEF Tag!Tagger
<1> HIDE DEF r
<1> QED
  BY <1>1, <1>2 DEF TagHands

LEMMA TaggerStarts ==
    ASSUME TagHands, NEW c \in Clones, NEW v \in Tag!Version, v5' = [v5 EXCEPT ![c] = [pc |-> "exists", next |-> v]]
    PROVE  /\ TagHands' /\ v5'[c].pc = "exists" /\ v5'[c].next = v
           /\ \A d \in Clones : d # c => v5'[d] = v5[d]
<1>1. [pc |-> "exists", next |-> v] \in TagRuns
  BY DEF TagRuns, TagPcs
<1> QED
  BY <1>1 DEF TagHands

LEMMA TagStarts == ASSUME Tag!Init PROVE Tag!IInv
<1>1. TagMain
  <2>1. v1 \in {<<"other">>, <<"feat">>}
    BY DEF Tag!Init
  <2>2. \A k \in TagKinds : <<k>> \in Seq(TagKinds) /\ Len(<<k>>) = 1
    OBVIOUS
  <2>3. v1 \in Seq(TagKinds) /\ Len(v1) = 1
    BY <2>1, <2>2 DEF TagKinds
  <2> QED
    BY <2>3, TagConstants DEF TagMain
<1>2. TagHeads
  BY TagConstants DEF Tag!Init, TagHeads, Tag!Commit
<1>3. TagTags /\ Tag!Finite
  BY TagFinite, FS_EmptySet DEF Tag!Init, TagTags
<1>4. TagHands
  BY SeedIsAVersion DEF Tag!Init, TagHands, TagRuns, TagPcs
<1>5. TagBound
  BY TagConstants DEF Tag!Init, TagBound
<1>6. Tag!TypeOK
  BY <1>1, <1>2, <1>3, <1>4, <1>5, TagTyped
<1>7. v4 = {} /\ \A c \in Clones : v3[c] = {} /\ v5[c].pc = "idle" /\ v2[c].at = 1
  BY DEF Tag!Init
<1>8. Len(v1) >= 1
  BY <1>1 DEF TagMain
<1>9. Tag!Ladder
  BY <1>7 DEF Tag!Ladder
<1>10. Tag!OnMain
  <2>1. \A c \in Clones : v2[c].at <= Len(v1)
    BY <1>1, <1>7, <1>8 DEF TagMain
  <2> QED
    BY <1>7, <2>1 DEF Tag!OnMain
<1>11. Tag!KnownAreRemote /\ Tag!Created /\ Tag!Computed /\ Tag!Tagged
  BY <1>7 DEF Tag!KnownAreRemote, Tag!Created, Tag!Computed, Tag!Tagged
<1> QED
  BY <1>3, <1>6, <1>9, <1>10, <1>11 DEF Tag!IInv

\* What a version was computed from.
TagBase(c) ==
    \/ v5[c].next = Tag!Seed
    \/ \E b \in v4 : /\ Tag!Reaches(v2[c], b.on) /\ Tag!KindsSince(c, b) # {}
                     /\ v5[c].next = Tag!Bumped(b.version, Tag!LargestKind(Tag!KindsSince(c, b)))

LEMMA TagBaseStays ==
    ASSUME NEW c \in Clones, TagBase(c), v4 \subseteq v4', v2'[c] = v2[c], v5'[c].next = v5[c].next,
           v2[c].at \in Nat, TagTags, \A i \in 1 .. v2[c].at : v1'[i] = v1[i]
    PROVE  TagBase(c)'
<1>1. CASE v5[c].next = Tag!Seed
  BY <1>1 DEF TagBase
<1>2. CASE v5[c].next # Tag!Seed
  <2>1. PICK b \in v4 : /\ Tag!Reaches(v2[c], b.on) /\ Tag!KindsSince(c, b) # {}
                        /\ v5[c].next = Tag!Bumped(b.version, Tag!LargestKind(Tag!KindsSince(c, b)))
    BY <1>2 DEF TagBase
  <2>2. b.on.at \in Nat /\ b.on.at >= 1
    BY TagFields DEF TagTags
  <2>3. \A i \in b.on.at + 1 .. v2[c].at : v1'[i] = v1[i]
    BY <2>2
  <2>4. {v1'[i] : i \in b.on.at + 1 .. v2[c].at} = {v1[i] : i \in b.on.at + 1 .. v2[c].at}
    BY <2>3
  <2>5. Tag!KindsSince(c, b)' = Tag!KindsSince(c, b)
    BY <2>4 DEF Tag!KindsSince
  <2>6. Tag!Reaches(v2[c], b.on)' = Tag!Reaches(v2[c], b.on)
    BY DEF Tag!Reaches
  <2> QED
    BY <2>1, <2>5, <2>6 DEF TagBase
<1> QED
  BY <1>1, <1>2

LEMMA TagTypesNext ==
    ASSUME Tag!TypeOK, Tag!Finite, Tag!Tagged, Tag!Next
    PROVE  Tag!TypeOK' /\ Tag!Finite' /\ Tag!Tagged'
<1> DEFINE Sound == TagMain' /\ TagHeads' /\ TagTags' /\ TagHands' /\ TagBound' /\ Tag!Finite' /\ Tag!Tagged'
<1>0. TagMain /\ TagHeads /\ TagTags /\ TagHands /\ TagBound /\ Tag!Finite /\ Tag!Tagged
  BY TagTyped
<1>1. v6' = v6 \/ Tag!Irregular => TagBound'
  BY <1>0, TagConstants DEF TagBound, Tag!Irregular
<1>2. UNCHANGED v1 => TagMain'
  BY <1>0 DEF TagMain
<1>3. UNCHANGED v2 => TagHeads'
  BY <1>0 DEF TagHeads
<1>4. UNCHANGED <<v3, v4>> => TagTags' /\ Tag!Finite'
  BY <1>0, TagFinite DEF TagTags, Tag!Finite
<1>5. ASSUME NEW c \in Clones, UNCHANGED <<v1, v2, v3, v4>>, NEW pc \in TagPcs \ {"push"}, Tag!Tagger(c, pc),
             v6' = v6 \/ Tag!Irregular
      PROVE  Sound
  <2>1. TagHands' /\ v5'[c].pc = pc /\ \A d \in Clones : d # c => v5'[d] = v5[d]
    BY <1>0, <1>5, TaggerGoes
  <2>2. Tag!Tagged'
    BY <1>0, <1>5, <2>1 DEF Tag!Tagged
  <2> QED
    BY <1>1, <1>2, <1>3, <1>4, <1>5, <2>1, <2>2
<1>6. ASSUME NEW c \in Clones, Tag!ResolveVersion(c) PROVE Sound
  <2>1. UNCHANGED <<v1, v2, v3, v4>> /\ (v6' = v6 \/ Tag!Irregular)
    BY <1>6 DEF Tag!ResolveVersion, Tag!repository, Tag!Regular
  <2>2. PICK v \in Tag!Version : v5' = [v5 EXCEPT ![c] = [pc |-> "exists", next |-> v]]
    BY <1>0, <1>6, NextIsAVersion, TagConstants DEF Tag!ResolveVersion
  <2>3. TagHands' /\ v5'[c].pc = "exists" /\ \A d \in Clones : d # c => v5'[d] = v5[d]
    BY <1>0, <2>2, TaggerStarts
  <2>4. Tag!Tagged'
    BY <1>0, <2>1, <2>3 DEF Tag!Tagged
  <2> QED
    BY <1>1, <1>2, <1>3, <1>4, <2>1, <2>3, <2>4
<1>7. ASSUME NEW c \in Clones, Tag!TagExists(c) \/ Tag!VerifyHead(c) \/ Tag!Prompt(c) \/ Tag!Interrupt(c) PROVE Sound
  <2>1. UNCHANGED <<v1, v2, v3, v4>> /\ (v6' = v6 \/ Tag!Irregular)
    BY <1>7 DEF Tag!TagExists, Tag!VerifyHead, Tag!Prompt, Tag!Interrupt, Tag!repository, Tag!Regular
  <2>2. \E pc \in TagPcs \ {"push"} : Tag!Tagger(c, pc)
    BY <1>7 DEF Tag!TagExists, Tag!VerifyHead, Tag!Prompt, Tag!Interrupt, TagPcs
  <2> QED
    BY <1>5, <2>1, <2>2
<1>8. ASSUME NEW c \in Clones, Tag!CreateTag(c) PROVE Sound
  <2>1. UNCHANGED <<v1, v2, v4, v6>>
    BY <1>8 DEF Tag!CreateTag
  <2>2. CASE Tag!Tagger(c, "idle") /\ v3' = v3
    BY <1>5, <2>1, <2>2 DEF TagPcs
  <2>3. CASE Tag!Tagger(c, "push") /\ v3' = [v3 EXCEPT ![c] = @ \cup {[version |-> v5[c].next, on |-> v2[c]]}]
    <3> DEFINE n == [version |-> v5[c].next, on |-> v2[c]]
    <3>1. n \in Tag!Tag /\ n.version = v5[c].next
      BY <1>0 DEF TagHands, TagRuns, TagHeads, Tag!Tag
    <3> HIDE DEF n
    <3>2. v3' = [v3 EXCEPT ![c] = v3[c] \cup {n}]
      BY <2>3 DEF n
    <3>3. TagTags'
      BY <1>0, <2>1, <3>1, <3>2 DEF TagTags
    <3>4. v3'[c] = v3[c] \cup {n} /\ \A d \in Clones : d # c => v3'[d] = v3[d]
      BY <1>0, <3>2 DEF TagTags
    <3>5. \A d \in Clones : IsFiniteSet(v3'[d])
      BY <1>0, <3>4, TagFinite, FS_AddElement
    <3>6. Tag!Finite'
      BY <1>0, <2>1, <3>5, TagFinite DEF Tag!Finite, Tag!IsFiniteSet, IsFiniteSet
    <3>7. TagHands' /\ v5'[c].pc = "push" /\ v5'[c].next = v5[c].next /\ \A d \in Clones : d # c => v5'[d] = v5[d]
      BY <1>0, <2>3, TaggerGoes DEF TagPcs
    <3>8. Tag!Tagged'
      BY <1>0, <3>1, <3>4, <3>7 DEF Tag!Tagged
    <3> QED
      BY <1>1, <1>2, <1>3, <2>1, <3>3, <3>6, <3>7, <3>8
  <2> QED
    BY <1>8, <2>2, <2>3 DEF Tag!CreateTag
<1>9. ASSUME NEW c \in Clones, Tag!PushTag(c) PROVE Sound
  <2> DEFINE tag == CHOOSE t \in v3[c] : t.version = v5[c].next
  <2>1. UNCHANGED <<v1, v2, v3>> /\ (v6' = v6 \/ Tag!Irregular) /\ v5[c].pc = "push" /\ Tag!Tagger(c, "idle")
    BY <1>9 DEF Tag!PushTag, Tag!Regular
  <2>2. tag \in v3[c]
    BY <1>0, <2>1 DEF Tag!Tagged
  <2>3. v4' = v4 \/ v4' = v4 \cup {tag}
    BY <1>9 DEF Tag!PushTag
  <2> HIDE DEF tag
  <2>4. TagTags'
    BY <1>0, <2>1, <2>2, <2>3 DEF TagTags
  <2>5. IsFiniteSet(v4')
    BY <1>0, <2>3, TagFinite, FS_AddElement
  <2>6. Tag!Finite'
    BY <1>0, <2>1, <2>5, TagFinite DEF Tag!Finite, Tag!IsFiniteSet, IsFiniteSet
  <2>7. TagHands' /\ v5'[c].pc = "idle" /\ \A d \in Clones : d # c => v5'[d] = v5[d]
    BY <1>0, <2>1, TaggerGoes DEF TagPcs
  <2>8. Tag!Tagged'
    BY <1>0, <2>1, <2>7 DEF Tag!Tagged
  <2> QED
    BY <1>1, <1>2, <1>3, <2>1, <2>4, <2>6, <2>7, <2>8
<1>10. ASSUME NEW kind \in TagKinds, Tag!MergeToMain(kind) PROVE Sound
  <2>1. UNCHANGED <<v2, v3, v4, v5, v6>> /\ v1' = Append(v1, kind) /\ (Len(v1) < MaxCommits \/ Len(v1) < FewCommits)
    BY <1>10 DEF Tag!MergeToMain
  <2>2. Len(v1) < MaxCommits
    BY <1>0, <1>10, <2>1, TagConstants DEF Tag!MergeToMain
  <2>3. TagMain'
    BY <1>0, <2>1, <2>2, TagConstants DEF TagMain
  <2>4. TagHands' /\ Tag!Tagged'
    BY <1>0, <2>1 DEF TagHands, Tag!Tagged
  <2> QED
    BY <1>1, <1>3, <1>4, <2>1, <2>3, <2>4
<1>11. ASSUME NEW c \in Clones, Tag!Fetch(c) PROVE Sound
  <2> DEFINE more == {t \in v4 : \A u \in v3[c] : u.version # t.version}
  <2>1. UNCHANGED <<v1, v2, v4, v5, v6>> /\ v3' = [v3 EXCEPT ![c] = v3[c] \cup more]
    BY <1>0, <1>11 DEF Tag!Fetch, TagTags
  <2>2. more \subseteq v4
    OBVIOUS
  <2> HIDE DEF more
  <2>3. TagTags'
    BY <1>0, <2>1, <2>2 DEF TagTags
  <2>4. v3'[c] = v3[c] \cup more /\ \A d \in Clones : d # c => v3'[d] = v3[d]
    BY <1>0, <2>1 DEF TagTags
  <2>5. IsFiniteSet(v3[c] \cup more)
    BY <1>0, <2>2, TagFinite, FS_Union, FS_Subset
  <2>6. \A d \in Clones : IsFiniteSet(v3'[d])
    BY <1>0, <2>4, <2>5, TagFinite
  <2>7. Tag!Finite'
    BY <1>0, <2>1, <2>6, TagFinite DEF Tag!Finite, Tag!IsFiniteSet, IsFiniteSet
  <2>8. TagHands' /\ Tag!Tagged'
    BY <1>0, <2>1, <2>4 DEF TagHands, Tag!Tagged
  <2> QED
    BY <1>1, <1>2, <1>3, <2>1, <2>3, <2>7, <2>8
<1>12. ASSUME NEW c \in Clones, Tag!MoveHead(c) PROVE Sound
  <2>1. UNCHANGED <<v1, v3, v4, v5>> /\ (v6' = v6 \/ Tag!Irregular)
    BY <1>12 DEF Tag!MoveHead, Tag!Regular
  <2>2. TagHeads'
    <3> DEFINE h == [at |-> Len(v1), ahead |-> {}]
               k == [v2[c] EXCEPT !.ahead = {c}]
    <3>1. h \in Tag!Commit
      BY <1>0 DEF TagMain, Tag!Commit
    <3>2. k \in Tag!Commit
      BY <1>0 DEF TagHeads, Tag!Commit
    <3>3. v2' = [v2 EXCEPT ![c] = h] \/ v2' = [v2 EXCEPT ![c] = k]
      BY <1>12 DEF Tag!MoveHead
    <3> HIDE DEF h, k
    <3> QED
      BY <1>0, <3>1, <3>2, <3>3 DEF TagHeads
  <2>3. TagHands' /\ Tag!Tagged'
    BY <1>0, <2>1 DEF TagHands, Tag!Tagged
  <2> QED
    BY <1>1, <1>2, <1>4, <2>1, <2>2, <2>3
<1>13. (TagMain /\ TagHeads /\ TagTags /\ TagHands /\ TagBound)' => Tag!TypeOK'
  BY TagTyped, PTL
<1> HIDE DEF Sound
<1>14. Sound
  BY <1>6, <1>7, <1>8, <1>9, <1>10, <1>11, <1>12 DEF Tag!Next, TagKinds
<1> QED
  BY <1>13, <1>14 DEF Sound

LEMMA TagNext ==
    ASSUME Tag!IInv, Tag!Next
    PROVE  Tag!IInv'
<1>0. Tag!TypeOK' /\ Tag!Finite' /\ Tag!Tagged'
  BY TagTypesNext DEF Tag!IInv
<1> SUFFICES ASSUME v6' = 0 PROVE (Tag!Ladder /\ Tag!OnMain /\ Tag!KnownAreRemote /\ Tag!Created /\ Tag!Computed)'
  BY <1>0 DEF Tag!IInv
<1>1. TagMain /\ TagHeads /\ TagTags /\ TagHands /\ TagBound /\ Tag!Finite
  BY TagTyped DEF Tag!IInv
<1>2. TagMain' /\ TagHeads' /\ TagTags' /\ TagHands' /\ TagBound'
  <2>1. Tag!TypeOK' => (TagMain /\ TagHeads /\ TagTags /\ TagHands /\ TagBound)'
    BY TagTyped, PTL
  <2> QED
    BY <1>0, <2>1
<1>3. ~Tag!Irregular
  BY <1>1 DEF Tag!Irregular, TagBound
<1>4. \A c \in Clones :
          Tag!ResolveVersion(c) \/ Tag!TagExists(c) \/ Tag!VerifyHead(c) \/ Tag!Prompt(c) \/ Tag!CreateTag(c)
          \/ Tag!PushTag(c) \/ Tag!Interrupt(c) \/ Tag!Fetch(c) \/ Tag!MoveHead(c) => v6' = v6
  <2> TAKE c \in Clones
  <2>1. Tag!ResolveVersion(c) \/ Tag!PushTag(c) \/ Tag!Interrupt(c) \/ Tag!MoveHead(c) => v6' = v6
    BY <1>3 DEF Tag!ResolveVersion, Tag!PushTag, Tag!Interrupt, Tag!MoveHead, Tag!Regular
  <2>2. Tag!TagExists(c) \/ Tag!VerifyHead(c) \/ Tag!Prompt(c) \/ Tag!CreateTag(c) \/ Tag!Fetch(c) => v6' = v6
    BY DEF Tag!TagExists, Tag!VerifyHead, Tag!Prompt, Tag!CreateTag, Tag!Fetch
  <2> QED
    BY <2>1, <2>2
<1>5. v6 = 0
  <2>1. \A kind \in TagKinds : Tag!MergeToMain(kind) => v6' = v6
    BY DEF Tag!MergeToMain
  <2> QED
    BY <1>4, <2>1 DEF Tag!Next, TagKinds
<1>6. Tag!Ladder /\ Tag!OnMain /\ Tag!KnownAreRemote /\ Tag!Created /\ Tag!Computed
  BY <1>5 DEF Tag!IInv
<1>7. \A c \in Clones : v5[c].pc # "idle" => TagBase(c)
  BY <1>6 DEF Tag!Computed, TagBase
<1>8. (\A c \in Clones : v5[c].pc # "idle" => TagBase(c))' => Tag!Computed'
  BY DEF Tag!Computed, TagBase
<1>9. \A c \in Clones : v2[c] \in Tag!Commit /\ v2[c].at \in Nat
  BY <1>1, TagConstants DEF TagHeads, Tag!Commit
<1> DEFINE Goal == (Tag!Ladder /\ Tag!OnMain /\ Tag!KnownAreRemote /\ Tag!Created /\ Tag!Computed)'
<1>10. UNCHANGED <<v1, v4>> => Tag!Ladder'
  BY <1>6, LadderRests
<1>11. UNCHANGED <<v1, v2, v4>> => Tag!OnMain'
  BY <1>6 DEF Tag!OnMain
\* The version of a command stays as it was computed.
<1>12. ASSUME NEW c \in Clones, v5[c].pc # "idle", v4 \subseteq v4', v1' = v1, v2'[c] = v2[c], v5'[c].next = v5[c].next
      PROVE  TagBase(c)'
  BY <1>1, <1>7, <1>9, <1>12, TagBaseStays
\* A command goes on that does not tag: to an end, or to a question more.
<1>13. ASSUME NEW c \in Clones, UNCHANGED <<v1, v2, v3, v4>>, NEW pc \in TagPcs \ {"push"}, Tag!Tagger(c, pc),
              v5[c].pc \notin {"idle", "push"}, pc \in {"prompt", "create"} => v2[c].ahead = {}
      PROVE  Goal
  <2>1. v5'[c].pc = pc /\ v5'[c].next = v5[c].next /\ \A d \in Clones : d # c => v5'[d] = v5[d]
    BY <1>1, <1>13, TaggerGoes
  <2>2. Tag!KnownAreRemote'
    <3>1. \A d \in Clones : d # c => v3'[d] \subseteq v4' \cup
             (IF v5'[d].pc = "push" THEN {[version |-> v5'[d].next, on |-> v2'[d]]} ELSE {})
      BY <1>6, <1>13, <2>1 DEF Tag!KnownAreRemote
    <3>2. v3'[c] \subseteq v4'
      BY <1>6, <1>13 DEF Tag!KnownAreRemote
    <3> QED
      BY <3>1, <3>2 DEF Tag!KnownAreRemote
  <2>3. Tag!Created'
    BY <1>6, <1>13, <2>1 DEF Tag!Created
  <2>4. Tag!Computed'
    <3>1. ASSUME NEW d \in Clones, v5'[d].pc # "idle" PROVE TagBase(d)'
      <4>1. v5[d].pc # "idle" /\ v5'[d].next = v5[d].next
        BY <1>13, <2>1, <3>1
      <4> QED
        BY <1>12, <1>13, <4>1
    <3> QED
      BY <1>8, <3>1
  <2> QED
    BY <1>10, <1>11, <1>13, <2>2, <2>3, <2>4
<1>14. ASSUME NEW c \in Clones, Tag!ResolveVersion(c) PROVE Goal
  <2>1. /\ UNCHANGED <<v1, v2, v3, v4>> /\ v5[c].pc = "idle"
        /\ (IF Tag!Merged(c) = {} THEN TRUE ELSE Tag!KindsSince(c, Tag!LastMatchingTag(c)) # {})
        /\ v5' = [v5 EXCEPT ![c] = [pc |-> "exists", next |-> Tag!NextVersion(c)]]
    BY <1>3, <1>14 DEF Tag!ResolveVersion, Tag!repository
  <2>2. v5'[c].pc = "exists" /\ v5'[c].next = Tag!NextVersion(c) /\ \A d \in Clones : d # c => v5'[d] = v5[d]
    BY <1>1, <2>1, NextIsAVersion, TaggerStarts
  <2>3. v3[c] \subseteq v4
    BY <1>6, <2>1 DEF Tag!KnownAreRemote
  <2>4. Tag!KnownAreRemote'
    <3>1. \A d \in Clones : d # c => v3'[d] \subseteq v4' \cup
             (IF v5'[d].pc = "push" THEN {[version |-> v5'[d].next, on |-> v2'[d]]} ELSE {})
      BY <1>6, <2>1, <2>2 DEF Tag!KnownAreRemote
    <3> QED
      BY <2>1, <2>3, <3>1 DEF Tag!KnownAreRemote
  <2>5. Tag!Created'
    BY <1>6, <2>1, <2>2 DEF Tag!Created
  <2>6. TagBase(c)'
    <3>1. CASE Tag!Merged(c) = {}
      BY <2>2, <3>1 DEF TagBase, Tag!NextVersion, Tag!Seed
    <3>2. CASE Tag!Merged(c) # {}
      <4> DEFINE b == Tag!LastMatchingTag(c)
      <4>1. b \in v4 /\ Tag!Reaches(v2[c], b.on)
        BY <1>1, <2>3, <3>2, LastIsMerged DEF Tag!Merged
      <4>2. Tag!KindsSince(c, b) # {}
        BY <2>1, <3>2
      <4>3. v5'[c].next = Tag!Bumped(b.version, Tag!LargestKind(Tag!KindsSince(c, b)))
        BY <2>2, <3>2 DEF Tag!NextVersion
      <4> HIDE DEF b
      <4>5. \A t : Tag!KindsSince(c, t)' = Tag!KindsSince(c, t) /\ Tag!Reaches(v2[c], t.on)' = Tag!Reaches(v2[c], t.on)
        BY <2>1 DEF Tag!KindsSince, Tag!Reaches
      <4> QED
        BY <2>1, <4>1, <4>2, <4>3, <4>5 DEF TagBase
    <3> QED
      BY <3>1, <3>2
  <2>7. Tag!Computed'
    <3>1. ASSUME NEW d \in Clones, v5'[d].pc # "idle", d # c PROVE TagBase(d)'
      <4>1. v5[d].pc # "idle" /\ v5'[d].next = v5[d].next
        BY <2>2, <3>1
      <4> QED
        BY <1>12, <2>1, <4>1
    <3> QED
      BY <1>8, <2>6, <3>1
  <2> QED
    BY <1>10, <1>11, <2>1, <2>4, <2>5, <2>7
<1>15. ASSUME NEW c \in Clones, Tag!TagExists(c) \/ Tag!VerifyHead(c) \/ Tag!Prompt(c) \/ Tag!Interrupt(c) PROVE Goal
  <2>1. UNCHANGED <<v1, v2, v3, v4>> /\ v5[c].pc \notin {"idle", "push"}
    BY <1>3, <1>15 DEF Tag!TagExists, Tag!VerifyHead, Tag!Prompt, Tag!Interrupt, Tag!repository
  <2>2. v5[c].pc = "prompt" => v2[c].ahead = {}
    BY <1>6 DEF Tag!Created
  <2>3. \E pc \in TagPcs \ {"push"} : Tag!Tagger(c, pc) /\ (pc \in {"prompt", "create"} => v2[c].ahead = {})
    <3>1. CASE Tag!TagExists(c)
      BY <3>1 DEF Tag!TagExists, TagPcs
    <3>2. CASE Tag!VerifyHead(c)
      <4>1. CASE v2[c] = [at |-> Len(v1), ahead |-> {}]
        BY <3>2, <4>1 DEF Tag!VerifyHead, TagPcs
      <4>2. CASE v2[c] # [at |-> Len(v1), ahead |-> {}]
        BY <3>2, <4>2 DEF Tag!VerifyHead, TagPcs
      <4> QED
        BY <4>1, <4>2
    <3>3. CASE Tag!Prompt(c)
      BY <2>2, <3>3 DEF Tag!Prompt, TagPcs
    <3>4. CASE Tag!Interrupt(c)
      BY <3>4 DEF Tag!Interrupt, TagPcs
    <3> QED
      BY <1>15, <3>1, <3>2, <3>3, <3>4
  <2> QED
    BY <1>13, <2>1, <2>3
<1>16. ASSUME NEW c \in Clones, Tag!CreateTag(c) PROVE Goal
  <2>1. UNCHANGED <<v1, v2, v4, v6>> /\ v5[c].pc = "create"
    BY <1>16 DEF Tag!CreateTag
  <2>2. CASE Tag!Tagger(c, "idle") /\ v3' = v3
    BY <1>13, <2>1, <2>2 DEF TagPcs
  <2>3. CASE Tag!Tagger(c, "push") /\ v3' = [v3 EXCEPT ![c] = @ \cup {[version |-> v5[c].next, on |-> v2[c]]}]
    <3> DEFINE n == [version |-> v5[c].next, on |-> v2[c]]
    <3>1. v3'[c] = v3[c] \cup {n} /\ \A d \in Clones : d # c => v3'[d] = v3[d]
      BY <1>1, <2>3 DEF TagTags
    <3>2. v5'[c].pc = "push" /\ v5'[c].next = v5[c].next /\ \A d \in Clones : d # c => v5'[d] = v5[d]
      BY <1>1, <2>3, TaggerGoes DEF TagPcs
    <3>3. v3[c] \subseteq v4
      BY <1>6, <2>1 DEF Tag!KnownAreRemote
    <3>4. [version |-> v5'[c].next, on |-> v2'[c]] = n
      BY <2>1, <3>2
    <3> HIDE DEF n
    <3>5. Tag!KnownAreRemote'
      <4>1. \A d \in Clones : d # c => v3'[d] \subseteq v4' \cup
               (IF v5'[d].pc = "push" THEN {[version |-> v5'[d].next, on |-> v2'[d]]} ELSE {})
        BY <1>6, <2>1, <3>1, <3>2 DEF Tag!KnownAreRemote
      <4>2. v3'[c] \subseteq v4' \cup {[version |-> v5'[c].next, on |-> v2'[c]]}
        BY <2>1, <3>1, <3>3, <3>4
      <4> QED
        BY <3>2, <4>1, <4>2 DEF Tag!KnownAreRemote
    <3>6. Tag!Created'
      <4>1. v2[c].ahead = {}
        BY <1>6, <2>1 DEF Tag!Created
      <4>2. \A d \in Clones : d # c => /\ v5'[d].pc \in {"prompt", "create", "push"} => v2'[d].ahead = {}
                                       /\ v5'[d].pc = "push" => [version |-> v5'[d].next, on |-> v2'[d]] \in v3'[d]
        BY <1>6, <2>1, <3>1, <3>2 DEF Tag!Created
      <4> QED
        BY <2>1, <3>1, <3>4, <4>1, <4>2 DEF Tag!Created
    <3>7. Tag!Computed'
      <4>1. ASSUME NEW d \in Clones, v5'[d].pc # "idle" PROVE TagBase(d)'
        <5>1. v5[d].pc # "idle" /\ v5'[d].next = v5[d].next
          BY <2>1, <3>2, <4>1
        <5> QED
          BY <1>12, <2>1, <5>1
      <4> QED
        BY <1>8, <4>1
    <3> QED
      BY <1>10, <1>11, <2>1, <3>5, <3>6, <3>7
  <2> QED
    BY <1>16, <2>2, <2>3 DEF Tag!CreateTag
<1>17. ASSUME NEW c \in Clones, Tag!PushTag(c) PROVE Goal
  <2> DEFINE n == [version |-> v5[c].next, on |-> v2[c]]
             tag == CHOOSE t \in v3[c] : t.version = v5[c].next
  <2>1. UNCHANGED <<v1, v2, v3>> /\ v5[c].pc = "push" /\ Tag!Tagger(c, "idle")
    BY <1>17 DEF Tag!PushTag
  <2>2. v4' = v4 \cup {tag} /\ \A t \in v4 : t.version # tag.version
    BY <1>3, <1>17 DEF Tag!PushTag
  <2>3. n \in v3[c] /\ v3[c] \subseteq v4 \cup {n} /\ n.version = v5[c].next /\ n.on = v2[c] /\ v2[c].ahead = {}
    BY <1>6, <2>1 DEF Tag!Created, Tag!KnownAreRemote
  <2> HIDE DEF n
  <2>4. tag \in v3[c] /\ tag.version = v5[c].next
    BY <2>3
  <2>5. tag = n
    BY <2>2, <2>3, <2>4
  <2> HIDE DEF tag
  <2>6. n \in Tag!Tag
    BY <1>1, <2>3 DEF TagTags
  <2>7. v5'[c].pc = "idle" /\ \A d \in Clones : d # c => v5'[d] = v5[d]
    BY <1>1, <2>1, TaggerGoes DEF TagPcs
  <2>8. Tag!Ladder'
    <3>1. TagBase(c)
      BY <1>7, <2>1
    <3>2. CASE v5[c].next = Tag!Seed
      <4>1. v4' = {n}
        BY <1>6, <2>2, <2>3, <2>5, <3>2 DEF Tag!Ladder
      <4>2. n.version = Tag!Seed
        BY <2>3, <3>2
      <4>3. n.on.at \in Nat
        BY <1>9, <2>3
      <4> QED
        BY <4>1, <4>2, <4>3 DEF Tag!Ladder
    <3>3. CASE v5[c].next # Tag!Seed
      <4>1. PICK b \in v4 : /\ Tag!Reaches(v2[c], b.on) /\ Tag!KindsSince(c, b) # {}
                            /\ v5[c].next = Tag!Bumped(b.version, Tag!LargestKind(Tag!KindsSince(c, b)))
        BY <3>1, <3>3 DEF TagBase
      <4>2. b.on.ahead = {} /\ b.on.at \in Nat
        BY <1>1, <1>6, TagFields DEF Tag!OnMain, TagTags
      <4>3. Tag!KindsSince(c, b) = Tag!Between(b, n)
        BY <2>3, <4>2 DEF Tag!KindsSince, Tag!Between
      <4>4. b.on.at < n.on.at
        <5>1. b.on.at <= v2[c].at
          BY <2>3, <4>1, <4>2 DEF Tag!Reaches
        <5>2. b.on.at # v2[c].at
          BY <1>9, <2>3, <4>1, <4>2, <4>3 DEF Tag!Between
        <5> QED
          BY <1>9, <2>3, <4>2, <5>1, <5>2
      <4>5. v4' = v4 \cup {n} /\ \A t \in v4 : t.version # n.version
        BY <2>2, <2>5
      <4>6. n.version = Tag!Bumped(b.version, Tag!LargestKind(Tag!Between(b, n)))
        BY <2>3, <4>1, <4>3
      <4> QED
        BY <1>1, <1>6, <2>1, <2>6, <4>4, <4>5, <4>6, LadderGrows DEF TagTags
    <3> QED
      BY <3>2, <3>3
  <2>9. Tag!OnMain'
    BY <1>6, <2>1, <2>2, <2>3, <2>5 DEF Tag!OnMain
  <2>10. Tag!KnownAreRemote'
    <3>1. \A d \in Clones : d # c => v3'[d] \subseteq v4' \cup
             (IF v5'[d].pc = "push" THEN {[version |-> v5'[d].next, on |-> v2'[d]]} ELSE {})
      BY <1>6, <2>1, <2>2, <2>7 DEF Tag!KnownAreRemote
    <3>2. v3'[c] \subseteq v4'
      BY <2>1, <2>2, <2>3, <2>5
    <3> QED
      BY <3>1, <3>2 DEF Tag!KnownAreRemote
  <2>11. Tag!Created'
    BY <1>6, <2>1, <2>7 DEF Tag!Created
  <2>12. Tag!Computed'
    <3>1. ASSUME NEW d \in Clones, v5'[d].pc # "idle" PROVE TagBase(d)'
      <4>1. v5[d].pc # "idle" /\ v5'[d].next = v5[d].next
        BY <2>7, <3>1
      <4> QED
        BY <1>12, <2>1, <2>2, <4>1
    <3> QED
      BY <1>8, <3>1
  <2> QED
    BY <2>8, <2>9, <2>10, <2>11, <2>12
<1>18. ASSUME NEW kind \in TagKinds, Tag!MergeToMain(kind) PROVE Goal
  <2>1. UNCHANGED <<v2, v3, v4, v5>> /\ v1' = Append(v1, kind)
    BY <1>18 DEF Tag!MergeToMain
  <2>2. Len(v1) \in Nat /\ Len(v1') = Len(v1) + 1 /\ \A i \in 1 .. Len(v1) : v1'[i] = v1[i]
    BY <1>1, <2>1 DEF TagMain
  <2>3. Tag!OnMain'
    <3>1. \A t \in v4 : t.on.ahead = {} /\ t.on.at \in Nat /\ t.on.at <= Len(v1)
      BY <1>1, <1>6, TagFields DEF Tag!OnMain, TagTags
    <3>2. \A c \in Clones : v2[c].at \in Nat /\ v2[c].at <= Len(v1)
      BY <1>6, <1>9 DEF Tag!OnMain
    <3>3. \A i \in Nat : i <= Len(v1) => i <= Len(v1')
      BY <2>2
    <3> QED
      BY <2>1, <3>1, <3>2, <3>3 DEF Tag!OnMain
  <2>4. ASSUME NEW t \in v4, NEW u \in v4 PROVE Tag!Between(t, u)' = Tag!Between(t, u)
    <3>1. t.on.at \in Nat /\ u.on.at \in Nat /\ u.on.at <= Len(v1)
      BY <1>1, <1>6, TagFields DEF Tag!OnMain, TagTags
    <3>2. \A i \in t.on.at + 1 .. u.on.at : v1'[i] = v1[i]
      BY <2>2, <3>1
    <3> QED
      BY <3>2 DEF Tag!Between
  <2>5. Tag!Ladder'
    BY <1>6, <2>1, <2>4 DEF Tag!Ladder
  <2>6. Tag!KnownAreRemote' /\ Tag!Created'
    BY <1>6, <2>1 DEF Tag!KnownAreRemote, Tag!Created
  <2>7. Tag!Computed'
    <3>1. ASSUME NEW c \in Clones, v5'[c].pc # "idle" PROVE TagBase(c)'
      <4>1. TagBase(c) /\ v4 \subseteq v4' /\ v2'[c] = v2[c] /\ v5'[c].next = v5[c].next /\ v2[c].at \in Nat
        BY <1>7, <1>9, <2>1, <3>1
      <4>2. v2[c].at <= Len(v1)
        BY <1>6 DEF Tag!OnMain
      <4>3. \A i \in 1 .. v2[c].at : v1'[i] = v1[i]
        BY <2>2, <4>1, <4>2
      <4> QED
        BY <1>1, <4>1, <4>3, TagBaseStays
    <3> QED
      BY <1>8, <3>1
  <2> QED
    BY <2>3, <2>5, <2>6, <2>7
<1>19. ASSUME NEW c \in Clones, Tag!Fetch(c) PROVE Goal
  <2>1. UNCHANGED <<v1, v2, v4, v5>> /\ v3' = [v3 EXCEPT ![c] = v3[c] \cup {t \in v4 : \A u \in v3[c] : u.version # t.version}]
    BY <1>1, <1>19 DEF Tag!Fetch, TagTags
  <2>2. \A d \in Clones : v3[d] \subseteq v3'[d] /\ v3'[d] \subseteq v3[d] \cup v4
    BY <1>1, <2>1 DEF TagTags
  <2>3. Tag!KnownAreRemote'
    BY <1>6, <2>1, <2>2 DEF Tag!KnownAreRemote
  <2>4. Tag!Created'
    BY <1>6, <2>1, <2>2 DEF Tag!Created
  <2>5. Tag!Computed'
    <3>1. \A d \in Clones : v5'[d].pc # "idle" => TagBase(d)'
      BY <1>12, <2>1
    <3> QED
      BY <1>8, <3>1
  <2> QED
    BY <1>10, <1>11, <2>1, <2>3, <2>4, <2>5
<1>20. ASSUME NEW c \in Clones, Tag!MoveHead(c) PROVE Goal
  <2>1. UNCHANGED <<v1, v3, v4, v5>> /\ v5[c].pc = "idle"
    BY <1>3, <1>20 DEF Tag!MoveHead
  <2>2. (\A d \in Clones : d # c => v2'[d] = v2[d]) /\ v2'[c].at <= Len(v1)
    <3> DEFINE h == [at |-> Len(v1), ahead |-> {}]
               k == [v2[c] EXCEPT !.ahead = {c}]
    <3>1. h.at <= Len(v1)
      BY <1>1 DEF TagMain
    <3>2. k.at <= Len(v1)
      BY <1>6, <1>9 DEF Tag!OnMain, Tag!Commit
    <3>3. v2' = [v2 EXCEPT ![c] = h] \/ v2' = [v2 EXCEPT ![c] = k]
      BY <1>20 DEF Tag!MoveHead
    <3> HIDE DEF h, k
    <3> QED
      BY <1>1, <3>1, <3>2, <3>3 DEF TagHeads
  <2>3. Tag!OnMain'
    BY <1>6, <2>1, <2>2 DEF Tag!OnMain
  <2>4. Tag!KnownAreRemote'
    BY <1>6, <2>1, <2>2 DEF Tag!KnownAreRemote
  <2>5. Tag!Created'
    BY <1>6, <2>1, <2>2 DEF Tag!Created
  <2>6. Tag!Computed'
    <3>1. ASSUME NEW d \in Clones, v5'[d].pc # "idle" PROVE TagBase(d)'
      <4>1. v5[d].pc # "idle" /\ v5'[d].next = v5[d].next /\ v2'[d] = v2[d]
        BY <2>1, <2>2, <3>1
      <4> QED
        BY <1>12, <2>1, <4>1
    <3> QED
      BY <1>8, <3>1
  <2> QED
    BY <1>10, <2>1, <2>3, <2>4, <2>5, <2>6
<1> HIDE DEF Goal
<1>21. Goal
  BY <1>14, <1>15, <1>16, <1>17, <1>18, <1>19, <1>20 DEF Tag!Next, TagKinds
<1> QED
  BY <1>21 DEF Goal

LEMMA TagRests == Tag!IInv /\ UNCHANGED Tag!vars => Tag!IInv'
<1> SUFFICES ASSUME Tag!IInv, UNCHANGED Tag!vars PROVE Tag!IInv'
  OBVIOUS
<1>0. UNCHANGED <<v1, v2, v3, v4, v5, v6>> /\ Tag!IInv
  BY DEF Tag!vars
<1>1. Tag!TypeOK'
  BY <1>0 DEF Tag!IInv, Tag!TypeOK
<1>2. Tag!Finite' /\ Tag!Tagged'
  BY <1>0 DEF Tag!IInv, Tag!Finite, Tag!Tagged
<1>3. Tag!Ladder => Tag!Ladder'
  BY <1>0, LadderRests
<1>4. Tag!OnMain /\ Tag!KnownAreRemote /\ Tag!Created => Tag!OnMain' /\ Tag!KnownAreRemote' /\ Tag!Created'
  BY <1>0 DEF Tag!OnMain, Tag!KnownAreRemote, Tag!Created
<1>5. Tag!Computed => Tag!Computed'
  <2>1. \A c, b : Tag!KindsSince(c, b)' = Tag!KindsSince(c, b) /\ Tag!Reaches(v2[c], b.on)' = Tag!Reaches(v2[c], b.on)
    BY <1>0 DEF Tag!Reaches, Tag!KindsSince
  <2> QED
    BY <1>0, <2>1 DEF Tag!Computed
<1> QED
  BY <1>0, <1>1, <1>2, <1>3, <1>4, <1>5 DEF Tag!IInv

LEMMA TagHolds == Spec => [](part = "tag" => Tag!IInv)
<1> DEFINE Kept == part = "tag" => Tag!IInv
<1>1. Init => Kept
  BY TagStarts DEF Init
<1>2. Kept /\ [Next]_vars => Kept'
  BY TagNext, TagRests DEF Next, vars, Tag!vars
<1> QED
  BY <1>1, <1>2, PTL DEF Spec

\* Published versions are on main and ordered as the commits they are of, by
\* what the commits between them ask for, for any number of clones and commits
\* and whatever tags the clones lack, as long as pushes succeed, versions are
\* computed and no HEAD moves under a command (internal/cli/release_tag.go).
THEOREM VersionsAlwaysFollowMain == Spec => []VersionsFollowMain
<1>1. (part = "tag" => Tag!IInv) => VersionsFollowMain
  <2> SUFFICES ASSUME Tag!IInv, v6 = 0 PROVE Tag!VersionsFollowMain
    BY DEF VersionsFollowMain, Tag!VersionsFollowMain
  <2>1. Tag!Ladder /\ Tag!OnMain
    BY DEF Tag!IInv
  <2>2. ASSUME NEW t \in v4, NEW u \in v4, t.on.at < u.on.at
        PROVE  /\ Tag!Less(t.version, u.version)
               /\ "breaking" \in Tag!Between(t, u) => t.version.major < u.version.major
               /\ "feat" \in Tag!Between(t, u) => Tag!Less([t.version EXCEPT !.patch = 0], [u.version EXCEPT !.patch = 0])
    <3>1. t.version \in Tag!Version /\ u.version \in Tag!Version
      BY TagTyped, TagFields DEF Tag!IInv, TagTags
    <3>2. Tag!Follows(t.version, u.version, Tag!Between(t, u))
      BY <2>1, <2>2 DEF Tag!Ladder
    <3>3. Tag!Less(t.version, u.version)
      BY <3>1, <3>2, FollowsIsLess
    <3>4. "breaking" \in Tag!Between(t, u) => t.version.major < u.version.major
      BY <3>2 DEF Tag!Follows
    <3>5. "feat" \in Tag!Between(t, u) =>
              t.version.major < u.version.major \/ (t.version.major = u.version.major /\ t.version.minor < u.version.minor)
      BY <3>2 DEF Tag!Follows
    <3>6. \A v \in Tag!Version : LET r == [v EXCEPT !.patch = 0] IN r.major = v.major /\ r.minor = v.minor
      BY DEF Tag!Version
    <3>7. "feat" \in Tag!Between(t, u) => Tag!Less([t.version EXCEPT !.patch = 0], [u.version EXCEPT !.patch = 0])
      BY <3>1, <3>5, <3>6 DEF Tag!Less
    <3> QED
      BY <3>3, <3>4, <3>7
  <2> QED
    BY <2>1, <2>2 DEF Tag!VersionsFollowMain, Tag!OnMain
<1> QED
  BY <1>1, TagHolds, PTL

-----------------------------------------------------------------------------
(* The custody of local work in branches and worktrees.                    *)

RemovalPcs == {"idle", "rescue", "remove", "prune"}
SweepPcs == {"idle", "scan", "classify", "prompt", "delete", "tip"}
NameSets == SUBSET Branches
ChangeSets == SUBSET Changes
TreeBools == BOOLEAN
Candidates == Trees!Partial(Trees!Candidate)
Upstreams == {"base", "tracked", "gone"}
HeadRecords == [work : ChangeSets, from : ChangeSets, upstream : Upstreams]
TipRecords == [work : ChangeSets, from : ChangeSets]
SweepRuns ==
    [pc : SweepPcs, left : NameSets, gone : NameSets, held : NameSets, dead : TreeBools, online : TreeBools,
     candidates : Candidates, target : NameSets]
RemovalRuns == [pc : RemovalPcs, left : NameSets, force : TreeBools, saw : ChangeSets]
HeadsKept == v1 \in Trees!Partial(HeadRecords)
RemoteKept == v2 \in Trees!Partial(TipRecords)
TrunksKept == v3 \in Trees!Trunk /\ v4 \in Trees!Trunk /\ v5 \subseteq Branches
TreesKept == v6 \in Trees!Partial(ChangeSets)
TreesNested == DOMAIN v6 \subseteq DOMAIN v1 /\ v7 \subseteq DOMAIN v1 \ DOMAIN v6
CreatorKept == v8 \in [Branches -> {"idle", "added", "claimed"}]
RescuedKept == v9 \subseteq Changes
SweepKept == v10 \in SweepRuns
RemovalsKept == v11 \in [Removers -> RemovalRuns]
LostKept == v12 \subseteq Trees!Loss

LEMMA TreesTyped ==
    Trees!TypeOK <=> HeadsKept /\ RemoteKept /\ TrunksKept /\ TreesKept /\ TreesNested /\ CreatorKept
                     /\ RescuedKept /\ SweepKept /\ RemovalsKept /\ LostKept
BY DEF Trees!TypeOK, HeadsKept, RemoteKept, TrunksKept, TreesKept, TreesNested, CreatorKept, RescuedKept, SweepKept,
   RemovalsKept, LostKept, RemovalPcs, SweepPcs, NameSets, ChangeSets, TreeBools, Candidates, Upstreams, HeadRecords,
   TipRecords, SweepRuns, RemovalRuns, Trees!Head, Trees!Tip, Trees!Sweeping, Trees!Removing

LEMMA IsPartial ==
    ASSUME NEW S, NEW f
    PROVE  f \in Trees!Partial(S) <=> DOMAIN f \subseteq Branches /\ f \in [DOMAIN f -> S]
BY DEF Trees!Partial

LEMMA EmptyIsPartial ==
    ASSUME NEW S
    PROVE  <<>> \in Trees!Partial(S) /\ DOMAIN <<>> = {}
<1>1. DOMAIN <<>> = {}
  OBVIOUS
<1>2. <<>> \in [{} -> S]
  BY <1>1
<1> QED
  BY <1>1, <1>2, IsPartial

LEMMA PartialWith ==
    ASSUME NEW S, NEW f \in Trees!Partial(S), NEW b \in Branches, NEW v \in S
    PROVE  /\ Trees!With(f, b, v) \in Trees!Partial(S) /\ DOMAIN Trees!With(f, b, v) = DOMAIN f \cup {b}
           /\ Trees!With(f, b, v)[b] = v /\ \A x \in DOMAIN f : x # b => Trees!With(f, b, v)[x] = f[x]
<1> DEFINE g == Trees!With(f, b, v)
<1>1. DOMAIN f \subseteq Branches /\ f \in [DOMAIN f -> S]
  BY IsPartial
<1>2. g = [x \in DOMAIN f \cup {b} |-> IF x = b THEN v ELSE f[x]]
  BY DEF Trees!With
<1> HIDE DEF g
<1>3. DOMAIN g = DOMAIN f \cup {b} /\ g \in [DOMAIN g -> S]
  BY <1>1, <1>2
<1>4. g[b] = v /\ \A x \in DOMAIN f : x # b => g[x] = f[x]
  BY <1>2
<1>5. g \in Trees!Partial(S)
  BY <1>1, <1>3, IsPartial
<1> QED
  BY <1>3, <1>4, <1>5 DEF g

LEMMA WithTree ==
    ASSUME TreesKept, NEW b \in Branches, NEW k \in ChangeSets
    PROVE  Trees!With(v6, b, k) \in Trees!Partial(ChangeSets) /\ DOMAIN Trees!With(v6, b, k) = DOMAIN v6 \cup {b}
<1>1. v6 \in Trees!Partial(ChangeSets)
  BY DEF TreesKept
<1> QED
  BY <1>1, PartialWith

LEMMA WithCandidate ==
    ASSUME NEW f \in Candidates, NEW b \in Branches, NEW k \in Trees!Candidate
    PROVE  /\ Trees!With(f, b, k) \in Trees!Partial(Trees!Candidate) /\ DOMAIN Trees!With(f, b, k) = DOMAIN f \cup {b}
           /\ Trees!With(f, b, k)[b] = k /\ \A x \in DOMAIN f : x # b => Trees!With(f, b, k)[x] = f[x]
<1> DEFINE g == Trees!With(f, b, k)
<1>1. f \in Trees!Partial(Trees!Candidate) /\ DOMAIN f \subseteq Branches /\ f \in [DOMAIN f -> Trees!Candidate]
  BY IsPartial DEF Candidates
<1>2. g = [x \in DOMAIN f \cup {b} |-> IF x = b THEN k ELSE f[x]]
  BY DEF Trees!With
<1> HIDE DEF g
<1>3. DOMAIN g = DOMAIN f \cup {b} /\ g \in [DOMAIN g -> Trees!Candidate]
  BY <1>1, <1>2
<1>4. g[b] = k /\ \A x \in DOMAIN f : x # b => g[x] = f[x]
  BY <1>2
<1>5. g \in Trees!Partial(Trees!Candidate)
  BY <1>1, <1>3, IsPartial
<1> QED
  BY <1>3, <1>4, <1>5 DEF g

LEMMA PartialWithout ==
    ASSUME NEW S, NEW f \in Trees!Partial(S), NEW b
    PROVE  /\ Trees!Without(f, b) \in Trees!Partial(S) /\ DOMAIN Trees!Without(f, b) = DOMAIN f \ {b}
           /\ \A x \in DOMAIN f \ {b} : Trees!Without(f, b)[x] = f[x]
<1> DEFINE g == Trees!Without(f, b)
<1>1. DOMAIN f \subseteq Branches /\ f \in [DOMAIN f -> S]
  BY IsPartial
<1>2. g = [x \in DOMAIN f \ {b} |-> f[x]]
  BY DEF Trees!Without, Trees!Restrict
<1> HIDE DEF g
<1>3. DOMAIN g = DOMAIN f \ {b} /\ g \in [DOMAIN g -> S] /\ \A x \in DOMAIN f \ {b} : g[x] = f[x]
  BY <1>1, <1>2
<1>4. g \in Trees!Partial(S)
  BY <1>1, <1>3, IsPartial
<1> QED
  BY <1>3, <1>4 DEF g

LEMMA PartialExcept ==
    ASSUME NEW S, NEW f \in Trees!Partial(S), NEW b \in DOMAIN f, NEW v \in S
    PROVE  [f EXCEPT ![b] = v] \in Trees!Partial(S) /\ DOMAIN [f EXCEPT ![b] = v] = DOMAIN f
<1> DEFINE g == [f EXCEPT ![b] = v]
<1>1. DOMAIN f \subseteq Branches /\ f \in [DOMAIN f -> S]
  BY IsPartial
<1>2. DOMAIN g = DOMAIN f /\ g \in [DOMAIN f -> S]
  BY <1>1
<1> HIDE DEF g
<1>3. g \in Trees!Partial(S)
  BY <1>1, <1>2, IsPartial
<1> QED
  BY <1>2, <1>3 DEF g

LEMMA KeptHolds ==
    ASSUME NEW hs, NEW rem, NEW ts, NEW res
    PROVE  Trees!Content(v3) \subseteq Trees!Kept(hs, rem, ts, res) /\ res \subseteq Trees!Kept(hs, rem, ts, res)
BY DEF Trees!Kept

LEMMA RemovalGoes ==
    ASSUME RemovalsKept, NEW r \in Removers, NEW f \in RemovalRuns, Trees!Step(r, f)
    PROVE  /\ RemovalsKept' /\ v11'[r] = f
           /\ \A q \in Removers : q # r => v11'[q] = v11[q]
BY DEF RemovalsKept, Trees!Step

\* What a removal saw stays anchored.
LEMMA RemovalAnchored ==
    ASSUME RemovalsKept, Trees!SawIsAnchored, NEW r \in Removers, NEW f \in RemovalRuns, Trees!Step(r, f), v9 \subseteq v9',
           f.pc = "remove" /\ f.force => f.saw \subseteq v9'
    PROVE  RemovalsKept' /\ Trees!SawIsAnchored'
BY RemovalGoes DEF Trees!SawIsAnchored

LEMMA NoRemovalIs ==
    Trees!NoRemoval \in RemovalRuns /\ Trees!NoRemoval.pc = "idle" /\ Trees!NoRemoval.force = FALSE
BY DEF Trees!NoRemoval, RemovalRuns, RemovalPcs, NameSets, TreeBools, ChangeSets

LEMMA NoSweepIs ==
    Trees!NoSweep \in SweepRuns /\ DOMAIN Trees!NoSweep.candidates = {} /\ Trees!NoSweep.target = {}
<1>1. <<>> \in Candidates /\ DOMAIN <<>> = {}
  BY EmptyIsPartial DEF Candidates
<1> QED
  BY <1>1 DEF Trees!NoSweep, SweepRuns, SweepPcs, NameSets, TreeBools

\* A sweep that is at an end has no candidates.
LEMMA SweepEnded ==
    ASSUME Trees!SweepEnds
    PROVE  SweepKept' /\ Trees!ProvenIsOnBase' /\ Trees!TargetIsCandidate'
BY NoSweepIs DEF Trees!SweepEnds, SweepKept, Trees!ProvenIsOnBase, Trees!TargetIsCandidate

\* The base only gains.
LEMMA BaseGains ==
    ASSUME Trees!ProvenIsOnBase, v10' = v10, Trees!Content(v3) \subseteq Trees!Content(v3)'
    PROVE  Trees!ProvenIsOnBase'
BY DEF Trees!ProvenIsOnBase

LEMMA ContentIsOfChanges ==
    ASSUME NEW t \in Trees!Trunk
    PROVE  Trees!Content(t) \in ChangeSets
BY DEF Trees!Trunk, Trees!Content, ChangeSets

LEMMA HeadFields ==
    ASSUME HeadsKept, NEW b \in DOMAIN v1
    PROVE  b \in Branches /\ v1[b] \in HeadRecords /\ v1[b].work \in ChangeSets /\ v1[b].from \in ChangeSets
<1>1. DOMAIN v1 \subseteq Branches /\ v1 \in [DOMAIN v1 -> HeadRecords]
  BY IsPartial DEF HeadsKept
<1>2. v1[b] \in HeadRecords
  BY <1>1
<1> QED
  BY <1>1, <1>2 DEF HeadRecords

\* A worktree goes: what it held is lost unless it is held elsewhere.
LEMMA DiscardKeepsWork ==
    ASSUME TreesKept, TreesNested, LostKept, RemovalsKept, Trees!SawIsAnchored, Trees!KeepsWork,
           NEW r \in Removers, NEW b, NEW force \in BOOLEAN, Trees!MayRemove(b, force), Trees!Discard(r, b),
           force => v11[r].force /\ v11[r].pc = "remove"
    PROVE  /\ TreesKept' /\ DOMAIN v6' = DOMAIN v6 \ {b} /\ LostKept' /\ Trees!KeepsWork'
<1>1. TreesKept' /\ DOMAIN v6' = DOMAIN v6 \ {b}
  BY PartialWithout DEF TreesKept, Trees!Discard
<1>2. b \in DOMAIN v6 /\ v6[b] \in ChangeSets /\ (~force => v6[b] = {})
  BY IsPartial DEF TreesKept, Trees!MayRemove
<1>3. ASSUME NEW l \in v12', l \notin v12
      PROVE  l \in Trees!Loss /\ l.by = "remove" /\ l.proof = "none" /\ ~l.seen
  <2>1. PICK c \in v6[b] \ Trees!Kept(v1, v2, v6', v9) :
           l = [change |-> c, by |-> "remove", proof |-> "none", seen |-> (v11[r].force => c \in v11[r].saw)]
    BY <1>3 DEF Trees!Discard
  <2>2. force /\ v11[r].force /\ v11[r].saw \subseteq v9
    BY <1>2, <2>1 DEF Trees!SawIsAnchored
  <2>3. c \notin v9
    BY <2>1, KeptHolds
  <2>4. (v11[r].force => c \in v11[r].saw) = FALSE
    BY <2>2, <2>3
  <2>5. l = [change |-> c, by |-> "remove", proof |-> "none", seen |-> FALSE]
    BY <2>1, <2>4
  <2>6. c \in Changes
    BY <1>2, <2>1 DEF ChangeSets
  <2> QED
    BY <2>5, <2>6 DEF Trees!Loss, Trees!Proofs
<1>4. LostKept'
  BY <1>3 DEF LostKept
<1>5. Trees!KeepsWork'
  <2>1. \A l \in v12' : l \in v12 \/ (l.by = "remove" /\ l.proof = "none" /\ ~l.seen)
    BY <1>3
  <2>2. \A l \in v12 : (l.by = "remove" => ~l.seen) /\ (l.by = "sweep" /\ l.seen => l.proof = "merged-pr") /\ l.proof # "ancestor"
    BY DEF Trees!KeepsWork, Trees!EditsSeenAreRescued, Trees!LocalProofsHold, Trees!AncestryDropsNothing
  <2>3. \A l \in v12' : (l.by = "remove" => ~l.seen) /\ (l.by = "sweep" /\ l.seen => l.proof = "merged-pr") /\ l.proof # "ancestor"
    BY <2>1, <2>2
  <2> QED
    BY <2>3 DEF Trees!KeepsWork, Trees!EditsSeenAreRescued, Trees!LocalProofsHold, Trees!AncestryDropsNothing
<1> QED
  BY <1>1, <1>4, <1>5

LEMMA TreesStart == ASSUME Trees!Init PROVE Trees!IInv
<1>1. <<>> \in Trees!Partial(HeadRecords) /\ <<>> \in Trees!Partial(TipRecords) /\ <<>> \in Trees!Partial(ChangeSets)
  BY EmptyIsPartial
<1>2. HeadsKept /\ RemoteKept /\ TreesKept
  BY <1>1 DEF Trees!Init, HeadsKept, RemoteKept, TreesKept
<1>3. TrunksKept
  BY DEF Trees!Init, TrunksKept, Trees!Trunk
<1>4. TreesNested /\ CreatorKept /\ RescuedKept /\ LostKept
  BY DEF Trees!Init, TreesNested, CreatorKept, RescuedKept, LostKept
<1>5. SweepKept /\ Trees!ProvenIsOnBase /\ Trees!TargetIsCandidate
  BY NoSweepIs DEF Trees!Init, SweepKept, Trees!ProvenIsOnBase, Trees!TargetIsCandidate
<1>6. RemovalsKept /\ Trees!SawIsAnchored
  BY NoRemovalIs DEF Trees!Init, RemovalsKept, Trees!SawIsAnchored
<1>7. Trees!FetchedIsOnBase
  BY DEF Trees!Init, Trees!FetchedIsOnBase
<1>8. Trees!KeepsWork
  BY DEF Trees!Init, Trees!KeepsWork, Trees!EditsSeenAreRescued, Trees!LocalProofsHold, Trees!AncestryDropsNothing
<1>9. Trees!TypeOK
  BY <1>2, <1>3, <1>4, <1>5, <1>6, TreesTyped
<1> QED
  BY <1>5, <1>6, <1>7, <1>8, <1>9 DEF Trees!IInv

LEMMA TreesNext ==
    ASSUME Trees!IInv, Trees!Next
    PROVE  Trees!IInv'
<1> DEFINE Goal ==
              /\ HeadsKept' /\ RemoteKept' /\ TrunksKept' /\ TreesKept' /\ TreesNested'
              /\ CreatorKept' /\ RescuedKept' /\ SweepKept' /\ RemovalsKept' /\ LostKept'
              /\ Trees!FetchedIsOnBase' /\ Trees!SawIsAnchored' /\ Trees!ProvenIsOnBase' /\ Trees!TargetIsCandidate' /\ Trees!KeepsWork'
<1>0. /\ HeadsKept /\ RemoteKept /\ TrunksKept /\ TreesKept /\ TreesNested
      /\ CreatorKept /\ RescuedKept /\ SweepKept /\ RemovalsKept /\ LostKept
      /\ Trees!FetchedIsOnBase /\ Trees!SawIsAnchored /\ Trees!ProvenIsOnBase /\ Trees!TargetIsCandidate /\ Trees!KeepsWork
  BY TreesTyped DEF Trees!IInv
<1>f1. UNCHANGED <<v1>> => HeadsKept'
  BY <1>0 DEF HeadsKept
<1>f2. UNCHANGED <<v2>> => RemoteKept'
  BY <1>0 DEF RemoteKept
<1>f3. UNCHANGED <<v3, v4, v5>> => TrunksKept'
  BY <1>0 DEF TrunksKept
<1>f4. UNCHANGED <<v6>> => TreesKept'
  BY <1>0 DEF TreesKept
<1>f5. UNCHANGED <<v1, v6, v7>> => TreesNested'
  BY <1>0 DEF TreesNested
<1>f6. UNCHANGED <<v8>> => CreatorKept'
  BY <1>0 DEF CreatorKept
<1>f7. UNCHANGED <<v9>> => RescuedKept'
  BY <1>0 DEF RescuedKept
<1>f8. UNCHANGED <<v10>> => SweepKept'
  BY <1>0 DEF SweepKept
<1>f9. UNCHANGED <<v11>> => RemovalsKept'
  BY <1>0 DEF RemovalsKept
<1>f10. UNCHANGED <<v12>> => LostKept'
  BY <1>0 DEF LostKept
<1>f11. UNCHANGED <<v3, v4>> => Trees!FetchedIsOnBase'
  BY <1>0 DEF Trees!FetchedIsOnBase, Trees!Content
<1>f12. UNCHANGED <<v9, v11>> => Trees!SawIsAnchored'
  BY <1>0 DEF Trees!SawIsAnchored
<1>f13. UNCHANGED <<v3, v10>> => Trees!ProvenIsOnBase'
  BY <1>0 DEF Trees!ProvenIsOnBase, Trees!Content
<1>f14. UNCHANGED <<v10>> => Trees!TargetIsCandidate'
  BY <1>0 DEF Trees!TargetIsCandidate
<1>f15. UNCHANGED <<v12>> => Trees!KeepsWork'
  BY <1>0 DEF Trees!KeepsWork, Trees!EditsSeenAreRescued, Trees!LocalProofsHold, Trees!AncestryDropsNothing
<1>1. ASSUME NEW b \in Branches, Trees!Edit(b)
      PROVE  Goal
  <2>u. UNCHANGED <<v1, v2, v3, v4, v5, v7, v8, v9, v10, v11, v12>>
    BY <1>1 DEF Trees!Edit, Trees!git, Trees!commands
  <2>1. TreesKept' /\ TreesNested'
    <3>1. PICK c \in Changes : v6' = [v6 EXCEPT ![b] = v6[b] \cup {c}]
      BY <1>1 DEF Trees!Edit
    <3>2. b \in DOMAIN v6 /\ v6[b] \cup {c} \in ChangeSets
      BY <1>0, <1>1, IsPartial DEF Trees!Edit, TreesKept, ChangeSets
    <3>3. TreesKept' /\ DOMAIN v6' = DOMAIN v6
      BY <1>0, <3>1, <3>2, PartialExcept DEF TreesKept
    <3> QED
      BY <1>0, <2>u, <3>3 DEF TreesNested
  <2>f. HeadsKept' /\ RemoteKept' /\ TrunksKept' /\ CreatorKept' /\ RescuedKept' /\ SweepKept' /\ RemovalsKept' /\ LostKept' /\ Trees!FetchedIsOnBase' /\ Trees!SawIsAnchored' /\ Trees!ProvenIsOnBase' /\ Trees!TargetIsCandidate' /\ Trees!KeepsWork'
    BY <2>u, <1>f1, <1>f2, <1>f3, <1>f6, <1>f7, <1>f8, <1>f9, <1>f10, <1>f11, <1>f12, <1>f13, <1>f14, <1>f15
  <2> QED
    BY <2>1, <2>f
<1>2. ASSUME NEW b \in Branches, Trees!Commit(b)
      PROVE  Goal
  <2>u. UNCHANGED <<v2, v3, v4, v5, v7, v8, v9, v10, v11, v12>>
    BY <1>2 DEF Trees!Commit, Trees!git, Trees!commands
  <2>1. HeadsKept' /\ TreesKept' /\ TreesNested'
    <3> DEFINE w == v1[b].work \cup v6[b]
               h == [v1[b] EXCEPT !.work = w]
    <3>1. b \in DOMAIN v6 /\ b \in DOMAIN v1 /\ v6[b] \in ChangeSets
      BY <1>0, <1>2, IsPartial DEF Trees!Commit, TreesKept, TreesNested
    <3>2. v1' = [v1 EXCEPT ![b] = h] /\ v6' = [v6 EXCEPT ![b] = {}]
      BY <1>0, <1>2, <3>1 DEF Trees!Commit
    <3>3. w \in ChangeSets /\ {} \in ChangeSets
      BY <1>0, <3>1, HeadFields DEF ChangeSets
    <3> HIDE DEF w
    <3>4. h \in HeadRecords
      BY <1>0, <3>1, <3>3, HeadFields DEF HeadRecords
    <3> HIDE DEF h
    <3>5. HeadsKept' /\ DOMAIN v1' = DOMAIN v1
      BY <1>0, <3>1, <3>2, <3>4, PartialExcept DEF HeadsKept
    <3>6. TreesKept' /\ DOMAIN v6' = DOMAIN v6
      BY <1>0, <3>1, <3>2, <3>3, PartialExcept DEF TreesKept
    <3> QED
      BY <1>0, <2>u, <3>5, <3>6 DEF TreesNested
  <2>f. RemoteKept' /\ TrunksKept' /\ CreatorKept' /\ RescuedKept' /\ SweepKept' /\ RemovalsKept' /\ LostKept' /\ Trees!FetchedIsOnBase' /\ Trees!SawIsAnchored' /\ Trees!ProvenIsOnBase' /\ Trees!TargetIsCandidate' /\ Trees!KeepsWork'
    BY <2>u, <1>f2, <1>f3, <1>f6, <1>f7, <1>f8, <1>f9, <1>f10, <1>f11, <1>f12, <1>f13, <1>f14, <1>f15
  <2> QED
    BY <2>1, <2>f
<1>3. ASSUME NEW b \in Branches, Trees!Push(b)
      PROVE  Goal
  <2>u. UNCHANGED <<v3, v4, v5, v6, v7, v8, v9, v10, v11, v12>>
    BY <1>3 DEF Trees!Push, Trees!git, Trees!commands
  <2>1. HeadsKept' /\ RemoteKept' /\ TreesNested'
    <3> DEFINE h == [v1[b] EXCEPT !.upstream = "tracked"]
               t == [work |-> v1[b].work, from |-> v1[b].from]
    <3>1. b \in DOMAIN v1
      BY <1>0, <1>3 DEF Trees!Push, TreesNested
    <3>2. v1' = [v1 EXCEPT ![b] = h] /\ v2' = Trees!With(v2, b, t)
      BY <1>3 DEF Trees!Push
    <3>3. h \in HeadRecords /\ t \in TipRecords
      BY <1>0, <3>1, HeadFields DEF HeadRecords, TipRecords, Upstreams
    <3> HIDE DEF h, t
    <3>4. HeadsKept' /\ DOMAIN v1' = DOMAIN v1
      BY <1>0, <3>1, <3>2, <3>3, PartialExcept DEF HeadsKept
    <3>5. RemoteKept'
      BY <1>0, <3>2, <3>3, PartialWith DEF RemoteKept
    <3> QED
      BY <1>0, <2>u, <3>4, <3>5 DEF TreesNested
  <2>f. TrunksKept' /\ TreesKept' /\ CreatorKept' /\ RescuedKept' /\ SweepKept' /\ RemovalsKept' /\ LostKept' /\ Trees!FetchedIsOnBase' /\ Trees!SawIsAnchored' /\ Trees!ProvenIsOnBase' /\ Trees!TargetIsCandidate' /\ Trees!KeepsWork'
    BY <2>u, <1>f3, <1>f4, <1>f6, <1>f7, <1>f8, <1>f9, <1>f10, <1>f11, <1>f12, <1>f13, <1>f14, <1>f15
  <2> QED
    BY <2>1, <2>f
<1>4. ASSUME NEW b \in Branches, Trees!Attach(b)
      PROVE  Goal
  <2>u. UNCHANGED <<v1, v2, v3, v4, v5, v7, v8, v9, v10, v11, v12>>
    BY <1>4 DEF Trees!Attach, Trees!git, Trees!commands
  <2>1. TreesKept' /\ TreesNested'
    <3>1. {} \in ChangeSets /\ v6' = Trees!With(v6, b, {}) /\ b \in DOMAIN v1 /\ b \notin v7
      BY <1>4 DEF Trees!Attach, Trees!Held, ChangeSets
    <3>2. TreesKept' /\ DOMAIN v6' = DOMAIN v6 \cup {b}
      <4>1. v6 \in Trees!Partial(ChangeSets)
        BY <1>0 DEF TreesKept
      <4>2. Trees!With(v6, b, {}) \in Trees!Partial(ChangeSets) /\ DOMAIN Trees!With(v6, b, {}) = DOMAIN v6 \cup {b}
        BY <3>1, <4>1, PartialWith
      <4> QED
        BY <3>1, <4>2 DEF TreesKept
    <3> QED
      BY <1>0, <2>u, <3>1, <3>2 DEF TreesNested
  <2>f. HeadsKept' /\ RemoteKept' /\ TrunksKept' /\ CreatorKept' /\ RescuedKept' /\ SweepKept' /\ RemovalsKept' /\ LostKept' /\ Trees!FetchedIsOnBase' /\ Trees!SawIsAnchored' /\ Trees!ProvenIsOnBase' /\ Trees!TargetIsCandidate' /\ Trees!KeepsWork'
    BY <2>u, <1>f1, <1>f2, <1>f3, <1>f6, <1>f7, <1>f8, <1>f9, <1>f10, <1>f11, <1>f12, <1>f13, <1>f14, <1>f15
  <2> QED
    BY <2>1, <2>f
<1>5. ASSUME NEW b \in Branches, Trees!DirectoryVanishes(b)
      PROVE  Goal
  <2>u. UNCHANGED <<v1, v2, v3, v4, v5, v8, v9, v10, v11, v12>>
    BY <1>5 DEF Trees!DirectoryVanishes, Trees!git, Trees!commands
  <2>1. TreesKept' /\ TreesNested'
    <3>1. v6' = Trees!Without(v6, b) /\ v7' = v7 \cup {b} /\ b \in DOMAIN v6
      BY <1>5 DEF Trees!DirectoryVanishes
    <3>2. TreesKept' /\ DOMAIN v6' = DOMAIN v6 \ {b}
      BY <1>0, <3>1, PartialWithout DEF TreesKept
    <3> QED
      BY <1>0, <2>u, <3>1, <3>2 DEF TreesNested
  <2>f. HeadsKept' /\ RemoteKept' /\ TrunksKept' /\ CreatorKept' /\ RescuedKept' /\ SweepKept' /\ RemovalsKept' /\ LostKept' /\ Trees!FetchedIsOnBase' /\ Trees!SawIsAnchored' /\ Trees!ProvenIsOnBase' /\ Trees!TargetIsCandidate' /\ Trees!KeepsWork'
    BY <2>u, <1>f1, <1>f2, <1>f3, <1>f6, <1>f7, <1>f8, <1>f9, <1>f10, <1>f11, <1>f12, <1>f13, <1>f14, <1>f15
  <2> QED
    BY <2>1, <2>f
<1>6. ASSUME NEW b \in Branches, Trees!MergePR(b)
      PROVE  Goal
  <2>u. UNCHANGED <<v1, v4, v6, v7, v8, v9, v10, v11, v12>>
    BY <1>6 DEF Trees!MergePR, Trees!git, Trees!commands
  <2>1. RemoteKept' /\ TrunksKept' /\ Trees!FetchedIsOnBase' /\ Trees!ProvenIsOnBase'
    <3>1. v2' = Trees!Without(v2, b) /\ v5' = v5 \cup {b} /\ b \in DOMAIN v2
      BY <1>6 DEF Trees!MergePR
    <3>2. RemoteKept'
      BY <1>0, <3>1, PartialWithout DEF RemoteKept
    <3>3. v2[b].work \in ChangeSets /\ v2[b].from \in ChangeSets
      <4>1. v2 \in [DOMAIN v2 -> TipRecords]
        BY <1>0, IsPartial DEF RemoteKept
      <4>2. v2[b] \in TipRecords
        BY <3>1, <4>1
      <4> QED
        BY <4>2 DEF TipRecords
    <3>4. PICK cs \in {v3.commits, v3.commits \cup v2[b].work},
               ts \in {{}, {Trees!TreeOf(v2[b])}} :
             v3' = [commits |-> cs, trees |-> v3.trees \cup {Trees!Content(v3) \cup v2[b].work} \cup ts]
      BY <1>6 DEF Trees!MergePR
    <3> DEFINE all == v3.trees \cup {Trees!Content(v3) \cup v2[b].work} \cup ts
    <3>5. v3'.commits = cs /\ v3'.trees = all
      BY <3>4
    <3>6. Trees!Content(v3) \in ChangeSets /\ Trees!TreeOf(v2[b]) \in ChangeSets
      BY <1>0, <3>3, ContentIsOfChanges DEF TrunksKept, Trees!TreeOf, ChangeSets
    <3>7. cs \subseteq Changes /\ all \subseteq SUBSET Changes
      BY <1>0, <3>3, <3>6 DEF TrunksKept, Trees!Trunk, ChangeSets
    <3>8. TrunksKept'
      BY <1>0, <2>u, <3>1, <3>4, <3>7 DEF TrunksKept, Trees!Trunk
    <3>9. Trees!Content(v3) \subseteq Trees!Content(v3)' /\ v2[b].work \subseteq Trees!Content(v3)'
      BY <3>5 DEF Trees!Content
    <3>10. Trees!FetchedIsOnBase'
      BY <1>0, <2>u, <3>5, <3>9 DEF Trees!FetchedIsOnBase
    <3>11. Trees!ProvenIsOnBase'
      BY <1>0, <2>u, <3>9, BaseGains
    <3> QED
      BY <3>2, <3>8, <3>10, <3>11
  <2>f. HeadsKept' /\ TreesKept' /\ TreesNested' /\ CreatorKept' /\ RescuedKept' /\ SweepKept' /\ RemovalsKept' /\ LostKept' /\ Trees!SawIsAnchored' /\ Trees!TargetIsCandidate' /\ Trees!KeepsWork'
    BY <2>u, <1>f1, <1>f4, <1>f5, <1>f6, <1>f7, <1>f8, <1>f9, <1>f10, <1>f12, <1>f14, <1>f15
  <2> QED
    BY <2>1, <2>f
<1>7. ASSUME NEW b \in Branches, Trees!ClosePR(b)
      PROVE  Goal
  <2>u. UNCHANGED <<v1, v3, v4, v5, v6, v7, v8, v9, v10, v11, v12>>
    BY <1>7 DEF Trees!ClosePR, Trees!git, Trees!commands
  <2>1. RemoteKept'
    BY <1>0, <1>7, PartialWithout DEF Trees!ClosePR, RemoteKept
  <2>f. HeadsKept' /\ TrunksKept' /\ TreesKept' /\ TreesNested' /\ CreatorKept' /\ RescuedKept' /\ SweepKept' /\ RemovalsKept' /\ LostKept' /\ Trees!FetchedIsOnBase' /\ Trees!SawIsAnchored' /\ Trees!ProvenIsOnBase' /\ Trees!TargetIsCandidate' /\ Trees!KeepsWork'
    BY <2>u, <1>f1, <1>f3, <1>f4, <1>f5, <1>f6, <1>f7, <1>f8, <1>f9, <1>f10, <1>f11, <1>f12, <1>f13, <1>f14, <1>f15
  <2> QED
    BY <2>1, <2>f
<1>8. ASSUME NEW b \in Branches, Trees!CreateAdd(b)
      PROVE  Goal
  <2>u. UNCHANGED <<v2, v3, v4, v5, v7, v9, v10, v11, v12>>
    BY <1>8 DEF Trees!CreateAdd, Trees!git, Trees!commands
  <2>1. HeadsKept' /\ TreesKept' /\ TreesNested' /\ CreatorKept'
    <3>a. \A k \in HeadRecords :
             Trees!With(v1, b, k) \in Trees!Partial(HeadRecords) /\ DOMAIN Trees!With(v1, b, k) = DOMAIN v1 \cup {b}
      BY <1>0, PartialWith DEF HeadsKept
    <3>b. \A k \in ChangeSets :
             Trees!With(v6, b, k) \in Trees!Partial(ChangeSets) /\ DOMAIN Trees!With(v6, b, k) = DOMAIN v6 \cup {b}
      BY <1>0, WithTree
    <3> DEFINE h == [work |-> {}, from |-> Trees!Content(v4), upstream |-> "base"]
    <3>1. v1' = Trees!With(v1, b, h) /\ v6' = Trees!With(v6, b, {}) /\ b \notin DOMAIN v1
      BY <1>8 DEF Trees!CreateAdd
    <3>2. h \in HeadRecords /\ {} \in ChangeSets
      BY <1>0, ContentIsOfChanges DEF HeadRecords, TrunksKept, ChangeSets, Upstreams
    <3> HIDE DEF h
    <3>3. HeadsKept' /\ DOMAIN v1' = DOMAIN v1 \cup {b}
      BY <3>1, <3>2, <3>a DEF HeadsKept
    <3>4. TreesKept' /\ DOMAIN v6' = DOMAIN v6 \cup {b}
      BY <3>1, <3>2, <3>b DEF TreesKept
    <3>5. CreatorKept'
      BY <1>0, <1>8 DEF Trees!CreateAdd, CreatorKept
    <3> QED
      BY <1>0, <2>u, <3>1, <3>3, <3>4, <3>5 DEF TreesNested
  <2>f. RemoteKept' /\ TrunksKept' /\ RescuedKept' /\ SweepKept' /\ RemovalsKept' /\ LostKept' /\ Trees!FetchedIsOnBase' /\ Trees!SawIsAnchored' /\ Trees!ProvenIsOnBase' /\ Trees!TargetIsCandidate' /\ Trees!KeepsWork'
    BY <2>u, <1>f2, <1>f3, <1>f7, <1>f8, <1>f9, <1>f10, <1>f11, <1>f12, <1>f13, <1>f14, <1>f15
  <2> QED
    BY <2>1, <2>f
<1>9. ASSUME NEW b \in Branches, Trees!CreateClaim(b) \/ Trees!CreateExit(b)
      PROVE  Goal
  <2>u. UNCHANGED <<v1, v2, v3, v4, v5, v6, v7, v9, v10, v11, v12>>
    BY <1>9 DEF Trees!CreateClaim, Trees!CreateExit, Trees!git, Trees!commands
  <2>1. CreatorKept'
    BY <1>0, <1>9 DEF Trees!CreateClaim, Trees!CreateExit, CreatorKept
  <2>f. HeadsKept' /\ RemoteKept' /\ TrunksKept' /\ TreesKept' /\ TreesNested' /\ RescuedKept' /\ SweepKept' /\ RemovalsKept' /\ LostKept' /\ Trees!FetchedIsOnBase' /\ Trees!SawIsAnchored' /\ Trees!ProvenIsOnBase' /\ Trees!TargetIsCandidate' /\ Trees!KeepsWork'
    BY <2>u, <1>f1, <1>f2, <1>f3, <1>f4, <1>f5, <1>f7, <1>f8, <1>f9, <1>f10, <1>f11, <1>f12, <1>f13, <1>f14, <1>f15
  <2> QED
    BY <2>1, <2>f
<1>10. ASSUME NEW r \in Removers, NEW b \in Branches, Trees!GcStart(r, b)
      PROVE  Goal
  <2>u. UNCHANGED <<v1, v2, v3, v4, v5, v6, v7, v8, v9, v10, v12>>
    BY <1>10 DEF Trees!GcStart, Trees!git, Trees!commands
  <2>1. RemovalsKept' /\ Trees!SawIsAnchored'
    <3>1. PICK force \in BOOLEAN :
             Trees!Step(r, [pc |-> IF force THEN "rescue" ELSE "remove", left |-> {b}, force |-> force, saw |-> {}])
      BY <1>10 DEF Trees!GcStart
    <3> DEFINE pc == IF force THEN "rescue" ELSE "remove"
               f == [pc |-> pc, left |-> {b}, force |-> force, saw |-> {}]
    <3>2. pc \in RemovalPcs /\ {b} \in NameSets /\ force \in TreeBools /\ {} \in ChangeSets
      BY DEF RemovalPcs, NameSets, TreeBools, ChangeSets
    <3> HIDE DEF pc
    <3>3. f \in RemovalRuns /\ f.saw = {}
      BY <3>2 DEF RemovalRuns
    <3>4. Trees!Step(r, f)
      BY <3>1 DEF pc
    <3> HIDE DEF f
    <3>5. {} \subseteq v9'
      OBVIOUS
    <3> QED
      BY <1>0, <2>u, <3>3, <3>4, <3>5, RemovalAnchored
  <2>f. HeadsKept' /\ RemoteKept' /\ TrunksKept' /\ TreesKept' /\ TreesNested' /\ CreatorKept' /\ RescuedKept' /\ SweepKept' /\ LostKept' /\ Trees!FetchedIsOnBase' /\ Trees!ProvenIsOnBase' /\ Trees!TargetIsCandidate' /\ Trees!KeepsWork'
    BY <2>u, <1>f1, <1>f2, <1>f3, <1>f4, <1>f5, <1>f6, <1>f7, <1>f8, <1>f10, <1>f11, <1>f13, <1>f14, <1>f15
  <2> QED
    BY <2>1, <2>f
<1>11. ASSUME NEW r \in Removers, Trees!Rescue(r)
      PROVE  Goal
  <2>u. UNCHANGED <<v1, v2, v3, v4, v5, v6, v7, v8, v10, v12>>
    BY <1>11 DEF Trees!Rescue, Trees!git, Trees!commands
  <2>1. RescuedKept' /\ RemovalsKept' /\ Trees!SawIsAnchored'
    <3>1. CASE Trees!Step(r, Trees!NoRemoval) /\ v9' = v9
      <4>1. v9 \subseteq v9' /\ RescuedKept'
        BY <1>0, <3>1 DEF RescuedKept
      <4> QED
        BY <1>0, <3>1, <4>1, NoRemovalIs, RemovalAnchored
    <3>2. CASE \E b \in DOMAIN v6 :
                  /\ v9' = v9 \cup Trees!RescueOf(b)
                  /\ Trees!Step(r, [v11[r] EXCEPT !.pc = "remove", !.saw = v6[b]])
      <4>1. PICK b \in DOMAIN v6 : /\ v9' = v9 \cup Trees!RescueOf(b)
                                   /\ Trees!Step(r, [v11[r] EXCEPT !.pc = "remove", !.saw = v6[b]])
        BY <3>2
      <4>2. v6[b] \in ChangeSets /\ b \in DOMAIN v1
        BY <1>0, IsPartial DEF TreesKept, TreesNested
      <4>3. Trees!TreeOf(v1[b]) \in ChangeSets
        BY <1>0, <4>2, HeadFields DEF Trees!TreeOf, ChangeSets
      <4>4. v6[b] \subseteq Trees!RescueOf(b) /\ Trees!RescueOf(b) \subseteq Changes
        BY <4>2, <4>3 DEF Trees!RescueOf, ChangeSets
      <4> DEFINE f == [v11[r] EXCEPT !.pc = "remove", !.saw = v6[b]]
      <4>5. v11[r] \in RemovalRuns /\ "remove" \in RemovalPcs
        BY <1>0 DEF RemovalsKept, RemovalPcs
      <4>6. f \in RemovalRuns /\ f.saw = v6[b]
        BY <4>2, <4>5 DEF RemovalRuns
      <4>7. Trees!Step(r, f)
        BY <4>1
      <4> HIDE DEF f
      <4>8. RescuedKept' /\ v9 \subseteq v9' /\ f.saw \subseteq v9'
        BY <1>0, <4>1, <4>4, <4>6 DEF RescuedKept
      <4> QED
        BY <1>0, <4>6, <4>7, <4>8, RemovalAnchored
    <3> QED
      BY <1>11, <3>1, <3>2 DEF Trees!Rescue
  <2>f. HeadsKept' /\ RemoteKept' /\ TrunksKept' /\ TreesKept' /\ TreesNested' /\ CreatorKept' /\ SweepKept' /\ LostKept' /\ Trees!FetchedIsOnBase' /\ Trees!ProvenIsOnBase' /\ Trees!TargetIsCandidate' /\ Trees!KeepsWork'
    BY <2>u, <1>f1, <1>f2, <1>f3, <1>f4, <1>f5, <1>f6, <1>f8, <1>f10, <1>f11, <1>f13, <1>f14, <1>f15
  <2> QED
    BY <2>1, <2>f
<1>12. ASSUME NEW r \in Removers, Trees!Remove(r)
      PROVE  Goal
  <2>u. UNCHANGED <<v1, v2, v3, v4, v5, v8, v9, v10>>
    BY <1>12 DEF Trees!Remove, Trees!git, Trees!commands
  <2>1. RemovalsKept' /\ Trees!SawIsAnchored'
    <3>1. Trees!Step(r, Trees!NoRemoval) /\ v9 \subseteq v9'
      BY <1>12, <2>u DEF Trees!Remove
    <3> QED
      BY <1>0, <3>1, NoRemovalIs, RemovalAnchored
  <2>2. TreesKept' /\ TreesNested' /\ LostKept' /\ Trees!KeepsWork'
    <3>1. CASE UNCHANGED <<v6, v7, v12>>
      BY <1>0, <2>u, <3>1, <1>f4, <1>f5, <1>f10, <1>f15
    <3>2. CASE \E b : Trees!MayRemove(b, v11[r].force) /\ Trees!Discard(r, b) /\ v7' \in {v7, {}}
      <4>1. PICK b : Trees!MayRemove(b, v11[r].force) /\ Trees!Discard(r, b) /\ v7' \in {v7, {}}
        BY <3>2
      <4>2. v11[r].pc = "remove"
        BY <1>12 DEF Trees!Remove, Trees!At
      <4> DEFINE force == v11[r].force
      <4>3. force \in BOOLEAN /\ (force => v11[r].force /\ v11[r].pc = "remove") /\ Trees!MayRemove(b, force)
        <5>1. v11[r].force \in BOOLEAN
          BY <1>0 DEF RemovalsKept, RemovalRuns, TreeBools
        <5> QED
          BY <4>1, <4>2, <5>1
      <4> HIDE DEF force
      <4>4. TreesKept' /\ DOMAIN v6' = DOMAIN v6 \ {b} /\ LostKept' /\ Trees!KeepsWork'
        BY <1>0, <4>1, <4>3, DiscardKeepsWork
      <4>5. TreesNested'
        BY <1>0, <2>u, <4>1, <4>4 DEF TreesNested
      <4> QED
        BY <4>4, <4>5
    <3> QED
      BY <1>12, <3>1, <3>2 DEF Trees!Remove, Trees!WorktreePrune
  <2>f. HeadsKept' /\ RemoteKept' /\ TrunksKept' /\ CreatorKept' /\ RescuedKept' /\ SweepKept' /\ Trees!FetchedIsOnBase' /\ Trees!ProvenIsOnBase' /\ Trees!TargetIsCandidate'
    BY <2>u, <1>f1, <1>f2, <1>f3, <1>f6, <1>f7, <1>f8, <1>f11, <1>f13, <1>f14
  <2> QED
    BY <2>1, <2>2, <2>f
<1>13. ASSUME NEW r \in Removers, Trees!PruneStart(r)
      PROVE  Goal
  <2>u. UNCHANGED <<v1, v2, v3, v4, v5, v6, v7, v8, v9, v10, v12>>
    BY <1>13 DEF Trees!PruneStart, Trees!git, Trees!commands
  <2>1. RemovalsKept' /\ Trees!SawIsAnchored'
    <3>1. PICK idle \in SUBSET DOMAIN v6 : Trees!Step(r, [Trees!NoRemoval EXCEPT !.pc = "prune", !.left = idle])
      BY <1>13 DEF Trees!PruneStart
    <3>2. idle \in NameSets /\ "prune" \in RemovalPcs
      BY <1>0, IsPartial DEF TreesKept, NameSets, RemovalPcs
    <3> DEFINE f == [Trees!NoRemoval EXCEPT !.pc = "prune", !.left = idle]
    <3>3. f \in RemovalRuns /\ f.pc = "prune"
      BY <3>2, NoRemovalIs DEF RemovalRuns
    <3>4. Trees!Step(r, f) /\ v9 \subseteq v9'
      BY <2>u, <3>1
    <3> HIDE DEF f
    <3> QED
      BY <1>0, <3>3, <3>4, RemovalAnchored
  <2>f. HeadsKept' /\ RemoteKept' /\ TrunksKept' /\ TreesKept' /\ TreesNested' /\ CreatorKept' /\ RescuedKept' /\ SweepKept' /\ LostKept' /\ Trees!FetchedIsOnBase' /\ Trees!ProvenIsOnBase' /\ Trees!TargetIsCandidate' /\ Trees!KeepsWork'
    BY <2>u, <1>f1, <1>f2, <1>f3, <1>f4, <1>f5, <1>f6, <1>f7, <1>f8, <1>f10, <1>f11, <1>f13, <1>f14, <1>f15
  <2> QED
    BY <2>1, <2>f
<1>14. ASSUME NEW r \in Removers, NEW b \in Branches, Trees!PruneOne(r, b)
      PROVE  Goal
  <2>u. UNCHANGED <<v1, v2, v3, v4, v5, v7, v8, v9, v10>>
    BY <1>14 DEF Trees!PruneOne, Trees!git, Trees!commands
  <2>1. RemovalsKept' /\ Trees!SawIsAnchored'
    <3> DEFINE f == [v11[r] EXCEPT !.left = v11[r].left \ {b}]
    <3>1. v11[r] \in RemovalRuns /\ v11[r].left \ {b} \in NameSets
      BY <1>0 DEF RemovalsKept, RemovalRuns, NameSets
    <3>2. f \in RemovalRuns /\ f.pc = v11[r].pc /\ v11[r].pc = "prune"
      BY <1>14, <3>1 DEF RemovalRuns, Trees!PruneOne, Trees!At
    <3>3. Trees!Step(r, f) /\ v9 \subseteq v9'
      BY <1>14, <2>u DEF Trees!PruneOne
    <3> HIDE DEF f
    <3> QED
      BY <1>0, <3>2, <3>3, RemovalAnchored
  <2>2. TreesKept' /\ TreesNested' /\ LostKept' /\ Trees!KeepsWork'
    <3>1. CASE UNCHANGED <<v6, v12>>
      BY <1>0, <2>u, <3>1, <1>f4, <1>f5, <1>f10, <1>f15
    <3>2. CASE Trees!MayRemove(b, FALSE) /\ Trees!Discard(r, b)
      <4>1. TreesKept' /\ DOMAIN v6' = DOMAIN v6 \ {b} /\ LostKept' /\ Trees!KeepsWork'
        BY <1>0, <3>2, DiscardKeepsWork
      <4>2. TreesNested'
        BY <1>0, <2>u, <4>1 DEF TreesNested
      <4> QED
        BY <4>1, <4>2
    <3> QED
      BY <1>14, <3>1, <3>2 DEF Trees!PruneOne
  <2>f. HeadsKept' /\ RemoteKept' /\ TrunksKept' /\ CreatorKept' /\ RescuedKept' /\ SweepKept' /\ Trees!FetchedIsOnBase' /\ Trees!ProvenIsOnBase' /\ Trees!TargetIsCandidate'
    BY <2>u, <1>f1, <1>f2, <1>f3, <1>f6, <1>f7, <1>f8, <1>f11, <1>f13, <1>f14
  <2> QED
    BY <2>1, <2>2, <2>f
<1>15. ASSUME NEW r \in Removers, Trees!PruneEnd(r)
      PROVE  Goal
  <2>u. UNCHANGED <<v1, v2, v3, v4, v5, v6, v8, v9, v10, v12>>
    BY <1>15 DEF Trees!PruneEnd, Trees!git, Trees!commands
  <2>1. RemovalsKept' /\ Trees!SawIsAnchored'
    <3>1. Trees!Step(r, Trees!NoRemoval) /\ v9 \subseteq v9'
      BY <1>15, <2>u DEF Trees!PruneEnd
    <3> QED
      BY <1>0, <3>1, NoRemovalIs, RemovalAnchored
  <2>2. TreesNested'
    BY <1>0, <1>15, <2>u DEF Trees!PruneEnd, Trees!WorktreePrune, TreesNested
  <2>f. HeadsKept' /\ RemoteKept' /\ TrunksKept' /\ TreesKept' /\ CreatorKept' /\ RescuedKept' /\ SweepKept' /\ LostKept' /\ Trees!FetchedIsOnBase' /\ Trees!ProvenIsOnBase' /\ Trees!TargetIsCandidate' /\ Trees!KeepsWork'
    BY <2>u, <1>f1, <1>f2, <1>f3, <1>f4, <1>f6, <1>f7, <1>f8, <1>f10, <1>f11, <1>f13, <1>f14, <1>f15
  <2> QED
    BY <2>1, <2>2, <2>f
<1>16. ASSUME Trees!SweepStart
      PROVE  Goal
  <2>u. UNCHANGED <<v2, v3, v5, v6, v7, v8, v9, v11, v12>>
    BY <1>16 DEF Trees!SweepStart, Trees!git, Trees!commands
  <2>1. SweepKept' /\ Trees!ProvenIsOnBase' /\ Trees!TargetIsCandidate'
    <3>1. PICK online \in BOOLEAN : v10' = [Trees!NoSweep EXCEPT !.pc = "scan", !.online = online]
      BY <1>16 DEF Trees!SweepStart
    <3>2. "scan" \in SweepPcs /\ online \in TreeBools
      BY DEF SweepPcs, TreeBools
    <3>3. v10' \in SweepRuns /\ v10'.candidates = Trees!NoSweep.candidates /\ v10'.target = Trees!NoSweep.target
      BY <3>1, <3>2, NoSweepIs DEF SweepRuns
    <3> QED
      BY <3>3, NoSweepIs DEF SweepKept, Trees!ProvenIsOnBase, Trees!TargetIsCandidate
  <2>2. HeadsKept' /\ TreesNested' /\ TrunksKept' /\ Trees!FetchedIsOnBase'
    <3>1. CASE UNCHANGED <<v1, v4>>
      BY <1>0, <2>u, <3>1, <1>f1, <1>f3, <1>f5, <1>f11
    <3>2. CASE v4' = v3 /\ v1' = [b \in DOMAIN v1 |-> Trees!Refreshed(v1[b], b)]
      <4>1. \A b \in DOMAIN v1 : Trees!Refreshed(v1[b], b) \in HeadRecords
        <5> TAKE b \in DOMAIN v1
        <5>1. v1[b] \in HeadRecords
          BY <1>0, HeadFields
        <5>2. \A u \in Upstreams : [v1[b] EXCEPT !.upstream = u] \in HeadRecords
          BY <5>1 DEF HeadRecords
        <5>3. (IF b \in DOMAIN v2 THEN "tracked" ELSE "gone") \in Upstreams
          BY DEF Upstreams
        <5> QED
          BY <5>1, <5>2, <5>3 DEF Trees!Refreshed
      <4>2. DOMAIN v1' = DOMAIN v1 /\ v1' \in [DOMAIN v1 -> HeadRecords] /\ DOMAIN v1 \subseteq Branches
        BY <1>0, <3>2, <4>1, IsPartial DEF HeadsKept
      <4>3. HeadsKept'
        BY <4>2, IsPartial DEF HeadsKept
      <4>4. TrunksKept'
        BY <1>0, <2>u, <3>2 DEF TrunksKept
      <4>5. Trees!FetchedIsOnBase'
        BY <1>0, <2>u, <3>2 DEF Trees!FetchedIsOnBase, Trees!Content
      <4> QED
        BY <1>0, <2>u, <4>2, <4>3, <4>4, <4>5 DEF TreesNested
    <3> QED
      BY <1>16, <3>1, <3>2 DEF Trees!SweepStart
  <2>f. RemoteKept' /\ TreesKept' /\ CreatorKept' /\ RescuedKept' /\ RemovalsKept' /\ LostKept' /\ Trees!SawIsAnchored' /\ Trees!KeepsWork'
    BY <2>u, <1>f2, <1>f4, <1>f6, <1>f7, <1>f9, <1>f10, <1>f12, <1>f15
  <2> QED
    BY <2>1, <2>2, <2>f
<1>17. ASSUME Trees!SweepScan
      PROVE  Goal
  <2>u. UNCHANGED <<v1, v2, v3, v4, v5, v6, v7, v8, v9, v11, v12>>
    BY <1>17 DEF Trees!SweepScan, Trees!git, Trees!commands
  <2>1. SweepKept' /\ Trees!ProvenIsOnBase' /\ Trees!TargetIsCandidate'
    <3> DEFINE held == Trees!Held
               some == (v7 # {})
               gone == {b \in DOMAIN v1 : v1[b].upstream = "gone"}
               left == DOMAIN v1
    <3>1. v10 \in SweepRuns /\ v10' = [v10 EXCEPT !.pc = "classify", !.left = left, !.held = held, !.dead = some, !.gone = gone]
      BY <1>0, <1>17 DEF SweepKept, Trees!SweepScan
    <3>2. "classify" \in SweepPcs /\ left \in NameSets /\ held \in NameSets /\ gone \in NameSets
      BY <1>0, IsPartial DEF SweepPcs, NameSets, HeadsKept, TreesNested, Trees!Held
    <3>3. some \in TreeBools
      BY DEF TreeBools
    <3> HIDE DEF held, some, gone, left
    <3>4. v10' \in SweepRuns /\ v10'.candidates = v10.candidates /\ v10'.target = v10.target
      BY <3>1, <3>2, <3>3 DEF SweepRuns
    <3> QED
      BY <1>0, <2>u, <3>4 DEF SweepKept, Trees!ProvenIsOnBase, Trees!TargetIsCandidate, Trees!Content
  <2>f. HeadsKept' /\ RemoteKept' /\ TrunksKept' /\ TreesKept' /\ TreesNested' /\ CreatorKept' /\ RescuedKept' /\ RemovalsKept' /\ LostKept' /\ Trees!FetchedIsOnBase' /\ Trees!SawIsAnchored' /\ Trees!KeepsWork'
    BY <2>u, <1>f1, <1>f2, <1>f3, <1>f4, <1>f5, <1>f6, <1>f7, <1>f9, <1>f10, <1>f11, <1>f12, <1>f15
  <2> QED
    BY <2>1, <2>f
<1>18. ASSUME NEW b \in Branches, Trees!Classify(b)
      PROVE  Goal
  <2>u. UNCHANGED <<v1, v2, v3, v4, v5, v6, v7, v8, v9, v11, v12>>
    BY <1>18 DEF Trees!Classify, Trees!git, Trees!commands
  <2>1. SweepKept' /\ Trees!ProvenIsOnBase' /\ Trees!TargetIsCandidate'
    <3>1. CASE Trees!SweepEnds
      BY <3>1, SweepEnded
    <3>2. CASE b \in DOMAIN v1 /\ ~Trees!SweepEnds
      <4> DEFINE cand(proof) == [proof |-> proof, work |-> v1[b].work]
                 more(proof) == IF Trees!Deletable(b, proof) THEN Trees!With(v10.candidates, b, cand(proof)) ELSE v10.candidates
                 left == v10.left \ {b}
      <4>1. PICK forge \in {FALSE, v10.online} :
               v10' = [v10 EXCEPT !.left = left, !.candidates = more(Trees!ProofOf(b, forge))]
        BY <1>18, <3>2 DEF Trees!Classify
      <4> DEFINE proof == Trees!ProofOf(b, forge)
                 after == more(proof)
      <4>2. v10 \in SweepRuns /\ left \in NameSets /\ v10.candidates \in Candidates /\ v10.target \subseteq DOMAIN v10.candidates
        BY <1>0 DEF SweepKept, SweepRuns, NameSets, Trees!TargetIsCandidate
      <4>3. after \in Candidates /\ DOMAIN v10.candidates \subseteq DOMAIN after
            /\ \A x \in DOMAIN after : after[x].proof # "merged-pr" => after[x].work \subseteq Trees!Content(v3)
        <5>a. \A k \in Trees!Candidate :
                 /\ Trees!With(v10.candidates, b, k) \in Trees!Partial(Trees!Candidate)
                 /\ DOMAIN Trees!With(v10.candidates, b, k) = DOMAIN v10.candidates \cup {b}
                 /\ Trees!With(v10.candidates, b, k)[b] = k
                 /\ \A x \in DOMAIN v10.candidates : x # b => Trees!With(v10.candidates, b, k)[x] = v10.candidates[x]
          BY <4>2, WithCandidate
        <5>1. CASE ~Trees!Deletable(b, proof)
          BY <1>0, <4>2, <5>1 DEF Trees!ProvenIsOnBase
        <5>2. CASE Trees!Deletable(b, proof)
          <6>1. proof \in Trees!Proofs \ {"none"} /\ v1[b].work \in ChangeSets
            BY <1>0, <3>2, <5>2, HeadFields DEF Trees!ProofOf, Trees!Proofs, Trees!Deletable
          <6>2. cand(proof) \in Trees!Candidate /\ cand(proof).proof = proof /\ cand(proof).work = v1[b].work
            BY <6>1 DEF Trees!Candidate, ChangeSets
          <6>3. proof # "merged-pr" => v1[b].work \subseteq Trees!Content(v3)
            <7>1. v1[b].work \subseteq v4.commits => v1[b].work \subseteq Trees!Content(v3)
              BY <1>0 DEF Trees!FetchedIsOnBase
            <7>2. Trees!TreeOf(v1[b]) \in v4.trees => v1[b].work \subseteq Trees!Content(v3)
              BY <1>0 DEF Trees!FetchedIsOnBase, Trees!TreeOf, Trees!Content
            <7> QED
              BY <5>2, <7>1, <7>2 DEF Trees!ProofOf, Trees!Deletable
          <6> DEFINE k == cand(proof)
          <6>4. after = Trees!With(v10.candidates, b, k)
            BY <5>2
          <6>5. k \in Trees!Candidate /\ (k.proof # "merged-pr" => k.work \subseteq Trees!Content(v3))
            BY <6>2, <6>3
          <6> HIDE DEF after, k
          <6>6. /\ after \in Candidates /\ DOMAIN after = DOMAIN v10.candidates \cup {b} /\ after[b] = k
                /\ \A x \in DOMAIN v10.candidates : x # b => after[x] = v10.candidates[x]
            BY <6>4, <6>5, <5>a DEF Candidates
          <6> QED
            BY <1>0, <6>5, <6>6 DEF Trees!ProvenIsOnBase
        <5> QED
          BY <5>1, <5>2
      <4> HIDE DEF left, after
      <4>4. v10' = [v10 EXCEPT !.left = left, !.candidates = after]
        BY <4>1 DEF after
      <4>5. v10' \in SweepRuns /\ v10'.candidates = after /\ v10'.target = v10.target
        BY <4>2, <4>3, <4>4 DEF SweepRuns
      <4> QED
        BY <2>u, <4>2, <4>3, <4>5 DEF SweepKept, Trees!ProvenIsOnBase, Trees!TargetIsCandidate, Trees!Content
    <3> QED
      BY <1>18, <3>1, <3>2 DEF Trees!Classify
  <2>f. HeadsKept' /\ RemoteKept' /\ TrunksKept' /\ TreesKept' /\ TreesNested' /\ CreatorKept' /\ RescuedKept' /\ RemovalsKept' /\ LostKept' /\ Trees!FetchedIsOnBase' /\ Trees!SawIsAnchored' /\ Trees!KeepsWork'
    BY <2>u, <1>f1, <1>f2, <1>f3, <1>f4, <1>f5, <1>f6, <1>f7, <1>f9, <1>f10, <1>f11, <1>f12, <1>f15
  <2> QED
    BY <2>1, <2>f
<1>19. ASSUME Trees!SweepPrompt
      PROVE  Goal
  <2>u. UNCHANGED <<v1, v2, v3, v4, v5, v6, v7, v8, v9, v11, v12>>
    BY <1>19 DEF Trees!SweepPrompt, Trees!git, Trees!commands
  <2>1. SweepKept' /\ Trees!ProvenIsOnBase' /\ Trees!TargetIsCandidate'
    <3>1. v10 \in SweepRuns /\ v10' = [v10 EXCEPT !.pc = "prompt", !.gone = {}, !.held = {}, !.online = FALSE]
      BY <1>0, <1>19 DEF SweepKept, Trees!SweepPrompt
    <3>2. "prompt" \in SweepPcs /\ {} \in NameSets /\ FALSE \in TreeBools
      BY <1>0 DEF SweepPcs, NameSets, TreeBools
    <3>3. v10' \in SweepRuns /\ v10'.candidates = v10.candidates /\ v10'.target = v10.target
      BY <3>1, <3>2 DEF SweepRuns
    <3> QED
      BY <1>0, <2>u, <3>3 DEF SweepKept, Trees!ProvenIsOnBase, Trees!TargetIsCandidate, Trees!Content
  <2>f. HeadsKept' /\ RemoteKept' /\ TrunksKept' /\ TreesKept' /\ TreesNested' /\ CreatorKept' /\ RescuedKept' /\ RemovalsKept' /\ LostKept' /\ Trees!FetchedIsOnBase' /\ Trees!SawIsAnchored' /\ Trees!KeepsWork'
    BY <2>u, <1>f1, <1>f2, <1>f3, <1>f4, <1>f5, <1>f6, <1>f7, <1>f9, <1>f10, <1>f11, <1>f12, <1>f15
  <2> QED
    BY <2>1, <2>f
<1>20. ASSUME Trees!SweepAnswer
      PROVE  Goal
  <2>u. UNCHANGED <<v1, v2, v3, v4, v5, v6, v7, v8, v9, v11, v12>>
    BY <1>20 DEF Trees!SweepAnswer, Trees!git, Trees!commands
  <2>1. SweepKept' /\ Trees!ProvenIsOnBase' /\ Trees!TargetIsCandidate'
    <3>a. CASE Trees!SweepEnds
      BY <3>a, SweepEnded
    <3>b. CASE v10' = [v10 EXCEPT !.pc = "delete"]
      <4>1. v10 \in SweepRuns /\ "delete" \in SweepPcs
        BY <1>0 DEF SweepKept, SweepPcs
      <4>2. v10' \in SweepRuns /\ v10'.candidates = v10.candidates /\ v10'.target = v10.target
        BY <3>b, <4>1 DEF SweepRuns
      <4> QED
        BY <1>0, <2>u, <4>2 DEF SweepKept, Trees!ProvenIsOnBase, Trees!TargetIsCandidate, Trees!Content
    <3> QED
      BY <1>20, <3>a, <3>b DEF Trees!SweepAnswer
  <2>f. HeadsKept' /\ RemoteKept' /\ TrunksKept' /\ TreesKept' /\ TreesNested' /\ CreatorKept' /\ RescuedKept' /\ RemovalsKept' /\ LostKept' /\ Trees!FetchedIsOnBase' /\ Trees!SawIsAnchored' /\ Trees!KeepsWork'
    BY <2>u, <1>f1, <1>f2, <1>f3, <1>f4, <1>f5, <1>f6, <1>f7, <1>f9, <1>f10, <1>f11, <1>f12, <1>f15
  <2> QED
    BY <2>1, <2>f
<1>21. ASSUME NEW b \in Branches, Trees!ReadTip(b)
      PROVE  Goal
  <2>u. UNCHANGED <<v1, v2, v3, v4, v5, v6, v7, v8, v9, v11, v12>>
    BY <1>21 DEF Trees!ReadTip, Trees!git, Trees!commands
  <2>1. SweepKept' /\ Trees!ProvenIsOnBase' /\ Trees!TargetIsCandidate'
    <3>a. CASE Trees!SweepEnds
      BY <3>a, SweepEnded
    <3>b. CASE v10' = [v10 EXCEPT !.pc = "tip", !.target = {b}]
      <4>1. v10 \in SweepRuns /\ "tip" \in SweepPcs /\ {b} \in NameSets
        BY <1>0 DEF SweepKept, SweepPcs, NameSets
      <4>2. v10' \in SweepRuns /\ v10'.candidates = v10.candidates /\ v10'.target = {b}
        BY <3>b, <4>1 DEF SweepRuns
      <4>3. b \in DOMAIN v10.candidates
        BY <1>21 DEF Trees!ReadTip
      <4> QED
        BY <1>0, <2>u, <4>2, <4>3 DEF SweepKept, Trees!ProvenIsOnBase, Trees!TargetIsCandidate, Trees!Content
    <3> QED
      BY <1>21, <3>a, <3>b DEF Trees!ReadTip
  <2>f. HeadsKept' /\ RemoteKept' /\ TrunksKept' /\ TreesKept' /\ TreesNested' /\ CreatorKept' /\ RescuedKept' /\ RemovalsKept' /\ LostKept' /\ Trees!FetchedIsOnBase' /\ Trees!SawIsAnchored' /\ Trees!KeepsWork'
    BY <2>u, <1>f1, <1>f2, <1>f3, <1>f4, <1>f5, <1>f6, <1>f7, <1>f9, <1>f10, <1>f11, <1>f12, <1>f15
  <2> QED
    BY <2>1, <2>f
<1>22. ASSUME NEW b \in Branches, Trees!DeleteBranch(b)
      PROVE  Goal
  <2>u. UNCHANGED <<v2, v3, v4, v5, v6, v7, v8, v9, v11>>
    BY <1>22 DEF Trees!DeleteBranch, Trees!git, Trees!commands
  <2>1. HeadsKept' /\ TreesNested' /\ SweepKept' /\ LostKept' /\ Trees!ProvenIsOnBase' /\ Trees!TargetIsCandidate' /\ Trees!KeepsWork'
    <3>a. CASE Trees!SweepEnds /\ UNCHANGED <<v1, v12>>
      BY <1>0, <2>u, <3>a, SweepEnded, <1>f1, <1>f5, <1>f10, <1>f15
    <3>b. CASE /\ Trees!GitDeletes(b, v10.candidates[b].proof)
               /\ v1' = Trees!Without(v1, b)
               /\ v12' = v12 \cup
                      {[change |-> c, by |-> "sweep", proof |-> v10.candidates[b].proof, seen |-> c \in v10.candidates[b].work] :
                          c \in v1[b].work \ Trees!Kept(v1', v2, v6, v9)}
               /\ v10' = [v10 EXCEPT !.pc = "delete", !.target = {}, !.candidates = Trees!Without(v10.candidates, b)]
      <4>1. HeadsKept' /\ DOMAIN v1' = DOMAIN v1 \ {b}
        BY <1>0, <3>b, PartialWithout DEF HeadsKept
      <4>2. b \in DOMAIN v1 /\ b \notin DOMAIN v6 /\ b \notin v7
        BY <3>b DEF Trees!GitDeletes, Trees!Held
      <4>3. TreesNested'
        BY <1>0, <2>u, <4>1, <4>2 DEF TreesNested
      <4> DEFINE rest == Trees!Without(v10.candidates, b)
                 proof == v10.candidates[b].proof
      <4>4. v10 \in SweepRuns /\ "delete" \in SweepPcs /\ {} \in NameSets /\ v10.candidates \in Candidates
        BY <1>0 DEF SweepKept, SweepPcs, NameSets, SweepRuns
      <4>5. /\ rest \in Candidates /\ DOMAIN rest = DOMAIN v10.candidates \ {b}
            /\ \A x \in DOMAIN rest : rest[x] = v10.candidates[x]
        BY <4>4, PartialWithout DEF Candidates
      <4>6. v10' = [v10 EXCEPT !.pc = "delete", !.target = {}, !.candidates = rest]
        BY <3>b
      <4> HIDE DEF rest
      <4>7. v10' \in SweepRuns /\ v10'.candidates = rest /\ v10'.target = {}
        BY <4>4, <4>5, <4>6 DEF SweepRuns
      <4>8. SweepKept' /\ Trees!ProvenIsOnBase' /\ Trees!TargetIsCandidate'
        BY <1>0, <2>u, <4>5, <4>7 DEF SweepKept, Trees!ProvenIsOnBase, Trees!TargetIsCandidate, Trees!Content
      <4>9. b \in DOMAIN v10.candidates
        BY <1>0, <1>22 DEF Trees!DeleteBranch, Trees!TargetIsCandidate
      <4>10. v10.candidates[b] \in Trees!Candidate
        BY <4>4, <4>9, IsPartial DEF Candidates
      <4>11. proof \in Trees!Proofs \ {"none"}
        BY <4>10 DEF Trees!Candidate
      <4>12. proof # "merged-pr" => v10.candidates[b].work \subseteq Trees!Content(v3)
        BY <1>0, <4>9 DEF Trees!ProvenIsOnBase
      <4>13. ASSUME NEW l \in v12', l \notin v12
            PROVE  l \in Trees!Loss /\ l.by = "sweep" /\ (l.seen => l.proof = "merged-pr") /\ l.proof # "ancestor"
        <5>1. PICK c \in v1[b].work \ Trees!Kept(v1', v2, v6, v9) :
                 l = [change |-> c, by |-> "sweep", proof |-> proof, seen |-> c \in v10.candidates[b].work]
          BY <3>b, <4>13
        <5>2. c \notin Trees!Content(v3) /\ c \in Changes
          BY <1>0, <4>2, <5>1, KeptHolds, HeadFields DEF ChangeSets
        <5> DEFINE seen == c \in v10.candidates[b].work
        <5>3. seen => proof = "merged-pr"
          BY <4>12, <5>2
        <5>4. seen \in BOOLEAN
          OBVIOUS
        <5>5. proof # "ancestor"
          <6> SUFFICES ASSUME proof = "ancestor" PROVE FALSE
            OBVIOUS
          <6>1. v1[b].work \subseteq v4.commits
            BY <3>b DEF Trees!GitDeletes
          <6> QED
            BY <1>0, <5>1, <5>2, <6>1 DEF Trees!FetchedIsOnBase
        <5>6. l = [change |-> c, by |-> "sweep", proof |-> proof, seen |-> seen]
          BY <5>1
        <5> HIDE DEF seen, proof
        <5>7. l \in Trees!Loss /\ l.by = "sweep" /\ l.proof = proof /\ l.seen = seen
          BY <4>11, <5>2, <5>4, <5>6 DEF Trees!Loss
        <5> QED
          BY <5>3, <5>5, <5>7
      <4>14. LostKept'
        BY <1>0, <4>13 DEF LostKept
      <4>15. Trees!KeepsWork'
        <5>1. \A l \in v12' : l \in v12 \/ (l.by = "sweep" /\ (l.seen => l.proof = "merged-pr") /\ l.proof # "ancestor")
          BY <4>13
        <5>2. \A l \in v12 : (l.by = "remove" => ~l.seen) /\ (l.by = "sweep" /\ l.seen => l.proof = "merged-pr") /\ l.proof # "ancestor"
          BY <1>0 DEF Trees!KeepsWork, Trees!EditsSeenAreRescued, Trees!LocalProofsHold, Trees!AncestryDropsNothing
        <5>3. \A l \in v12' : (l.by = "remove" => ~l.seen) /\ (l.by = "sweep" /\ l.seen => l.proof = "merged-pr") /\ l.proof # "ancestor"
          BY <5>1, <5>2
        <5> QED
          BY <5>3 DEF Trees!KeepsWork, Trees!EditsSeenAreRescued, Trees!LocalProofsHold, Trees!AncestryDropsNothing
      <4> QED
        BY <4>1, <4>3, <4>8, <4>14, <4>15
    <3> QED
      BY <1>22, <3>a, <3>b DEF Trees!DeleteBranch
  <2>f. RemoteKept' /\ TrunksKept' /\ TreesKept' /\ CreatorKept' /\ RescuedKept' /\ RemovalsKept' /\ Trees!FetchedIsOnBase' /\ Trees!SawIsAnchored'
    BY <2>u, <1>f2, <1>f3, <1>f4, <1>f6, <1>f7, <1>f9, <1>f11, <1>f12
  <2> QED
    BY <2>1, <2>f
<1>23. ASSUME Trees!SweepPrune
      PROVE  Goal
  <2>u. UNCHANGED <<v1, v2, v3, v4, v5, v6, v8, v9, v11, v12>>
    BY <1>23 DEF Trees!SweepPrune, Trees!git, Trees!commands
  <2>1. SweepKept' /\ Trees!ProvenIsOnBase' /\ Trees!TargetIsCandidate'
    BY <1>23, SweepEnded DEF Trees!SweepPrune
  <2>2. TreesNested'
    BY <1>0, <1>23, <2>u DEF Trees!SweepPrune, TreesNested
  <2>f. HeadsKept' /\ RemoteKept' /\ TrunksKept' /\ TreesKept' /\ CreatorKept' /\ RescuedKept' /\ RemovalsKept' /\ LostKept' /\ Trees!FetchedIsOnBase' /\ Trees!SawIsAnchored' /\ Trees!KeepsWork'
    BY <2>u, <1>f1, <1>f2, <1>f3, <1>f4, <1>f6, <1>f7, <1>f9, <1>f10, <1>f11, <1>f12, <1>f15
  <2> QED
    BY <2>1, <2>2, <2>f
<1>t. (HeadsKept /\ RemoteKept /\ TrunksKept /\ TreesKept /\ TreesNested /\ CreatorKept
       /\ RescuedKept /\ SweepKept /\ RemovalsKept /\ LostKept)' => Trees!TypeOK'
  BY TreesTyped, PTL
<1> HIDE DEF Goal
<1>g. Goal
  BY <1>1, <1>2, <1>3, <1>4, <1>5, <1>6, <1>7, <1>8, <1>9, <1>10, <1>11, <1>12, <1>13, <1>14, <1>15, <1>16, <1>17, <1>18, <1>19, <1>20, <1>21, <1>22, <1>23 DEF Trees!Next, Trees!Session, Trees!Forge, Trees!Create, Trees!Removal, Trees!Sweep
<1> QED
  BY <1>t, <1>g DEF Goal, Trees!IInv

LEMMA TreesRests == Trees!IInv /\ UNCHANGED Trees!vars => Trees!IInv'
<1> SUFFICES ASSUME Trees!IInv, UNCHANGED Trees!vars PROVE Trees!IInv'
  OBVIOUS
<1>0. UNCHANGED <<v1, v2, v3, v4, v5, v6, v7, v8, v9, v10, v11, v12>> /\ Trees!IInv
  BY DEF Trees!vars, Trees!git
<1>1. Trees!TypeOK'
  BY <1>0 DEF Trees!IInv, Trees!TypeOK
<1>2. Trees!FetchedIsOnBase'
  BY <1>0 DEF Trees!IInv, Trees!FetchedIsOnBase, Trees!Content
<1>3. Trees!SawIsAnchored'
  BY <1>0 DEF Trees!IInv, Trees!SawIsAnchored
<1>4. Trees!ProvenIsOnBase'
  BY <1>0 DEF Trees!IInv, Trees!ProvenIsOnBase, Trees!Content
<1>5. Trees!TargetIsCandidate'
  BY <1>0 DEF Trees!IInv, Trees!TargetIsCandidate
<1>6. Trees!KeepsWork'
  BY <1>0 DEF Trees!IInv, Trees!KeepsWork, Trees!EditsSeenAreRescued, Trees!LocalProofsHold, Trees!AncestryDropsNothing
<1> QED
  BY <1>1, <1>2, <1>3, <1>4, <1>5, <1>6 DEF Trees!IInv

LEMMA TreesHold == Spec => [](part = "worktrees" => Trees!IInv)
<1> DEFINE Kept == part = "worktrees" => Trees!IInv
<1>1. Init => Kept
  BY TreesStart DEF Init
<1>2. Kept /\ [Next]_vars => Kept'
  BY TreesNext, TreesRests DEF Next, vars, Trees!vars, Trees!git
<1> QED
  BY <1>1, <1>2, PTL DEF Spec

\* Whatever sessions, the forge, removals and the sweep do between each other's
\* steps, a removal discards no edit it could have seen and the sweep drops work
\* it saw only on the word of the forge (internal/cli/worktree.go,
\* internal/cli/git_sweep.go).
THEOREM WorktreesAlwaysKeepWork == Spec => []WorktreesKeepWork
<1>1. (part = "worktrees" => Trees!IInv) => WorktreesKeepWork
  BY DEF WorktreesKeepWork, Trees!IInv, Trees!KeepsWork
<1> QED
  BY <1>1, TreesHold, PTL

-----------------------------------------------------------------------------
(* The audit of a repository: what it saw and what it fixed.               *)

AuditPcs == {"idle", "list", "inspect", "repo", "remote", "prune", "sweep", "hooks", "write"}
AuditFlags == BOOLEAN
AuditPlaces == SUBSET Audit!Places
AuditSets == SUBSET Audit!Checkouts
AuditFound == SUBSET Audit!Violations
AuditVerdicts == Audit!Statuses
AuditRuns == [pc : AuditPcs, apply : AuditFlags, listed : AuditPlaces, todo : AuditSets, nodes : AuditSets,
              found : AuditFound, protection : AuditVerdicts]
AuditReports == [found : AuditFound, protection : AuditVerdicts]
AuditTree ==
    /\ v1 \in [Audit!Places -> {"absent", "empty", "tree"}]
    /\ v2 \subseteq Audit!Places /\ v3 \subseteq Audit!Places /\ v4 \subseteq Audit!Checkouts
AuditCount == faults \in 0 .. MaxFaults /\ v7 \in BOOLEAN

LEMMA AuditTyped == Audit!TypeOK <=> AuditTree /\ v5 \in AuditRuns /\ v6 \in AuditReports /\ AuditCount
BY DEF Audit!TypeOK, AuditTree, AuditRuns, AuditReports, AuditCount, AuditPcs, AuditFlags, AuditPlaces, AuditSets,
   AuditFound, AuditVerdicts

LEMMA AuditMembers ==
    /\ \A pc \in {"idle", "list", "inspect", "repo", "remote", "prune", "sweep", "hooks", "write"} : pc \in AuditPcs
    /\ TRUE \in AuditFlags /\ FALSE \in AuditFlags
    /\ {} \in AuditPlaces /\ {} \in AuditSets /\ {} \in AuditFound
    /\ \A status \in {"unread", "match", "drift", "gap", "unverified"} : status \in AuditVerdicts
    /\ \A S \in AuditFound, T \in AuditFound : S \cup T \in AuditFound
    /\ \A S \in AuditPlaces : S \cup {Main} \in AuditSets
    /\ \A S \in AuditSets, p \in Audit!Checkouts : S \cup {p} \in AuditSets /\ S \ {p} \in AuditSets
    /\ Main \in Audit!Checkouts /\ Audit!Places \subseteq Audit!Checkouts
BY DEF AuditPcs, AuditFlags, AuditPlaces, AuditSets, AuditFound, AuditVerdicts, Audit!Statuses, Audit!Checkouts

LEMMA AuditGoes ==
    ASSUME NEW r \in AuditRuns, NEW pc \in AuditPcs
    PROVE  /\ [r EXCEPT !.pc = pc] \in AuditRuns
           /\ [r EXCEPT !.pc = pc].pc = pc /\ [r EXCEPT !.pc = pc].apply = r.apply
           /\ [r EXCEPT !.pc = pc].nodes = r.nodes /\ [r EXCEPT !.pc = pc].found = r.found
           /\ [r EXCEPT !.pc = pc].listed = r.listed /\ [r EXCEPT !.pc = pc].todo = r.todo
BY DEF AuditRuns

LEMMA AuditFields ==
    ASSUME NEW r \in AuditRuns
    PROVE  /\ r.pc \in AuditPcs /\ r.apply \in BOOLEAN /\ r.listed \in AuditPlaces /\ r.todo \in AuditSets
           /\ r.nodes \in AuditSets /\ r.found \in AuditFound /\ r.protection \in AuditVerdicts
BY DEF AuditRuns, AuditFlags

\* What a checkout violates is a violation, and a drift exactly when it lacks hooks.
LEMMA AuditViolations ==
    ASSUME NEW p \in Audit!Checkouts
    PROVE  /\ Audit!ViolationsOf(p) \in AuditFound
           /\ <<"hooks_drift", p>> \in Audit!ViolationsOf(p) <=> p \notin v4
BY DEF Audit!ViolationsOf, AuditFound, Audit!Violations, Audit!Codes, Audit!HooksDrift

LEMMA AuditStarts == ASSUME Audit!Init PROVE Audit!IInv
<1>1. Audit!Idle \in AuditRuns /\ Audit!NoReport \in AuditReports
  BY AuditMembers DEF Audit!Idle, Audit!NoReport, AuditRuns, AuditReports
<1>2. AuditTree
  BY AuditMembers DEF Audit!Init, AuditTree
<1>3. AuditCount
  <2>1. faults = 0 /\ v7 = FALSE /\ MaxFaults \in Nat
    BY ConstantsAssumption DEF Audit!Init, Audit!BoundsAssumption
  <2>2. faults \in 0 .. MaxFaults
    BY <2>1
  <2> QED
    BY <2>1, <2>2 DEF AuditCount
<1>4. Audit!TypeOK
  BY <1>1, <1>2, <1>3, AuditTyped DEF Audit!Init
<1> QED
  BY <1>4 DEF Audit!IInv, Audit!Init

LEMMA AuditNext == ASSUME Audit!IInv, Audit!Next PROVE Audit!IInv'
<1>0. /\ AuditTree /\ v5 \in AuditRuns /\ v6 \in AuditReports /\ AuditCount
      /\ v7 /\ faults = 0 => Audit!SeesWhatHolds /\ Audit!FixesHold
  BY AuditTyped DEF Audit!IInv
<1>f. /\ v5.pc \in AuditPcs /\ v5.apply \in BOOLEAN /\ v5.listed \in AuditPlaces /\ v5.todo \in AuditSets
      /\ v5.nodes \in AuditSets /\ v5.found \in AuditFound /\ v5.protection \in AuditVerdicts
  BY <1>0, AuditFields
<1>t. Audit!TypeOK' <=> AuditTree' /\ v5' \in AuditRuns /\ v6' \in AuditReports /\ AuditCount'
  BY DEF Audit!TypeOK, AuditTree, AuditRuns, AuditReports, AuditCount, AuditPcs, AuditFlags, AuditPlaces, AuditSets,
     AuditFound, AuditVerdicts
<1>b. MaxFaults \in Nat /\ Main \notin Audit!Places
  BY ConstantsAssumption DEF Audit!BoundsAssumption, Audit!Places
<1>1. ASSUME NEW apply \in BOOLEAN, Audit!Start(apply) PROVE Audit!IInv'
  <2>1. /\ v5' \in AuditRuns /\ v5'.pc = "list" /\ v5'.nodes = {} /\ v5'.found = {} /\ v5'.todo = {}
        /\ v6' \in AuditReports
    BY <1>1, AuditMembers DEF Audit!Start, Audit!Idle, Audit!NoReport, AuditRuns, AuditReports, AuditFlags
  <2>2. Audit!TypeOK'
    BY <1>0, <1>1, <1>t, <2>1 DEF Audit!Start, Audit!tree, Audit!Fine, AuditTree, AuditCount
  <2>3. Audit!SeesWhatHolds' /\ Audit!FixesHold'
    BY <2>1 DEF Audit!SeesWhatHolds, Audit!FixesHold, Audit!Fixing
  <2> QED
    BY <2>2, <2>3 DEF Audit!IInv
<1>2. ASSUME Audit!List PROVE Audit!IInv'
  <2> DEFINE gone == {"prunable_registry_entry"} \X Audit!Prunable
             to == [v5 EXCEPT !.pc = "inspect", !.listed = v2, !.todo = v2 \cup {Main}, !.found = gone]
  <2>1. gone \in AuditFound /\ v2 \in AuditPlaces /\ v2 \cup {Main} \in AuditSets /\ "inspect" \in AuditPcs
    <3>1. v2 \in AuditPlaces
      BY <1>0 DEF AuditTree, AuditPlaces
    <3>2. Audit!Prunable \subseteq Audit!Checkouts
      BY <1>0, AuditMembers DEF Audit!Prunable, AuditTree
    <3>3. "prunable_registry_entry" \in Audit!Codes
      BY DEF Audit!Codes
    <3>4. gone \in AuditFound
      BY <3>2, <3>3 DEF AuditFound, Audit!Violations
    <3> QED
      BY <3>1, <3>4, AuditMembers
  <2> HIDE DEF gone
  <2>2. /\ to \in AuditRuns /\ to.pc = "inspect" /\ to.listed = v2 /\ to.todo = v2 \cup {Main} /\ to.found = gone
        /\ to.nodes = v5.nodes
    BY <1>0, <2>1 DEF AuditRuns
  <2>3. v5' = to
    BY <1>2 DEF Audit!List, gone
  <2> HIDE DEF to
  <2>4. Audit!TypeOK'
    BY <1>0, <1>2, <1>t, <2>2, <2>3 DEF Audit!List, Audit!Silent, Audit!tree, Audit!Fine, AuditTree, AuditCount
  <2>5. ASSUME v7', faults' = 0 PROVE Audit!SeesWhatHolds' /\ Audit!FixesHold'
    <3>1. v5.nodes = {}
      BY <1>0, <1>2, <2>5 DEF Audit!List, Audit!Silent, Audit!Fine, Audit!SeesWhatHolds
    <3>2. UNCHANGED <<v1, v2, v3, v4>>
      BY <1>2 DEF Audit!List, Audit!tree
    <3>3. Audit!Whole' \ v5'.todo = {} /\ Audit!Prunable' = Audit!Prunable
      BY <2>2, <2>3, <3>2 DEF Audit!Whole, Audit!Prunable
    <3>4. Audit!NodesAre(Audit!Whole \ v5.todo)'
      BY <2>2, <2>3, <3>1, <3>3 DEF Audit!NodesAre, gone
    <3> QED
      BY <2>2, <2>3, <3>2, <3>4 DEF Audit!SeesWhatHolds, Audit!FixesHold, Audit!Fixing
  <2> QED
    BY <2>4, <2>5 DEF Audit!IInv
<1>3. ASSUME Audit!Inspect PROVE Audit!IInv'
  <2>0. v5.pc = "inspect" /\ UNCHANGED <<v1, v2, v3, v4, v6, v7, faults>>
    BY <1>3 DEF Audit!Inspect, Audit!Silent, Audit!tree, Audit!Fine
  <2>w. Audit!Whole' = Audit!Whole /\ Audit!Prunable' = Audit!Prunable
    BY <2>0 DEF Audit!Whole, Audit!Prunable
  <2>v. \A p \in Audit!Checkouts : Audit!ViolationsOf(p)' = Audit!ViolationsOf(p)
    BY <2>0 DEF Audit!ViolationsOf, Audit!HooksDrift
  <2>x. Audit!Whole \subseteq Audit!Checkouts
    BY <1>0, AuditMembers DEF Audit!Whole, AuditTree
  <2>1. ASSUME v5.todo = {} PROVE Audit!IInv'
    <3>1. /\ v5' \in AuditRuns /\ v5'.pc = "repo" /\ v5'.nodes = v5.nodes /\ v5'.found = v5.found
          /\ v5'.listed = v5.listed /\ v5'.todo = v5.todo
      <4>1. v5' = [v5 EXCEPT !.pc = "repo"]
        BY <1>3, <2>1 DEF Audit!Inspect, Audit!Go
      <4> QED
        BY <1>0, <4>1, AuditGoes, AuditMembers
    <3>2. Audit!TypeOK'
      BY <1>0, <1>t, <2>0, <3>1 DEF AuditTree, AuditCount
    <3>3. ASSUME v7', faults' = 0 PROVE Audit!SeesWhatHolds' /\ Audit!FixesHold'
      <4>1. /\ v5.listed = v2 /\ Audit!NodesAre(Audit!Whole \ v5.todo)
        BY <1>0, <2>0, <3>3 DEF Audit!SeesWhatHolds
      <4>2. Audit!NodesAre(Audit!Whole \ v5.todo)'
        BY <2>w, <2>v, <2>x, <3>1, <4>1 DEF Audit!NodesAre
      <4> QED
        BY <2>0, <2>1, <3>1, <4>1, <4>2 DEF Audit!SeesWhatHolds, Audit!FixesHold, Audit!Fixing
    <3> QED
      BY <3>2, <3>3 DEF Audit!IInv
  <2>2. ASSUME v5.todo # {} PROVE Audit!IInv'
    <3>1. PICK p \in v5.todo :
              IF p = Main \/ (p \in Audit!Places /\ v1[p] = "tree")
              THEN v5' = [v5 EXCEPT !.todo = @ \ {p}, !.nodes = @ \cup {p}, !.found = @ \cup Audit!ViolationsOf(p)]
              ELSE v5' = [v5 EXCEPT !.todo = @ \ {p}]
      BY <1>3, <2>2 DEF Audit!Inspect
    <3>2. p \in Audit!Checkouts
      BY <1>f, <3>1 DEF AuditSets
    <3> DEFINE todo == v5.todo \ {p}
               nodes == v5.nodes \cup {p}
               found == v5.found \cup Audit!ViolationsOf(p)
    <3>3. todo \in AuditSets /\ nodes \in AuditSets /\ found \in AuditFound
      BY <1>f, <3>2, AuditMembers, AuditViolations
    <3>4. ASSUME p = Main \/ (p \in Audit!Places /\ v1[p] = "tree") PROVE Audit!IInv'
      <4>1. v5' = [v5 EXCEPT !.todo = todo, !.nodes = nodes, !.found = found]
        BY <3>1, <3>4
      <4> HIDE DEF todo, nodes, found
      <4>2. /\ v5' \in AuditRuns /\ v5'.pc = "inspect" /\ v5'.todo = todo /\ v5'.nodes = nodes
            /\ v5'.found = found /\ v5'.listed = v5.listed
        BY <1>0, <2>0, <3>3, <4>1 DEF AuditRuns
      <4>3. Audit!TypeOK'
        BY <1>0, <1>t, <2>0, <4>2 DEF AuditTree, AuditCount
      <4>4. ASSUME v7', faults' = 0 PROVE Audit!SeesWhatHolds' /\ Audit!FixesHold'
        <5>1. /\ v5.listed = v2 /\ v5.todo \subseteq v2 \cup {Main} /\ Audit!NodesAre(Audit!Whole \ v5.todo)
          BY <1>0, <2>0, <4>4 DEF Audit!SeesWhatHolds
        <5>2. p \in Audit!Whole
          BY <1>b, <3>1, <3>4, <5>1 DEF Audit!Whole
        <5>3. Audit!Whole \ todo = (Audit!Whole \ v5.todo) \cup {p}
          BY <3>1, <5>2 DEF todo
        <5>4. nodes = Audit!Whole \ todo
          BY <5>1, <5>3 DEF nodes, Audit!NodesAre
        <5>5. found = ({"prunable_registry_entry"} \X Audit!Prunable)
                          \cup UNION {Audit!ViolationsOf(q) : q \in Audit!Whole \ todo}
          BY <5>1, <5>3 DEF found, Audit!NodesAre
        <5>6. UNION {Audit!ViolationsOf(q) : q \in Audit!Whole \ todo}
                  = UNION {Audit!ViolationsOf(q)' : q \in Audit!Whole \ todo}
          BY <2>v, <2>x
        <5>7. Audit!NodesAre(Audit!Whole \ v5.todo)'
          BY <2>w, <4>2, <5>4, <5>5, <5>6 DEF Audit!NodesAre
        <5> QED
          BY <2>0, <4>2, <5>1, <5>7 DEF Audit!SeesWhatHolds, Audit!FixesHold, Audit!Fixing, todo
      <4> QED
        BY <4>3, <4>4 DEF Audit!IInv
    <3>5. ASSUME ~(p = Main \/ (p \in Audit!Places /\ v1[p] = "tree")) PROVE Audit!IInv'
      <4>1. v5' = [v5 EXCEPT !.todo = todo]
        BY <3>1, <3>5
      <4> HIDE DEF todo
      <4>2. /\ v5' \in AuditRuns /\ v5'.pc = "inspect" /\ v5'.todo = todo /\ v5'.nodes = v5.nodes
            /\ v5'.found = v5.found /\ v5'.listed = v5.listed
        BY <1>0, <2>0, <3>3, <4>1 DEF AuditRuns
      <4>3. Audit!TypeOK'
        BY <1>0, <1>t, <2>0, <4>2 DEF AuditTree, AuditCount
      <4>4. ASSUME v7', faults' = 0 PROVE Audit!SeesWhatHolds' /\ Audit!FixesHold'
        <5>1. /\ v5.listed = v2 /\ v5.todo \subseteq v2 \cup {Main} /\ Audit!NodesAre(Audit!Whole \ v5.todo)
          BY <1>0, <2>0, <4>4 DEF Audit!SeesWhatHolds
        <5>2. p \notin Audit!Whole
          BY <1>0, <3>5 DEF Audit!Whole, AuditTree
        <5>3. Audit!Whole \ todo = Audit!Whole \ v5.todo
          BY <5>2 DEF todo
        <5>4. Audit!NodesAre(Audit!Whole \ v5.todo)'
          BY <2>w, <2>v, <2>x, <4>2, <5>1, <5>3 DEF Audit!NodesAre
        <5> QED
          BY <2>0, <4>2, <5>1, <5>4 DEF Audit!SeesWhatHolds, Audit!FixesHold, Audit!Fixing, todo
      <4> QED
        BY <4>3, <4>4 DEF Audit!IInv
    <3> QED
      BY <3>4, <3>5
  <2> QED
    BY <2>1, <2>2
<1>4. ASSUME Audit!RepoLevel PROVE Audit!IInv'
  <2>0. v5.pc = "repo" /\ UNCHANGED <<v1, v2, v3, v4, v6, v7, faults>>
    BY <1>4 DEF Audit!RepoLevel, Audit!Silent, Audit!tree, Audit!Fine
  <2> DEFINE orphans == {"orphan_gitdir"} \X Audit!OrphansAgainst(v5.listed)
             found == v5.found \cup orphans
  <2>1. found \in AuditFound /\ "remote" \in AuditPcs
    BY <1>f, AuditMembers DEF AuditFound, Audit!OrphansAgainst, Audit!Violations, Audit!Codes, Audit!Checkouts, Audit!Places
  <2>2. v5' = [v5 EXCEPT !.pc = "remote", !.found = found]
    BY <1>4 DEF Audit!RepoLevel
  <2> HIDE DEF found
  <2>3. v5' \in AuditRuns /\ v5'.pc = "remote" /\ v5'.nodes = v5.nodes /\ v5'.found = found
    BY <1>0, <2>1, <2>2 DEF AuditRuns
  <2>4. Audit!TypeOK'
    BY <1>0, <1>t, <2>0, <2>3 DEF AuditTree, AuditCount
  <2>5. ASSUME v7', faults' = 0 PROVE Audit!SeesWhatHolds' /\ Audit!FixesHold'
    <3>1. /\ v5.listed = v2 /\ v5.todo = {} /\ Audit!NodesAre(Audit!Whole \ v5.todo)
      BY <1>0, <2>0, <2>5 DEF Audit!SeesWhatHolds
    <3>2. v5.nodes = Audit!Whole /\ found = Audit!Actual
      <4>1. Audit!Whole \ v5.todo = Audit!Whole
        BY <3>1
      <4> QED
        <5> DEFINE seen == UNION {Audit!ViolationsOf(p) : p \in Audit!Whole}
                   gone == {"prunable_registry_entry"} \X Audit!Prunable
                   stray == {"orphan_gitdir"} \X Audit!OrphansAgainst(v2)
        <5>1. Audit!Actual = (seen \cup gone) \cup stray
          BY DEF Audit!Actual
        <5>2. v5.nodes = Audit!Whole /\ v5.found = gone \cup seen
          BY <3>1, <4>1 DEF Audit!NodesAre
        <5>3. found = v5.found \cup stray
          BY <3>1 DEF found
        <5> HIDE DEF seen, gone, stray
        <5> QED
          BY <5>1, <5>2, <5>3
    <3>3. Audit!Whole' = Audit!Whole /\ Audit!Actual' = Audit!Actual
      BY <2>0 DEF Audit!Whole, Audit!Actual, Audit!ViolationsOf, Audit!HooksDrift, Audit!Prunable, Audit!OrphansAgainst
    <3> QED
      BY <2>0, <2>3, <3>2, <3>3 DEF Audit!SeesWhatHolds, Audit!FixesHold, Audit!Fixing
  <2> QED
    BY <2>4, <2>5 DEF Audit!IInv
<1>5. ASSUME Audit!RemoteProtection PROVE Audit!IInv'
  <2>0. v5.pc = "remote" /\ UNCHANGED <<v1, v2, v3, v4, v6, v7>>
    BY <1>5 DEF Audit!RemoteProtection, Audit!Silent, Audit!tree
  <2> DEFINE next == IF v5.apply THEN "prune" ELSE "write"
  <2>1. /\ next \in AuditPcs
        /\ \A live \in SUBSET Expected : Audit!ProtectionOf(live) \in AuditVerdicts
    BY AuditMembers DEF Audit!ProtectionOf
  <2>2. PICK status \in AuditVerdicts : v5' = [v5 EXCEPT !.pc = next, !.protection = status]
    BY <1>5, <2>1, AuditMembers DEF Audit!RemoteProtection
  <2>3. faults' = faults \/ (faults < MaxFaults /\ faults' = faults + 1)
    BY <1>5 DEF Audit!RemoteProtection, Audit!Fine, Audit!Fail
  <2> HIDE DEF next
  <2>4. /\ v5' \in AuditRuns /\ v5'.pc = next /\ v5'.nodes = v5.nodes /\ v5'.found = v5.found
        /\ v5'.apply = v5.apply
    BY <1>0, <2>1, <2>2 DEF AuditRuns
  <2>5. Audit!TypeOK'
    BY <1>0, <1>t, <1>b, <2>0, <2>3, <2>4 DEF AuditTree, AuditCount
  <2>6. ASSUME v7', faults' = 0 PROVE Audit!SeesWhatHolds' /\ Audit!FixesHold'
    <3>1. v5.nodes = Audit!Whole /\ v5.found = Audit!Actual
      BY <1>0, <1>b, <2>0, <2>3, <2>6 DEF Audit!SeesWhatHolds, AuditCount
    <3>2. Audit!Whole' = Audit!Whole /\ Audit!Actual' = Audit!Actual
      BY <2>0 DEF Audit!Whole, Audit!Actual, Audit!ViolationsOf, Audit!HooksDrift, Audit!Prunable, Audit!OrphansAgainst
    <3>3. /\ \A p \in v5.nodes : p = Main \/ (p \in Audit!Places /\ v1[p] = "tree")
          /\ \A p \in v5.nodes : p \notin v4 => <<"hooks_drift", p>> \in v5.found
      <4>1. \A p \in v5.nodes : p \in Audit!Checkouts /\ (p = Main \/ (p \in Audit!Places /\ v1[p] = "tree"))
        BY <1>0, <3>1, AuditMembers DEF Audit!Whole, AuditTree
      <4>2. \A p \in v5.nodes : Audit!ViolationsOf(p) \subseteq v5.found
        BY <3>1 DEF Audit!Actual, Audit!Whole
      <4> QED
        BY <4>1, <4>2, AuditViolations
    <3>4. Audit!SeesWhatHolds'
      BY <2>4, <3>1, <3>2 DEF Audit!SeesWhatHolds, next
    <3>5. Audit!FixesHold'
      BY <2>0, <2>4, <3>3 DEF Audit!FixesHold, Audit!Fixing, next
    <3> QED
      BY <3>4, <3>5
  <2> QED
    BY <2>5, <2>6 DEF Audit!IInv
<1>6. ASSUME Audit!Prune PROVE Audit!IInv'
  <2>0. v5.pc = "prune" /\ UNCHANGED <<v1, v3, v4, v6, v7>>
    BY <1>6 DEF Audit!Prune, Audit!Silent
  <2>1. \/ v2' = v2 \ Audit!Prunable /\ faults' = faults
        \/ v2' = v2 /\ faults < MaxFaults /\ faults' = faults + 1
    BY <1>6 DEF Audit!Prune, Audit!Fail, Audit!Fine
  <2>2. /\ v5' \in AuditRuns /\ v5'.pc = "sweep" /\ v5'.nodes = v5.nodes /\ v5'.found = v5.found
        /\ v5'.apply = v5.apply
    BY <1>0, <1>6, AuditGoes, AuditMembers DEF Audit!Prune, Audit!Go
  <2>3. Audit!TypeOK'
    BY <1>0, <1>t, <1>b, <2>0, <2>1, <2>2 DEF AuditTree, AuditCount
  <2>4. ASSUME v7', faults' = 0 PROVE Audit!SeesWhatHolds' /\ Audit!FixesHold'
    <3>1. v2' = v2 \ Audit!Prunable /\ Audit!FixesHold
      BY <1>0, <1>b, <2>0, <2>1, <2>4 DEF AuditCount
    <3>2. Audit!Prunable' = {}
      BY <2>0, <3>1 DEF Audit!Prunable
    <3> QED
      BY <2>0, <2>2, <3>1, <3>2 DEF Audit!SeesWhatHolds, Audit!FixesHold, Audit!Fixing
  <2> QED
    BY <2>3, <2>4 DEF Audit!IInv
<1>7. ASSUME Audit!RemoveEmpty PROVE Audit!IInv'
  <2>0. v5.pc = "sweep" /\ UNCHANGED <<v2, v3, v4, v6, v7>>
    BY <1>7 DEF Audit!RemoveEmpty, Audit!Silent
  <2> DEFINE empty == {p \in Canonical : Audit!RootIsTheRepos /\ v1[p] = "empty"}
  <2>1. \/ v1' = [p \in Audit!Places |-> IF p \in empty THEN "absent" ELSE v1[p]] /\ faults' = faults
        \/ v1' = v1 /\ faults < MaxFaults /\ faults' = faults + 1
    BY <1>7 DEF Audit!RemoveEmpty, Audit!Fail, Audit!Fine
  <2>2. /\ v5' \in AuditRuns /\ v5'.pc = "hooks" /\ v5'.nodes = v5.nodes /\ v5'.found = v5.found
        /\ v5'.apply = v5.apply
    BY <1>0, <1>7, AuditGoes, AuditMembers DEF Audit!RemoveEmpty, Audit!Go
  <2> HIDE DEF empty
  <2>3. Audit!TypeOK'
    BY <1>0, <1>t, <1>b, <2>0, <2>1, <2>2 DEF AuditTree, AuditCount
  <2>4. ASSUME v7', faults' = 0 PROVE Audit!SeesWhatHolds' /\ Audit!FixesHold'
    <3>1. v1' = [p \in Audit!Places |-> IF p \in empty THEN "absent" ELSE v1[p]] /\ Audit!FixesHold
      BY <1>0, <1>b, <2>0, <2>1, <2>4 DEF AuditCount
    <3>2. \A p \in Audit!Places : (v1'[p] = "tree" <=> v1[p] = "tree") /\ (v1'[p] = "empty" => v1[p] = "empty" /\ p \notin empty)
      BY <3>1 DEF empty
    <3>3. Audit!Prunable' = {}
      BY <1>0, <2>0, <3>1, <3>2 DEF Audit!FixesHold, Audit!Fixing, Audit!Prunable, AuditTree
    <3>4. Audit!RootIsTheRepos' => \A p \in Canonical : v1'[p] # "empty"
      BY <2>2, <3>2 DEF Audit!RootIsTheRepos, Audit!Places, empty
    <3>5. /\ \A p \in v5.nodes : p = Main \/ (p \in Audit!Places /\ v1'[p] = "tree")
          /\ \A p \in v5.nodes : p \notin v4 => <<"hooks_drift", p>> \in v5.found
          /\ v5.apply
      BY <2>0, <3>1, <3>2 DEF Audit!FixesHold, Audit!Fixing
    <3>6. Audit!FixesHold'
      BY <2>0, <2>2, <3>3, <3>4, <3>5 DEF Audit!FixesHold, Audit!Fixing
    <3> QED
      BY <2>2, <3>6 DEF Audit!SeesWhatHolds
  <2> QED
    BY <2>3, <2>4 DEF Audit!IInv
<1>8. ASSUME Audit!ReinstallHooks PROVE Audit!IInv'
  <2>0. v5.pc = "hooks" /\ UNCHANGED <<v1, v2, v3, v6, v7>>
    BY <1>8 DEF Audit!ReinstallHooks, Audit!Silent, Audit!tree
  <2> DEFINE drifted == {p \in v5.nodes : <<"hooks_drift", p>> \in v5.found}
             fixed == {p \in drifted : p = Main \/ (p \in Audit!Places /\ v1[p] = "tree")}
  <2>1. \/ v4' = v4 \cup fixed /\ faults' = faults
        \/ v4' = v4 /\ faults < MaxFaults /\ faults' = faults + 1
    BY <1>8 DEF Audit!ReinstallHooks, Audit!Fail, Audit!Fine
  <2>2. /\ v5' \in AuditRuns /\ v5'.pc = "write" /\ v5'.nodes = v5.nodes /\ v5'.found = v5.found
        /\ v5'.apply = v5.apply
    BY <1>0, <1>8, AuditGoes, AuditMembers DEF Audit!ReinstallHooks, Audit!Go
  <2>3. Audit!TypeOK'
    <3>1. fixed \subseteq Audit!Checkouts
      BY <1>f DEF AuditSets
    <3> HIDE DEF fixed
    <3>2. AuditTree'
      BY <1>0, <2>0, <2>1, <3>1 DEF AuditTree
    <3>3. AuditCount'
      BY <1>0, <1>b, <2>0, <2>1 DEF AuditCount
    <3> QED
      BY <1>0, <1>t, <2>0, <2>2, <3>2, <3>3
  <2>4. ASSUME v7', faults' = 0 PROVE Audit!SeesWhatHolds' /\ Audit!FixesHold'
    <3>1. v4' = v4 \cup fixed /\ Audit!FixesHold
      BY <1>0, <1>b, <2>0, <2>1, <2>4 DEF AuditCount
    <3>2. v5.nodes \subseteq v4'
      BY <2>0, <3>1 DEF Audit!FixesHold, Audit!Fixing
    <3>3. Audit!Prunable' = {} /\ v5.apply /\ (Audit!RootIsTheRepos' => \A p \in Canonical : v1'[p] # "empty")
      BY <2>0, <2>2, <3>1 DEF Audit!FixesHold, Audit!Fixing, Audit!Prunable, Audit!RootIsTheRepos
    <3>4. \A p \in v5.nodes : p = Main \/ (p \in Audit!Places /\ v1'[p] = "tree")
      BY <2>0, <3>1 DEF Audit!FixesHold, Audit!Fixing
    <3>5. Audit!FixesHold'
      BY <2>2, <3>2, <3>3, <3>4 DEF Audit!FixesHold, Audit!Fixing
    <3> QED
      BY <2>2, <3>3, <3>5 DEF Audit!SeesWhatHolds
  <2> QED
    BY <2>3, <2>4 DEF Audit!IInv
<1>9. ASSUME Audit!WriteReport PROVE Audit!IInv'
  <2>1. v5' \in AuditRuns
    BY <1>9, AuditMembers DEF Audit!WriteReport, Audit!Idle, AuditRuns
  <2>2. v6' \in AuditReports
    BY <1>0, <1>f, <1>9 DEF Audit!WriteReport, AuditReports
  <2>3. faults' = faults \/ (faults < MaxFaults /\ faults' = faults + 1)
    BY <1>9 DEF Audit!WriteReport, Audit!Fine, Audit!Fail
  <2>4. UNCHANGED <<v1, v2, v3, v4>> /\ v7' = FALSE
    BY <1>9 DEF Audit!WriteReport, Audit!tree
  <2>5. Audit!TypeOK'
    <3>1. AuditTree'
      BY <1>0, <2>4 DEF AuditTree
    <3>2. AuditCount'
      <4>1. faults' \in 0 .. MaxFaults
        BY <1>0, <1>b, <2>3 DEF AuditCount
      <4> QED
        BY <2>4, <4>1 DEF AuditCount
    <3> QED
      BY <1>t, <2>1, <2>2, <3>1, <3>2
  <2> QED
    BY <2>4, <2>5 DEF Audit!IInv
<1>10. ASSUME NEW p \in Audit!Places, Audit!Mkdir(p) \/ Audit!AddWorktree(p) \/ Audit!Vanish(p) \/ Audit!Age(p)
       PROVE  Audit!IInv'
  <2>1. Audit!Other
    BY <1>10 DEF Audit!Mkdir, Audit!AddWorktree, Audit!Vanish, Audit!Age
  <2>2. v6' \in AuditReports /\ v5' = v5 /\ v7' = FALSE /\ faults' = faults
    BY <2>1, AuditMembers DEF Audit!Other, Audit!NoReport, AuditReports
  <2>3. AuditTree'
    BY <1>0, <1>10 DEF Audit!Mkdir, Audit!AddWorktree, Audit!Vanish, Audit!Age, AuditTree, Audit!Checkouts
  <2> QED
    BY <1>0, <1>t, <2>2, <2>3 DEF Audit!IInv, AuditCount
<1> QED
  BY <1>1, <1>2, <1>3, <1>4, <1>5, <1>6, <1>7, <1>8, <1>9, <1>10 DEF Audit!Next

LEMMA AuditRests == Audit!IInv /\ UNCHANGED Audit!vars => Audit!IInv'
<1> SUFFICES ASSUME Audit!IInv, UNCHANGED Audit!vars PROVE Audit!IInv'
  OBVIOUS
<1>1. UNCHANGED <<v1, v2, v3, v4, v5, v6, v7, faults>>
  BY DEF Audit!vars
<1>2. Audit!TypeOK'
  BY <1>1 DEF Audit!IInv, Audit!TypeOK
<1>3. Audit!SeesWhatHolds => Audit!SeesWhatHolds'
  BY <1>1 DEF Audit!SeesWhatHolds, Audit!NodesAre, Audit!Whole, Audit!Actual, Audit!ViolationsOf, Audit!HooksDrift,
     Audit!Prunable, Audit!OrphansAgainst
<1>4. Audit!FixesHold => Audit!FixesHold'
  BY <1>1 DEF Audit!FixesHold, Audit!Fixing, Audit!Prunable, Audit!RootIsTheRepos
<1> QED
  BY <1>1, <1>2, <1>3, <1>4 DEF Audit!IInv

LEMMA AuditHolds == Spec => [](part = "audit" => Audit!IInv)
<1> DEFINE Kept == part = "audit" => Audit!IInv
<1>1. Init => Kept
  BY AuditStarts DEF Init
<1>2. Kept /\ [Next]_vars => Kept'
  BY AuditNext, AuditRests DEF Next, vars, Audit!vars
<1> QED
  BY <1>1, <1>2, PTL DEF Spec

\* The report of an audit that nobody disturbed is exactly what holds, and its
\* fixes leave no entry to prune, no drifted hook and no empty orphan behind,
\* for any worktrees under any roots - but where a legacy worktree misleads the
\* sweep (internal/cli/git_handlers.go).
THEOREM AuditAlwaysTellsAndSettles == Spec => AuditTellsAndSettles
<1>1. Audit!IInv /\ [Next]_vars => (part = "audit" => Audit!AuditTellsAndSettles)
  <2> SUFFICES ASSUME Audit!IInv, [Next]_vars, part = "audit", v5.pc = "write", v5'.pc = "idle", v7, faults = 0, faults' = 0
               PROVE  IF ~v5.apply THEN v6'.found = Audit!Actual
                      ELSE /\ Audit!Prunable = {} /\ v5.nodes \subseteq v4
                           /\ Audit!RootIsTheRepos => \A p \in Canonical : v1[p] # "empty"
    BY DEF Audit!AuditTellsAndSettles
  <2>1. Audit!Next
    BY DEF Next, vars
  <2>2. Audit!WriteReport
    BY <2>1 DEF Audit!Next, Audit!Start, Audit!List, Audit!Inspect, Audit!RepoLevel, Audit!RemoteProtection, Audit!Prune,
       Audit!RemoveEmpty, Audit!ReinstallHooks, Audit!Mkdir, Audit!AddWorktree, Audit!Vanish, Audit!Age, Audit!Other
  <2>3. v6' = [found |-> v5.found, protection |-> v5.protection]
    BY <2>2 DEF Audit!WriteReport, Audit!Fail
  <2>4. Audit!SeesWhatHolds /\ Audit!FixesHold
    BY DEF Audit!IInv
  <2>5. ASSUME ~v5.apply PROVE v6'.found = Audit!Actual
    BY <2>3, <2>4, <2>5 DEF Audit!SeesWhatHolds
  <2>6. ASSUME v5.apply
        PROVE  /\ Audit!Prunable = {} /\ v5.nodes \subseteq v4
               /\ Audit!RootIsTheRepos => \A p \in Canonical : v1[p] # "empty"
    BY <2>4, <2>6 DEF Audit!FixesHold, Audit!Fixing
  <2> QED
    BY <2>5, <2>6
<1>2. Spec => [][part = "audit" => Audit!AuditTellsAndSettles]_vars
  BY <1>1, AuditHolds, PTL DEF Spec
<1> QED
  BY <1>2 DEF AuditTellsAndSettles

-----------------------------------------------------------------------------
(* The UI files a site copies: pins, copies and what waits beside them.    *)

UiTexts == Ui!Revisions \cup {Ui!Absent}
UiCopies == Ui!Revisions \cup {Ui!Absent, Ui!Mine}
UiFiles == [Files -> UiTexts]
UiTypes ==
    /\ v1 \in UiFiles /\ v2 \in 1 .. MaxVersion /\ v3 \in [1 .. v2 -> UiFiles]
    /\ v4 \in [Files -> UiCopies] /\ v5 \in UiFiles /\ v6 \in [Ui!Names -> 0 .. v2] /\ v7 \in UiFiles
UiCounts == v8 \in BOOLEAN /\ faults \in 0 .. MaxFaults
UiTells == Ui!PinTellsWhatIsIn /\ (v8 => Ui!TextsNeverComeBack /\ Ui!AsideIsIn)

LEMMA UiTyped == Ui!TypeOK <=> UiTypes /\ UiCounts
BY DEF Ui!TypeOK, UiTypes, UiCounts, UiTexts, UiCopies, UiFiles

LEMMA UiConstants ==
    /\ Units \subseteq Ui!Names /\ \A n \in Ui!Names : Refers[n] \in Units
    /\ Home \in [Files -> Units \cup {None}] /\ None \notin Units /\ None \notin Ui!Names
    /\ \A u \in Units : Refers[u] = u
    /\ MaxRevision \in Nat \ {0} /\ MaxVersion \in Nat \ {0} /\ MaxFaults \in Nat
BY ConstantsAssumption DEF Ui!UnitsAreNames

LEMMA UiNumbers ==
    /\ Ui!Absent \in UiTexts /\ Ui!Mine \notin UiTexts /\ Ui!Mine # Ui!Absent /\ 1 \in UiTexts
    /\ UiTexts \subseteq UiCopies /\ Ui!Mine \in UiCopies /\ Ui!Absent \notin Ui!Revisions /\ Ui!Mine \notin Ui!Revisions
BY UiConstants DEF UiTexts, UiCopies, Ui!Absent, Ui!Mine, Ui!Revisions

\* A step that pins the units of P at the release, and takes into account nothing
\* but the text of the release or what waited, leaves every pin telling the truth.
LEMMA UiPins ==
    ASSUME UiTypes, UiTells, UNCHANGED <<v2, v3>>, v8' => v8,
           NEW P, \A n \in Ui!Names : v6'[n] = IF n \in P THEN v2 ELSE v6[n],
           v8' => \A f \in Files :
                      /\ v7'[f] \in {v7[f], v3[v2][f]} \/ (v5[f] # Ui!Absent /\ v7'[f] = v5[f])
                      /\ v5'[f] \in {v5[f], Ui!Absent, v3[v2][f]},
           v8' => \A n \in P, f \in Files : n \in Ui!Names /\ Home[f] = Refers[n] =>
                      \/ v3[v2][f] = Ui!Absent
                      \/ v7'[f] = v3[v2][f] /\ v5'[f] \in {Ui!Absent, v3[v2][f]}
    PROVE  UiTells'
<1>1. v2 \in Nat \ {0} /\ \A n \in Ui!Names : v6[n] \in 0 .. v2
  BY UiConstants DEF UiTypes
<1>2. ASSUME v8', NEW n \in Ui!Names, v6'[n] # 0, NEW f \in Files, Home[f] = Refers[n]
      PROVE  /\ v3[v6'[n]][f] = Ui!Absent \/ v7'[f] \in {v3[w][f] : w \in v6'[n] .. v2}
             /\ v5'[f] # Ui!Absent => v3[v6'[n]][f] = Ui!Absent \/ v5'[f] \in {v3[w][f] : w \in v6'[n] .. v2}
  <2>1. CASE n \in P
    <3>1. v6'[n] = v2 /\ v2 \in v6'[n] .. v2
      BY <1>1, <2>1
    <3> QED
      BY <1>2, <2>1, <3>1
  <2>2. CASE n \notin P
    <3>1. v6'[n] = v6[n] /\ v2 \in v6[n] .. v2 /\ v6[n] # Ui!NoVersion /\ f \in Ui!FilesOf(Refers[n])
      BY <1>1, <1>2, <2>2 DEF Ui!NoVersion, Ui!FilesOf
    <3>2. /\ v3[v6[n]][f] = Ui!Absent \/ v7[f] \in {v3[w][f] : w \in v6[n] .. v2}
          /\ v5[f] # Ui!Absent => v3[v6[n]][f] = Ui!Absent \/ v5[f] \in {v3[w][f] : w \in v6[n] .. v2}
      BY <1>2, <3>1 DEF UiTells, Ui!PinTellsWhatIsIn, Ui!AsideIsIn
    <3> QED
      BY <1>2, <3>1, <3>2
  <2> QED
    BY <2>1, <2>2
<1>3. Ui!PinTellsWhatIsIn'
  BY <1>2 DEF Ui!PinTellsWhatIsIn, Ui!NoVersion, Ui!FilesOf
<1>4. v8' => Ui!AsideIsIn'
  BY <1>2 DEF Ui!AsideIsIn, Ui!NoVersion, Ui!FilesOf
<1>5. v8' => Ui!TextsNeverComeBack'
  BY DEF UiTells, Ui!TextsNeverComeBack
<1> QED
  BY <1>3, <1>4, <1>5 DEF UiTells

\* The same of a step that pins nothing.
LEMMA UiStays ==
    ASSUME UiTypes, UiTells, UNCHANGED <<v2, v3, v6>>, v8' => v8,
           v8' => \A f \in Files :
                      /\ v7'[f] \in {v7[f], v3[v2][f]} \/ (v5[f] # Ui!Absent /\ v7'[f] = v5[f])
                      /\ v5'[f] \in {v5[f], Ui!Absent, v3[v2][f]}
    PROVE  UiTells'
<1> DEFINE P == {}
<1>1. \A n \in Ui!Names : v6'[n] = IF n \in P THEN v2 ELSE v6[n]
  OBVIOUS
<1>2. \A n \in P, f \in Files : n \in Ui!Names /\ Home[f] = Refers[n] =>
          \/ v3[v2][f] = Ui!Absent
          \/ v7'[f] = v3[v2][f] /\ v5'[f] \in {Ui!Absent, v3[v2][f]}
  OBVIOUS
<1> HIDE DEF P
<1> QED
  BY <1>1, <1>2, UiPins

\* A text of the checkout at a release is the text of that release.
LEMMA UiReleased ==
    ASSUME UiTypes, Ui!AtRelease
    PROVE  \A f \in Files : v1[f] = v3[v2][f]
BY DEF Ui!AtRelease

\* What an import brings is there upstream, and of a unit it brings all there is.
LEMMA UiBrings ==
    ASSUME NEW g, NEW h \in Ui!Brings(g)
    PROVE  /\ h \in Files /\ v1[h] # Ui!Absent
           /\ Home[h] # None => Ui!Brings(g) = Ui!InTree(Home[h])
<1>1. CASE g \in Ui!Loose
  BY <1>1 DEF Ui!Brings, Ui!Loose, Ui!FilesOf
<1>2. CASE g \notin Ui!Loose
  <2>1. h \in Ui!InTree(Home[g]) /\ Ui!Brings(g) = Ui!InTree(Home[g])
    BY <1>2 DEF Ui!Brings
  <2>2. h \in Files /\ Home[h] = Home[g] /\ v1[h] # Ui!Absent
    BY <2>1 DEF Ui!InTree, Ui!FilesOf
  <2> QED
    BY <2>1, <2>2
<1> QED
  BY <1>1, <1>2

\* A unit with its dependencies: there upstream, closed under imports, and whole.
LEMMA UiDependencies ==
    ASSUME NEW u \in Units
    PROVE  /\ Ui!WithDependencies(u) \subseteq {f \in Files : v1[f] # Ui!Absent}
           /\ Ui!InTree(u) \subseteq Ui!WithDependencies(u)
           /\ Ui!Closed(Ui!WithDependencies(u))
           /\ \A f \in Ui!WithDependencies(u) : Home[f] # None => Ui!InTree(Home[f]) \subseteq Ui!WithDependencies(u)
<1> DEFINE there == {f \in Files : v1[f] # Ui!Absent}
           candidates == {S \in SUBSET there : Ui!InTree(u) \subseteq S /\ Ui!Closed(S)}
           W == {f \in Files : \A S \in candidates : f \in S}
<1>0. Ui!WithDependencies(u) = W
  BY DEF Ui!WithDependencies
<1>1. there \in candidates
  <2>1. Ui!InTree(u) \subseteq there
    BY DEF Ui!InTree, Ui!FilesOf
  <2>2. Ui!Closed(there)
    BY UiBrings DEF Ui!Closed
  <2> QED
    BY <2>1, <2>2
<1>2. W \subseteq there
  BY <1>1
<1>3. Ui!InTree(u) \subseteq W
  BY DEF Ui!InTree, Ui!FilesOf
<1>4. Ui!Closed(W)
  <2> SUFFICES ASSUME NEW f \in W, NEW g \in Imports[f][v1[f]], NEW h \in Ui!Brings(g) PROVE h \in W
    BY DEF Ui!Closed
  <2>1. \A S \in candidates : h \in S
    BY DEF Ui!Closed
  <2> QED
    BY <2>1, UiBrings
<1>5. \A f \in W : Home[f] # None => Ui!InTree(Home[f]) \subseteq W
  <2> DEFINE V == {f \in W : Home[f] # None => Ui!InTree(Home[f]) \subseteq W}
  <2>1. Ui!InTree(u) \subseteq V
    <3>1. \A f \in Ui!InTree(u) : Home[f] = u
      BY DEF Ui!InTree, Ui!FilesOf
    <3> QED
      BY <1>3, <3>1
  <2>2. Ui!Closed(V)
    <3> SUFFICES ASSUME NEW f \in V, NEW g \in Imports[f][v1[f]], NEW h \in Ui!Brings(g) PROVE h \in V
      BY DEF Ui!Closed
    <3>1. Ui!Brings(g) \subseteq W
      BY <1>4 DEF Ui!Closed
    <3> QED
      BY <3>1, UiBrings
  <2>3. V \in candidates
    BY <1>2, <2>1, <2>2
  <2> QED
    BY <2>3
<1> QED
  BY <1>0, <1>2, <1>3, <1>4, <1>5

\* What sync does with a file that is there upstream.
LEMMA UiClassified ==
    ASSUME UiTypes, NEW f \in Files, v1[f] # Ui!Absent, NEW v \in 1 .. v2
    PROVE  /\ Ui!Classify(f, v) \in {"new", "unchanged", "conflict", "local-kept", "fast-forward"}
           /\ Ui!Classify(f, v) = "local-kept" => v1[f] = v3[v][f]
           /\ Ui!Classify(f, v) \in {"new", "fast-forward"} => v4[f] # Ui!Mine
<1>1. v3[v][f] \in UiTexts /\ v3[v][f] # Ui!Mine
  BY UiNumbers DEF UiTypes, UiFiles
<1> QED
  BY <1>1, UiNumbers DEF Ui!Classify, Ui!GitBase

LEMMA UiStarts == ASSUME Ui!Init PROVE Ui!IInv
<1>1. /\ v1 = [f \in Files |-> 1] /\ v2 = 1 /\ v3 = [v \in {1} |-> v1] /\ v4 = [f \in Files |-> Ui!Absent]
      /\ v5 = [f \in Files |-> Ui!Absent] /\ v6 = [n \in Ui!Names |-> 0] /\ v7 = [f \in Files |-> Ui!Absent]
      /\ v8 = TRUE /\ faults = 0
  BY DEF Ui!Init, Ui!NoVersion
<1>2. 1 .. v2 = {1} /\ v2 \in 1 .. MaxVersion /\ 0 \in 0 .. v2
  BY <1>1, UiConstants
<1>3. UiTypes
  <2>1. v1 \in UiFiles /\ v5 \in UiFiles /\ v7 \in UiFiles /\ v4 \in [Files -> UiCopies]
    BY <1>1, UiNumbers DEF UiFiles
  <2>2. v3 \in [1 .. v2 -> UiFiles]
    BY <1>1, <1>2, <2>1
  <2>3. v6 \in [Ui!Names -> 0 .. v2]
    BY <1>1, <1>2
  <2> QED
    BY <1>2, <2>1, <2>2, <2>3 DEF UiTypes
<1>4. UiCounts
  <2>1. faults \in 0 .. MaxFaults
    BY <1>1, UiConstants
  <2> QED
    BY <1>1, <2>1 DEF UiCounts
<1>5. Ui!TextsNeverComeBack
  BY <1>1, <1>2 DEF Ui!TextsNeverComeBack
<1>6. Ui!PinTellsWhatIsIn /\ Ui!AsideIsIn
  BY <1>1 DEF Ui!PinTellsWhatIsIn, Ui!AsideIsIn, Ui!NoVersion
<1> QED
  BY <1>3, <1>4, <1>5, <1>6, UiTyped DEF Ui!IInv

LEMMA UiNext == ASSUME Ui!IInv, Ui!Next PROVE Ui!IInv'
<1>0. UiTypes /\ UiCounts /\ UiTells
  BY UiTyped DEF Ui!IInv, UiTells
<1>f. /\ v1 \in UiFiles /\ v2 \in 1 .. MaxVersion /\ v3 \in [1 .. v2 -> UiFiles] /\ v4 \in [Files -> UiCopies]
      /\ v5 \in UiFiles /\ v6 \in [Ui!Names -> 0 .. v2] /\ v7 \in UiFiles /\ v2 \in Nat \ {0}
      /\ faults \in Nat /\ faults <= MaxFaults
  BY <1>0, UiConstants DEF UiTypes, UiCounts
<1>t. UiTypes' /\ UiCounts' /\ UiTells' => Ui!IInv'
  <2>1. UiTypes' /\ UiCounts' => Ui!TypeOK'
    BY DEF Ui!TypeOK, UiTypes, UiCounts, UiTexts, UiCopies, UiFiles
  <2> QED
    BY <2>1 DEF Ui!IInv, UiTells
<1>c. \A S \in SUBSET Files : Ui!Copied(S) \in [Files -> UiCopies] /\ Ui!SeenIn(S) \in UiFiles
  BY <1>f, UiNumbers DEF Ui!Copied, Ui!SeenIn, UiFiles
<1>1. ASSUME NEW f \in Files, Ui!Author(f) PROVE Ui!IInv'
  <2>1. UNCHANGED <<v2, v3, v4, v5, v6, v7, v8, faults>>
    BY <1>1 DEF Ui!Author
  <2>2. v1' \in UiFiles
    <3>1. PICK r \in UiTexts : v1' = [v1 EXCEPT ![f] = r]
      BY <1>1 DEF Ui!Author, UiTexts
    <3> QED
      BY <1>f, <3>1 DEF UiFiles
  <2>3. UiTypes' /\ UiCounts'
    BY <1>0, <2>1, <2>2 DEF UiTypes, UiCounts
  <2>4. UiTells'
    BY <1>0, <2>1 DEF UiTells, Ui!PinTellsWhatIsIn, Ui!TextsNeverComeBack, Ui!AsideIsIn
  <2> QED
    BY <1>t, <2>3, <2>4
<1>2. ASSUME NEW f \in Files, Ui!Customise(f) PROVE Ui!IInv'
  <2>1. UNCHANGED <<v1, v2, v3, v5, v6, v7, v8, faults>>
    BY <1>2 DEF Ui!Customise
  <2>2. v4' \in [Files -> UiCopies]
    BY <1>2, <1>f, UiNumbers DEF Ui!Customise
  <2>3. UiTypes' /\ UiCounts'
    BY <1>0, <2>1, <2>2 DEF UiTypes, UiCounts
  <2>4. UiTells'
    BY <1>0, <2>1 DEF UiTells, Ui!PinTellsWhatIsIn, Ui!TextsNeverComeBack, Ui!AsideIsIn
  <2> QED
    BY <1>t, <2>3, <2>4
<1>3. ASSUME NEW f \in Files, Ui!Resolve(f) PROVE Ui!IInv'
  <2>1. /\ UNCHANGED <<v1, v2, v3, v6, v8, faults>> /\ v5[f] # Ui!Absent
        /\ v7' = [v7 EXCEPT ![f] = v5[f]] /\ v5' = [v5 EXCEPT ![f] = Ui!Absent]
        /\ v4' = v4 \/ v4' = [v4 EXCEPT ![f] = v5[f]]
    BY <1>3 DEF Ui!Resolve
  <2>2. v5[f] \in UiTexts /\ v5[f] \in UiCopies
    BY <1>f, UiNumbers DEF UiFiles
  <2>3. v5' \in UiFiles /\ v7' \in UiFiles /\ v4' \in [Files -> UiCopies]
    BY <1>f, <2>1, <2>2, UiNumbers DEF UiFiles
  <2>4. UiTypes' /\ UiCounts'
    BY <1>0, <2>1, <2>3 DEF UiTypes, UiCounts
  <2>5. \A g \in Files : /\ v7'[g] \in {v7[g], v3[v2][g]} \/ (v5[g] # Ui!Absent /\ v7'[g] = v5[g])
                         /\ v5'[g] \in {v5[g], Ui!Absent, v3[v2][g]}
    BY <1>f, <2>1 DEF UiFiles
  <2>6. UiTells'
    BY <1>0, <2>1, <2>5, UiStays
  <2> QED
    BY <1>t, <2>4, <2>6
<1>4. ASSUME Ui!Release PROVE Ui!IInv'
  <2>1. /\ v2 < MaxVersion /\ v2' = v2 + 1
        /\ v3' = [v \in 1 .. v2 + 1 |-> IF v = v2 + 1 THEN v1 ELSE v3[v]]
        /\ v8' = (v8 /\ \A f \in Files : Ui!FirstReleased(f)) /\ UNCHANGED <<v1, v4, v5, v6, v7, faults>>
    BY <1>4 DEF Ui!Release
  <2>2. v2' \in 1 .. MaxVersion /\ v2' = v2 + 1
    BY <1>f, <2>1, UiConstants
  <2>3. v3' \in [1 .. v2' -> UiFiles]
    BY <1>f, <2>1
  <2>4. v6' \in [Ui!Names -> 0 .. v2']
    BY <1>f, <2>1
  <2>5. UiTypes' /\ UiCounts'
    BY <1>0, <2>1, <2>2, <2>3, <2>4 DEF UiTypes, UiCounts
  <2>6. \A v \in 1 .. v2 : v3'[v] = v3[v]
    BY <1>f, <2>1
  <2>7. v3'[v2 + 1] = v1
    BY <1>f, <2>1
  <2>8. ASSUME v8' PROVE Ui!TextsNeverComeBack'
    <3>1. v8 /\ \A f \in Files : Ui!FirstReleased(f)
      BY <2>1, <2>8
    <3>2. Ui!TextsNeverComeBack
      BY <1>0, <3>1 DEF UiTells
    <3> SUFFICES ASSUME NEW f \in Files, NEW w \in 1 .. v2 + 1, NEW v \in 1 .. w, NEW x \in v .. w,
                        v3'[v][f] = v3'[w][f], v3'[w][f] # Ui!Absent
                 PROVE  v3'[x][f] = v3'[w][f]
      BY <2>1 DEF Ui!TextsNeverComeBack
    <3>3. CASE w \in 1 .. v2
      <4>1. v \in 1 .. v2 /\ x \in 1 .. v2
        BY <1>f, <3>3
      <4> QED
        BY <2>6, <3>2, <3>3, <4>1 DEF Ui!TextsNeverComeBack
    <3>4. CASE w \notin 1 .. v2
      <4>1. w = v2 + 1 /\ v3'[w] = v1
        BY <1>f, <2>7, <3>4
      <4>2. CASE x = v2 + 1
        BY <4>1, <4>2
      <4>3. CASE x # v2 + 1
        <5>1. v \in 1 .. v2 /\ x \in v .. v2 /\ v2 \in 1 .. v2
          BY <1>f, <4>1, <4>3
        <5>2. v3[v][f] = v1[f] /\ x \in 1 .. v2
          BY <1>f, <2>6, <4>1, <5>1
        <5>3. v1[f] = v3[v2][f]
          BY <3>1, <4>1, <5>1, <5>2 DEF Ui!FirstReleased
        <5>4. v3[x][f] = v3[v2][f]
          BY <3>2, <4>1, <5>1, <5>2, <5>3 DEF Ui!TextsNeverComeBack
        <5> QED
          BY <2>6, <4>1, <5>2, <5>3, <5>4
      <4> QED
        BY <4>2, <4>3
    <3> QED
      BY <3>3, <3>4
  <2>9. ASSUME v8', NEW n \in Ui!Names, v6[n] # 0
        PROVE  /\ v6[n] \in 1 .. v2 /\ v3'[v6[n]] = v3[v6[n]]
               /\ \A f \in Files : {v3[w][f] : w \in v6[n] .. v2} \subseteq {v3'[w][f] : w \in v6[n] .. v2 + 1}
    <3>1. v6[n] \in 1 .. v2
      BY <1>f, <2>9
    <3>2. \A w \in v6[n] .. v2 : w \in v6[n] .. v2 + 1 /\ v3'[w] = v3[w]
      BY <1>f, <2>6, <3>1
    <3> QED
      BY <2>6, <3>1, <3>2
  <2>10. Ui!PinTellsWhatIsIn'
    <3>1. Ui!PinTellsWhatIsIn
      BY <1>0 DEF UiTells
    <3> SUFFICES ASSUME v8', NEW n \in Ui!Names, v6[n] # 0, NEW f \in Ui!FilesOf(Refers[n])
                 PROVE  v3'[v6[n]][f] = Ui!Absent \/ v7[f] \in {v3'[w][f] : w \in v6[n] .. v2 + 1}
      BY <2>1 DEF Ui!PinTellsWhatIsIn, Ui!NoVersion
    <3>2. f \in Files
      BY DEF Ui!FilesOf
    <3>3. v3[v6[n]][f] = Ui!Absent \/ v7[f] \in {v3[w][f] : w \in v6[n] .. v2}
      BY <2>1, <3>1 DEF Ui!PinTellsWhatIsIn, Ui!NoVersion
    <3> QED
      BY <2>9, <3>2, <3>3
  <2>11. ASSUME v8' PROVE Ui!AsideIsIn'
    <3>1. Ui!AsideIsIn
      BY <1>0, <2>1, <2>11 DEF UiTells
    <3> SUFFICES ASSUME NEW n \in Ui!Names, v6[n] # 0, NEW f \in Ui!FilesOf(Refers[n]), v5[f] # Ui!Absent
                 PROVE  v3'[v6[n]][f] = Ui!Absent \/ v5[f] \in {v3'[w][f] : w \in v6[n] .. v2 + 1}
      BY <2>1 DEF Ui!AsideIsIn, Ui!NoVersion
    <3>2. f \in Files
      BY DEF Ui!FilesOf
    <3>3. v3[v6[n]][f] = Ui!Absent \/ v5[f] \in {v3[w][f] : w \in v6[n] .. v2}
      BY <3>1 DEF Ui!AsideIsIn, Ui!NoVersion
    <3> QED
      BY <2>9, <2>11, <3>2, <3>3
  <2> QED
    BY <1>t, <2>5, <2>8, <2>10, <2>11 DEF UiTells
<1>5. ASSUME NEW n \in Ui!Names, Ui!Sync(n) PROVE Ui!IInv'
  <2> DEFINE u == Refers[n]
             v == v6[n]
             conflicts == Ui!Outcome(u, v, {"conflict"})
  <2>1. v \in 1 .. v2 /\ v2 \in 1 .. v2 /\ UNCHANGED <<v1, v2, v3>> /\ u \in Units
    BY <1>f, <1>5, UiConstants DEF Ui!Sync, Ui!upstream, Ui!NoVersion
  <2>2. PICK reached \in SUBSET Ui!InTree(u) :
            /\ Ui!Walked(u, v, reached)
            /\ \/ faults' = faults /\ reached = Ui!InTree(u) /\ v6' = Ui!PinAfter(n, conflicts)
               \/ faults < MaxFaults /\ faults' = faults + 1 /\ v6' = v6
    BY <1>5 DEF Ui!Sync
  <2> DEFINE applied == Ui!Outcome(u, v, {"new", "fast-forward"}) \cap reached
             beside == Ui!Outcome(u, v, {"conflict"}) \cap reached
             current == applied \cup (Ui!Outcome(u, v, {"unchanged"}) \cap reached)
  <2>3. applied \in SUBSET Files /\ beside \in SUBSET Files /\ current \in SUBSET Files
    BY DEF Ui!InTree, Ui!FilesOf
  <2>4. /\ v4' = Ui!Copied(applied) /\ v7' = Ui!SeenIn(current)
        /\ v5' = [f \in Files |-> IF f \in beside THEN v1[f] ELSE v5[f]]
        /\ v8' = Ui!Exactly(current)
    BY <2>2 DEF Ui!Walked
  <2>5. v8' => /\ v8 /\ \A f \in Files : v1[f] = v3[v2][f]
               /\ \A f \in current : v5[f] \in {Ui!Absent, v1[f]}
    BY <1>0, <2>4, UiReleased DEF Ui!Exactly
  <2>6. v5' \in UiFiles /\ v4' \in [Files -> UiCopies] /\ v7' \in UiFiles
    <3> HIDE DEF applied, beside, current
    <3>1. v5' \in UiFiles
      BY <1>f, <2>4 DEF UiFiles
    <3> QED
      BY <1>c, <2>3, <2>4, <3>1
  <2>p. v6' = v6 \/ (conflicts = {} /\ reached = Ui!InTree(u) /\ v6' = [v6 EXCEPT ![n] = v2])
    BY <2>2 DEF Ui!PinAfter
  <2>7. UiTypes' /\ UiCounts'
    <3>1. v6' \in [Ui!Names -> 0 .. v2]
      BY <1>f, <2>p
    <3>2. UiTypes'
      BY <1>f, <2>1, <2>6, <3>1 DEF UiTypes
    <3>3. faults' \in 0 .. MaxFaults
      BY <1>f, <2>2, UiConstants
    <3>4. v8' \in BOOLEAN
      BY <2>4 DEF Ui!Exactly
    <3> QED
      BY <3>2, <3>3, <3>4 DEF UiCounts
  <2>8. v8' => \A f \in Files : /\ v7'[f] \in {v7[f], v3[v2][f]}
                                /\ v5'[f] \in {v5[f], v3[v2][f]}
                                /\ f \in current => v7'[f] = v3[v2][f] /\ (f \notin beside => v5'[f] \in {Ui!Absent, v3[v2][f]})
    <3> HIDE DEF applied, beside, current
    <3> QED
      BY <2>4, <2>5 DEF Ui!SeenIn
  <2>9. CASE v6' = v6
    <3>1. UiTells'
      BY <1>0, <2>1, <2>5, <2>8, <2>9, UiStays
    <3> QED
      BY <1>t, <2>7, <3>1
  <2>10. CASE conflicts = {} /\ reached = Ui!InTree(u) /\ v6' = [v6 EXCEPT ![n] = v2]
    <3>1. \A m \in Ui!Names : v6'[m] = IF m \in {n} THEN v2 ELSE v6[m]
      BY <1>f, <2>10
    <3>2. ASSUME v8', NEW f \in Files, Home[f] = Refers[n], v3[v2][f] # Ui!Absent
          PROVE  v7'[f] = v3[v2][f] /\ v5'[f] \in {Ui!Absent, v3[v2][f]}
      <4>1. v8 /\ v1[f] = v3[v2][f] /\ f \in Ui!InTree(u)
        BY <2>5, <3>2 DEF Ui!InTree, Ui!FilesOf
      <4>2. f \notin beside
        BY <2>10
      <4>3. Ui!Classify(f, v) # "conflict"
        BY <2>10, <4>1 DEF Ui!Outcome
      <4>4. CASE f \in current
        BY <2>8, <3>2, <4>2, <4>4
      <4>5. CASE f \notin current
        <5>1. Ui!Classify(f, v) = "local-kept"
          BY <1>0, <2>1, <2>10, <3>2, <4>1, <4>3, <4>5, UiClassified DEF Ui!Outcome
        <5>2. v3[v][f] = v3[v2][f]
          BY <1>0, <2>1, <3>2, <4>1, <5>1, UiClassified
        <5>3. v7'[f] = v7[f] /\ v5'[f] = v5[f]
          <6> HIDE DEF current, beside
          <6> QED
            BY <2>4, <4>2, <4>5 DEF Ui!SeenIn
        <5>4. f \in Ui!FilesOf(Refers[n]) /\ v6[n] # Ui!NoVersion
          BY <2>1, <3>2 DEF Ui!FilesOf, Ui!NoVersion
        <5>5. \A w \in v .. v2 : v3[w][f] = v3[v2][f]
          BY <1>0, <2>1, <3>2, <4>1, <5>2 DEF UiTells, Ui!TextsNeverComeBack
        <5>6. v7[f] \in {v3[w][f] : w \in v .. v2}
          BY <1>0, <3>2, <4>1, <5>2, <5>4 DEF UiTells, Ui!PinTellsWhatIsIn
        <5>7. v5[f] # Ui!Absent => v5[f] \in {v3[w][f] : w \in v .. v2}
          BY <1>0, <3>2, <4>1, <5>2, <5>4 DEF UiTells, Ui!AsideIsIn
        <5> QED
          BY <5>3, <5>5, <5>6, <5>7
      <4> QED
        BY <4>4, <4>5
    <3>3. UiTells'
      BY <1>0, <2>1, <2>5, <2>8, <3>1, <3>2, UiPins
    <3> QED
      BY <1>t, <2>7, <3>3
  <2> QED
    BY <2>p, <2>9, <2>10
<1>6. ASSUME NEW n \in Ui!Names, NEW force \in BOOLEAN, NEW noDeps \in BOOLEAN, Ui!Add(n, force, noDeps)
      PROVE  Ui!IInv'
  <2> DEFINE u == Refers[n]
             wanted == IF noDeps THEN Ui!InTree(u) ELSE Ui!WithDependencies(u)
  <2>1. u \in Units /\ UNCHANGED <<v1, v2, v3, v5>> /\ v2 \in 1 .. v2
    BY <1>f, <1>6, UiConstants DEF Ui!Add, Ui!upstream
  <2>2. /\ wanted \in SUBSET Files /\ Ui!InTree(u) \subseteq wanted
        /\ \A f \in wanted : v1[f] # Ui!Absent
        /\ \A f \in wanted : Home[f] = u \/ (Home[f] # None => Ui!InTree(Home[f]) \subseteq wanted)
    BY <2>1, UiDependencies DEF Ui!InTree, Ui!FilesOf
  <2>3. PICK done \in SUBSET wanted :
            /\ v4' = Ui!Copied(done) /\ v7' = Ui!SeenIn(done) /\ v8' = Ui!Exactly(done)
            /\ \/ faults' = faults /\ done = wanted /\ v6' = Ui!Pinned(n, wanted)
               \/ faults < MaxFaults /\ faults' = faults + 1 /\ v6' = v6
    BY <1>6 DEF Ui!Add
  <2> HIDE DEF wanted
  <2>4. done \in SUBSET Files
    BY <2>2
  <2>5. v8' => /\ v8 /\ \A f \in Files : v1[f] = v3[v2][f]
               /\ \A f \in done : v5[f] \in {Ui!Absent, v1[f]}
    BY <1>0, <2>3, UiReleased DEF Ui!Exactly
  <2>6. v8' => \A f \in Files : /\ v7'[f] \in {v7[f], v3[v2][f]} /\ v5'[f] = v5[f]
                                /\ f \in done => v7'[f] = v3[v2][f] /\ v5'[f] \in {Ui!Absent, v3[v2][f]}
    BY <2>1, <2>3, <2>5 DEF Ui!SeenIn
  <2> DEFINE pinned == {n} \cup {Home[f] : f \in wanted \ Ui!FilesOf(Refers[n])}
  <2>p. v6' = v6 \/ (done = wanted /\ v6' = [m \in Ui!Names |-> IF m \in pinned THEN v2 ELSE v6[m]])
    BY <2>3 DEF Ui!Pinned
  <2>7. UiTypes' /\ UiCounts'
    <3>1. v6' \in [Ui!Names -> 0 .. v2]
      <4> HIDE DEF pinned
      <4> QED
        BY <1>f, <2>p
    <3>2. v4' \in [Files -> UiCopies] /\ v7' \in UiFiles
      BY <1>c, <2>3, <2>4
    <3>3. UiTypes'
      BY <1>f, <2>1, <3>1, <3>2 DEF UiTypes
    <3>4. faults' \in 0 .. MaxFaults
      BY <1>f, <2>3, UiConstants
    <3>5. v8' \in BOOLEAN
      BY <2>3 DEF Ui!Exactly
    <3> QED
      BY <3>3, <3>4, <3>5 DEF UiCounts
  <2>8. CASE v6' = v6
    <3>1. UiTells'
      BY <1>0, <2>1, <2>5, <2>6, <2>8, UiStays
    <3> QED
      BY <1>t, <2>7, <3>1
  <2>9. CASE done = wanted /\ v6' = [m \in Ui!Names |-> IF m \in pinned THEN v2 ELSE v6[m]]
    <3>1. \A m \in Ui!Names : v6'[m] = IF m \in pinned THEN v2 ELSE v6[m]
      BY <2>9
    <3>2. ASSUME v8', NEW m \in pinned, m \in Ui!Names, NEW f \in Files, Home[f] = Refers[m], v3[v2][f] # Ui!Absent
          PROVE  f \in done
      <4>1. v1[f] # Ui!Absent /\ f \in Ui!InTree(Refers[m])
        BY <2>5, <3>2 DEF Ui!InTree, Ui!FilesOf
      <4>2. CASE m = n
        BY <2>2, <2>9, <4>1, <4>2
      <4>3. CASE m # n
        <5>1. PICK g \in wanted : g \notin Ui!FilesOf(Refers[n]) /\ Home[g] = m
          BY <3>2, <4>3
        <5>2. g \in Files /\ Home[g] # u /\ m # None /\ m \in Units
          BY <2>2, <3>2, <5>1, UiConstants DEF Ui!FilesOf
        <5>3. Refers[m] = m /\ Ui!InTree(m) \subseteq wanted
          BY <2>2, <5>1, <5>2, UiConstants
        <5> QED
          BY <2>9, <4>1, <5>3
      <4> QED
        BY <4>2, <4>3
    <3>3. v8' => \A m \in pinned, f \in Files : m \in Ui!Names /\ Home[f] = Refers[m] =>
                     \/ v3[v2][f] = Ui!Absent
                     \/ v7'[f] = v3[v2][f] /\ v5'[f] \in {Ui!Absent, v3[v2][f]}
      BY <2>6, <3>2
    <3> HIDE DEF pinned
    <3>4. UiTells'
      BY <1>0, <2>1, <2>5, <2>6, <3>1, <3>3, UiPins
    <3> QED
      BY <1>t, <2>7, <3>4
  <2> QED
    BY <2>p, <2>8, <2>9
<1> QED
  BY <1>1, <1>2, <1>3, <1>4, <1>5, <1>6 DEF Ui!Next

LEMMA UiRests == Ui!IInv /\ UNCHANGED Ui!vars => Ui!IInv'
<1> SUFFICES ASSUME Ui!IInv, UNCHANGED Ui!vars PROVE Ui!IInv'
  OBVIOUS
<1>1. UNCHANGED <<v1, v2, v3, v4, v5, v6, v7, v8, faults>>
  BY DEF Ui!vars
<1>2. Ui!TypeOK'
  BY <1>1 DEF Ui!IInv, Ui!TypeOK
<1>3. Ui!PinTellsWhatIsIn'
  BY <1>1 DEF Ui!IInv, Ui!PinTellsWhatIsIn
<1>4. v8' => Ui!TextsNeverComeBack' /\ Ui!AsideIsIn'
  BY <1>1 DEF Ui!IInv, Ui!TextsNeverComeBack, Ui!AsideIsIn
<1> QED
  BY <1>2, <1>3, <1>4 DEF Ui!IInv

LEMMA UiHolds == Spec => [](part = "ui" => Ui!IInv)
<1> DEFINE Kept == part = "ui" => Ui!IInv
<1>1. Init => Kept
  BY UiStarts DEF Init
<1>2. Kept /\ [Next]_vars => Kept'
  BY UiNext, UiRests DEF Next, vars, Ui!vars
<1> QED
  BY <1>1, <1>2, PTL DEF Spec

\* No sync replaces what was written in the site, and no add that ends leaves out
\* an import it should have brought.
LEMMA UiCopiesAreSafe == ASSUME Ui!IInv PROVE Ui!CopiesAreSafe
<1>0. UiTypes
  BY UiTyped DEF Ui!IInv
<1>1. ASSUME NEW f \in Files, v4[f] = Ui!Mine, v4'[f] # Ui!Mine, NEW n \in Ui!Names, Ui!Sync(n)
      PROVE  FALSE
  <2>1. v6[n] \in 1 .. v2
    BY <1>0, <1>1, UiConstants DEF Ui!Sync, Ui!NoVersion, UiTypes
  <2>2. PICK reached \in SUBSET Ui!InTree(Refers[n]) : Ui!Walked(Refers[n], v6[n], reached)
    BY <1>1 DEF Ui!Sync
  <2>3. f \in Ui!Outcome(Refers[n], v6[n], {"new", "fast-forward"})
    BY <1>1, <2>2 DEF Ui!Walked, Ui!Copied
  <2>4. v1[f] # Ui!Absent /\ Ui!Classify(f, v6[n]) \in {"new", "fast-forward"}
    BY <2>3 DEF Ui!Outcome, Ui!InTree
  <2> QED
    BY <1>0, <1>1, <2>1, <2>4, UiClassified
<1>2. ASSUME NEW f \in Ui!Brought, NEW g \in Ui!LeftOut(f), NEW n \in Ui!Names, NEW force \in BOOLEAN,
             Ui!Add(n, force, FALSE), faults' = faults
      PROVE  FALSE
  <2> DEFINE W == Ui!WithDependencies(Refers[n])
  <2>1. faults + 1 # faults \/ faults \notin Nat
    OBVIOUS
  <2>2. faults \in Nat
    BY UiTyped, UiConstants DEF Ui!IInv, UiCounts
  <2>3. v4' = Ui!Copied(W)
    BY <1>2, <2>1, <2>2 DEF Ui!Add
  <2>4. Refers[n] \in Units
    BY UiConstants
  <2>5. W \subseteq {h \in Files : v1[h] # Ui!Absent} /\ Ui!Closed(W)
    BY <2>4, UiDependencies
  <2> HIDE DEF W
  <2>6. f \in Files /\ f \in W /\ v1[f] \in Ui!Revisions
    BY <1>0, <2>3, <2>5 DEF Ui!Brought, Ui!Copied, UiTypes, UiFiles, UiTexts
  <2>7. /\ g \in Imports[f][v1[f]] /\ v4'[g] = Ui!Absent /\ v1[g] # Ui!Absent
        /\ g \in Ui!Loose \/ ~Ui!InSite(Home[g])
    BY DEF Ui!LeftOut
  <2>8. g \in Files
    BY <2>6, <2>7, ConstantsAssumption DEF Ui!UnitsAreNames
  <2>9. g \notin W /\ v4[g] = Ui!Absent
    BY <2>3, <2>7, <2>8 DEF Ui!Copied
  <2>10. g \in Ui!Brings(g)
    BY <2>7, <2>8, <2>9 DEF Ui!Brings, Ui!InTree, Ui!FilesOf
  <2> QED
    BY <2>5, <2>6, <2>7, <2>9, <2>10 DEF Ui!Closed
<1>3. Ui!Overwritten # {} => \A n \in Ui!Names : ~Ui!Sync(n)
  BY <1>1 DEF Ui!Overwritten
<1>4. (\E f \in Ui!Brought : Ui!LeftOut(f) # {}) =>
          \A n \in Ui!Names, force \in BOOLEAN : ~(Ui!Add(n, force, FALSE) /\ faults' = faults)
  BY <1>2
<1> QED
  BY <1>3, <1>4 DEF Ui!CopiesAreSafe

\* A pin tells what the site has taken in, no sync replaces what was written in
\* the site and no add leaves out an import, for any units, files and releases -
\* but where unreleased text was copied, an earlier text came back or a unit was
\* copied over an unresolved conflict (internal/uisync).
THEOREM PinsAndCopiesAreAlwaysTrue == Spec => PinsAndCopiesAreTrue
<1> DEFINE Kept == part = "ui" => Ui!IInv
<1>1. Kept /\ Kept' /\ [Next]_vars => (part = "ui" => Ui!PinTellsWhatIsIn' /\ Ui!CopiesAreSafe)
  BY UiCopiesAreSafe DEF Ui!IInv, Next, vars
<1>2. Spec => [][part = "ui" => Ui!PinTellsWhatIsIn' /\ Ui!CopiesAreSafe]_vars
  BY <1>1, UiHolds, PTL DEF Spec
<1> QED
  BY <1>2 DEF PinsAndCopiesAreTrue

-----------------------------------------------------------------------------
(* The types.                                                              *)

\* Every variable of every component keeps the type that the component gives it,
\* for every set of names, rows, issues, worktrees and commands.
THEOREM TypesAreKept == Spec => []TypeOK
<1> DEFINE Kept ==
      /\ part = "worktrees" => Trees!IInv
      /\ part = "audit" => Audit!IInv
      /\ part = "tag" => Tag!IInv
      /\ part = "gates" => Gates!IInv
      /\ part = "propagate" => Propagate!IInv
      /\ part = "tasks" => Sync!IInv
      /\ part = "sprints" => Sprint!IInv
      /\ part = "backlog" => Queue!IInv
      /\ part = "lineage" => Documents!IInv
      /\ part = "knowledge" => Knowledge!IInv
      /\ part = "ui" => Ui!IInv
<1> DEFINE Parts == {"worktrees", "audit", "tag", "gates", "propagate", "tasks", "sprints", "backlog",
                     "lineage", "knowledge", "ui"}
<1>1. Spec => [](part \in Parts)
  <2>1. Init => part \in Parts
    BY DEF Init
  <2>2. part \in Parts /\ [Next]_vars => (part \in Parts)'
    BY DEF Next, vars
  <2> QED
    BY <2>1, <2>2, PTL DEF Spec
<1>2. Spec => []Kept
  BY TreesHold, AuditHolds, TagHolds, GatesHolds, PropagateHolds, SyncAlwaysKnows, SprintHolds, QueueHolds,
     DocumentsHolds, KnowledgeHolds, UiHolds, PTL
<1>3. part \in Parts /\ Kept => TypeOK
  BY DEF TypeOK, Trees!IInv, Audit!IInv, Tag!IInv, Gates!IInv, Propagate!IInv, Sync!IInv, Sprint!IInv, Queue!IInv,
     Documents!IInv, Knowledge!IInv, Ui!IInv
<1> QED
  BY <1>1, <1>2, <1>3, PTL
=============================================================================
