----------------------------- MODULE TaskReview -----------------------------
(***************************************************************************)
(* What the issue loop promises of a task, whatever it reads and whenever  *)
(* it reads it: a task is worked on, comes up for review a bounded number  *)
(* of rounds, is closed only once a pull request of its own has merged,    *)
(* and never leaves the stage it ended in.  IssueReconcile implements it.  *)
(***************************************************************************)
EXTENDS Naturals

CONSTANTS
    Tasks,
    MaxRounds    \* --max-rounds

VARIABLES
    stage,       \* where each task is
    round,       \* the review rounds it has been through, this one included
    merged       \* whether a pull request of the task has merged

reviewVars == <<stage, round, merged>>

Init ==
    /\ stage = [t \in Tasks |-> "absent"]
    /\ round = [t \in Tasks |-> 0]
    /\ merged = [t \in Tasks |-> FALSE]

Moves(t, from, to) == stage[t] \in from /\ stage' = [stage EXCEPT ![t] = to]

Queue(t) == Moves(t, {"absent"}, "in_development") /\ UNCHANGED <<round, merged>>

Submit(t) ==
    /\ Moves(t, {"in_development"}, "in_review")
    /\ round' = [round EXCEPT ![t] = @ + 1]
    /\ UNCHANGED merged

Merge(t) == merged' = [merged EXCEPT ![t] = TRUE] /\ UNCHANGED <<stage, round>>

Approve(t) == merged[t] /\ Moves(t, {"in_review"}, "closed") /\ UNCHANGED <<round, merged>>

\* Back to work, as long as a round is left.
Reject(t) ==
    /\ round[t] < MaxRounds
    /\ Moves(t, {"in_review"}, "in_development")
    /\ UNCHANGED <<round, merged>>

GiveUp(t) ==
    Moves(t, {"in_development", "in_review"}, "not_doing") /\ UNCHANGED <<round, merged>>

Next == \E t \in Tasks :
    Queue(t) \/ Submit(t) \/ Merge(t) \/ Approve(t) \/ Reject(t) \/ GiveUp(t)

Spec == Init /\ [][Next]_reviewVars
=============================================================================
