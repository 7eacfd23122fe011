-------------------------- MODULE MCRunbookEngine --------------------------
(* A runbook of a script that writes outputs and a signed command that reads them. *)
EXTENDS RunbookEngine

MCTwoSteps == 2

Script == [runs |-> TRUE, highBlast |-> FALSE, dryAware |-> FALSE, reads |-> {}]
Command == [runs |-> TRUE, highBlast |-> TRUE, dryAware |-> FALSE, reads |-> {1}]
MCTwoStep == <<Script, Command>>
=============================================================================
