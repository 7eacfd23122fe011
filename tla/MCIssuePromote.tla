-------------------------- MODULE MCIssuePromote --------------------------
(* Small instances of IssuePromote for TLC. *)
EXTENDS IssuePromote

OneIssue == {7}
=============================================================================
