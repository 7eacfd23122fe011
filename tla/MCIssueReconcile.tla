------------------------- MODULE MCIssueReconcile -------------------------
(* Small instances of IssueReconcile for TLC. *)
EXTENDS IssueReconcile, TLC

OneIssue == {7}
OneCheck == {"gate"}
Clear == {"clear"}
Undecided == {"clear", "required"}
Blocking == {"clear", "blocking"}

\* Reconcilers are interchangeable: none is named in a definition.
Interchangeable == Permutations(Reconcilers)
=============================================================================
