-------------------------- MODULE MCNotionSync --------------------------
(* A small instance of NotionSync for TLC. *)
EXTENDS NotionSync

Blank == 0
Texts == 0 .. 2
AllOwners == {"reconcile", "local", "external", "read_only"}
=============================================================================
