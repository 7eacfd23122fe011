--------------------------- MODULE MCWorkstation ---------------------------
(* A small machine for TLC. *)
EXTENDS Workstation

\* ~/.lightwave: a cache that is wiped, with a git mirror in it, and specs that are kept.
MCDirs == {"cache", "c", "r.git", "refs", "specs", "s"}
MCParent == [d \in MCDirs |-> CASE d \in {"c", "r.git"} -> "cache"
                                [] d = "s" -> "specs"
                                [] d = "refs" -> "r.git"
                                [] OTHER -> None]

\* Two consumers behind one label, the first of them probed; one that only a person
\* refreshes or that has a label of its own; one that reads the key at each use.
MCSecretMaps == {<<"server", "server", "person", "none">>,
                 <<"server", "server", "tracker", "none">>}

\* A runbook of a script that writes outputs and a signed command that reads them.
MCStep == <<[runs |-> TRUE, highBlast |-> FALSE, dryAware |-> FALSE, reads |-> {}],
            [runs |-> TRUE, highBlast |-> TRUE, dryAware |-> FALSE, reads |-> {1}]>>
=============================================================================
