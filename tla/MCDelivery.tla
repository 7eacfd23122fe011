----------------------------- MODULE MCDelivery -----------------------------
(* A small world of repositories, plans and sites for TLC. *)
EXTENDS Delivery

MCDependsOn == [i \in 1..3 |-> IF i = 3 THEN {1, 2} ELSE {}]
MCMachineOf == [h \in {"h1", "h2"} |-> IF h = "h1" THEN "m1" ELSE "m2"]

\* Two units of a file each, and a file of none: a1 imports both others.
MCHome == [f \in Files |-> CASE f = "a1" -> "a" [] f = "b1" -> "b" [] OTHER -> None]
MCRefers == [n \in {"a", "b"} |-> n]
MCImports == [f \in Files |->
                 [r \in 1..2 |-> Files \cap CASE f = "a1" -> {"b1", "l"} [] OTHER -> {}]]
=============================================================================
