------------------------------- MODULE MCGate -------------------------------
(* An instance of Gate: one node that a restart may give any type or drop;   *)
(* verbs that are reads, dangerous in one dialect, or abbreviated; arguments *)
(* that are a number, a word that deletes, and a text of two lines.          *)
EXTENDS Gate

MCNodes == {"n"}

MCTables == [MCNodes -> Types] \cup {<<>>}

MCTyped == {"L", "RE", "RES", "RESET", "REB"}

Arg(tokens, control) == [tokens |-> tokens, control |-> control]

MCNumbers == {Arg({"1"}, FALSE)}

MCArgs == MCNumbers \cup {Arg({"DEL"}, FALSE), Arg({"1"}, TRUE)}
=============================================================================
