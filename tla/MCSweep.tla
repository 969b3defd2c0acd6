------------------------------ MODULE MCSweep ------------------------------
(* An instance of Sweep: an (X)Net node with its password in the keychain    *)
(* only, and a BPQ node with one in the file only and one in the keychain    *)
(* only.                                                                     *)
EXTENDS Sweep

User(n) == [node |-> n, kind |-> "user"]
Sys(n)  == [node |-> n, kind |-> "sys"]

\* Two sessions to a node that asks for a login as well are left out: they add
\* two lookups and multiply the states by six.
MCCases ==
  ({"network_topology"} \X {{}, Nodes})
    \cup ({"find_callsign"} \X {{}, Nodes \ Bpq})

MCStored == {User("xnet"), Sys("bpq")}
MCInFile == {User("bpq")}
=============================================================================
