---------------------------- MODULE MCDiscovery ----------------------------
(* An instance of Discovery: an (X)Net, a LinBPQ and a BPQ32 node, tables    *)
(* that tie, conflict or fail, and an alias two nodes resolve differently.   *)
EXTENDS Discovery

MCSources   == <<"xnet", "linbpq", "bpq">>
MCFlexNet   == {"xnet", "linbpq"}
MCCallsigns == {"target", "other"}

D(call, cost, covers) == [call |-> call, cost |-> cost, covers |-> covers]
N(call, hops, quality, selected) ==
  [call |-> call, hops |-> hops, quality |-> quality, selected |-> selected]

Table(alias, flexnet, netrom, fails) ==
  [alias |-> alias, flexnet |-> flexnet, netrom |-> netrom, fails |-> fails]

\* What one node may answer: several rows, ties, rows of another callsign or
\* SSID, the node's own selection against the shorter route, failures.
Answers ==
  { Table("none",   {}, {}, {}),
    Table("none",   {D("target", 1, TRUE), D("target", 2, TRUE)},
                    {N("target", 1, 255, FALSE)}, {}),
    Table("other",  {D("target", 1, FALSE), D("other", 2, TRUE)},
                    {N("target", 1, 100, FALSE), N("other", 2, 255, FALSE)}, {}),
    Table("target", {D("target", 1, TRUE)},
                    {N("target", 1, 200, FALSE), N("target", 1, 100, FALSE)},
                    {"D"}),
    Table("other",  {D("other", 1, TRUE)},
                    {N("other", 2, 100, TRUE), N("other", 1, 200, FALSE)},
                    {"alias", "D"}),
    Table("none",   {D("target", 2, TRUE)}, {N("target", 1, 200, FALSE)},
                    {"N"}) }

MCTables == [{"xnet", "linbpq", "bpq"} -> Answers]
=============================================================================
