----------------------------- MODULE RoutePlan -----------------------------
(* What route discovery promises: the answer is a function of the tables of  *)
(* the configured nodes alone, whichever of them answers first.              *)
EXTENDS Naturals, Sequences, FiniteSets

CONSTANTS
  Sources,   \* the console nodes, in the order of nodes.yaml
  FlexNet,   \* those with a FlexNet destination table
  Callsigns, \* callsigns a target may stand for
  Tables     \* what the nodes may answer

VARIABLES
  target,    \* the callsign asked for, and whether it may be an alias
  tables,    \* each node's tables; `fails`: the queries it does not answer
  plan       \* whether the answer is given, and the ranked candidates

Nodes   == {Sources[i] : i \in DOMAIN Sources}
Pending == [given |-> FALSE, routes |-> <<>>]

\* A query that fails contributes nothing.
AliasAt(node) ==
  IF "alias" \in tables[node].fails THEN "none" ELSE tables[node].alias
FlexNetRows(node) ==
  IF "D" \in tables[node].fails THEN {} ELSE tables[node].flexnet

\* The callsign the target stands for: the first node that knows the alias
\* decides; a target with an SSID, or unknown to all, stands for itself.
Knowing == {i \in DOMAIN Sources : AliasAt(Sources[i]) \in Callsigns}

Meaning ==
  IF target.bare /\ Knowing # {}
  THEN AliasAt(Sources[CHOOSE i \in Knowing : \A j \in Knowing : i <= j])
  ELSE target.call

\* Lower is better, lexicographically: FlexNet by cost, then NetROM by hops
\* and quality.
Better(k, l) ==
  \/ k[1] < l[1]
  \/ k[1] = l[1] /\ k[2] < l[2]
  \/ k[1] = l[1] /\ k[2] = l[2] /\ k[3] < l[3]

FlexNetKeys(node) ==
  IF node \in FlexNet
  THEN {<<0, r.cost, 1>> : r \in {s \in FlexNetRows(node) :
                                    s.call = Meaning /\ s.covers}}
  ELSE {}

\* The row the node itself has selected, else the shortest, else the best.
NetRomRows(node) ==
  IF "N" \in tables[node].fails
  THEN {}
  ELSE {r \in tables[node].netrom : r.call = Meaning}
NetRomChosen(node) ==
  LET rows     == NetRomRows(node)
      selected == {r \in rows : r.selected}
      shortest == {r \in rows : \A s \in rows :
                    r.hops < s.hops \/ (r.hops = s.hops /\ r.quality >= s.quality)}
  IN IF selected # {} THEN selected ELSE shortest
NetRomKeys(node) ==
  {<<1, r.hops, 256 - r.quality>> : r \in NetRomChosen(node)}

Keys(node) == FlexNetKeys(node) \cup NetRomKeys(node)
BestKey(node) == CHOOSE k \in Keys(node) : \A l \in Keys(node) : ~Better(l, k)

Reaching == {i \in DOMAIN Sources : Keys(Sources[i]) # {}}

\* One candidate for every node that reaches the target, its best; the best
\* first, and nodes that tie in the order of nodes.yaml.
IsPlan(s) ==
  /\ Len(s) = Cardinality(Reaching)
  /\ {s[i].via : i \in DOMAIN s} = {Sources[i] : i \in Reaching}
  /\ \A i \in DOMAIN s : s[i].key = BestKey(s[i].via) /\ s[i].call = Meaning
  /\ \A i, j \in DOMAIN s : i < j =>
       \/ Better(s[i].key, s[j].key)
       \/ /\ s[i].key = s[j].key
          /\ \A p, q \in DOMAIN Sources :
               Sources[p] = s[i].via /\ Sources[q] = s[j].via => p < q

Targets == [call : Callsigns, bare : BOOLEAN]

Init ==
  /\ target \in Targets
  /\ tables \in Tables
  /\ plan = Pending

Answer ==
  /\ plan = Pending
  /\ plan'.given
  /\ IsPlan(plan'.routes)
  /\ UNCHANGED <<target, tables>>

Safe == Init /\ [][Answer]_<<target, tables, plan>>

Spec == Safe /\ <>plan.given
=============================================================================
