----------------------------- MODULE Discovery -----------------------------
(* discover_routes: every configured console node is asked at the same time, *)
(* each in a session of its own, for the meaning of an alias and then for    *)
(* its FlexNet (`D`) and NetROM (`N`) entries; the answers arrive in any     *)
(* order and the best of each node are ranked into one list.                 *)
EXTENDS Naturals, Sequences, FiniteSets

CONSTANTS
  Sources,   \* the console nodes, in the order of nodes.yaml
  FlexNet,   \* those with a FlexNet destination table
  Callsigns, \* callsigns a target may stand for
  Tables     \* what the nodes may answer

Nodes == {Sources[i] : i \in DOMAIN Sources}

ASSUME SourcesAssumption ==
  /\ Sources \in Seq(Nodes)
  /\ \A i, j \in DOMAIN Sources : Sources[i] = Sources[j] => i = j

Unknown == "none"        \* the node does not know the alias, or did not answer
Waiting == "waiting"

ASSUME CallsignsAssumption == Callsigns \cap {Unknown, Waiting} = {}

\* What the parsers of the tables return: finitely many rows of numbers.  A node
\* marks one route of a callsign at most as the one it uses.
ASSUME TablesAssumption ==
  \A t \in Tables, n \in Nodes :
    /\ t[n].alias \in Callsigns \cup {Unknown}
    /\ IsFiniteSet(t[n].flexnet) /\ \A r \in t[n].flexnet : r.cost \in Nat
    /\ IsFiniteSet(t[n].netrom)
    /\ \A r \in t[n].netrom : r.hops \in Nat /\ r.quality \in Nat
    /\ \A r, s \in t[n].netrom :
         r.call = s.call /\ r.selected /\ s.selected => r = s

VARIABLES
  target,    \* the callsign asked for; bare: it carries no SSID
  tables,    \* what each node answers
  stage,     \* "alias", "probe" or "ranked"
  meant,     \* the answers of _resolve_alias so far, by node
  callsign,  \* what the target resolved to
  probing,   \* the query a node is at: "D", "N" or "done"
  best,      \* its best candidate so far
  ranked,    \* the list returned
  stranded   \* channels of a session whose connect() failed are open

discovery ==
  <<target, tables, stage, meant, callsign, probing, best, ranked, stranded>>

NoRoute == [source |-> "none"]

Sourced == {"flexnet", "netrom"}

DiscoveryTypeOK ==
  /\ target \in [call : Callsigns, bare : BOOLEAN]
  /\ stage \in {"alias", "probe", "ranked"}
  /\ meant \in [Nodes -> Callsigns \cup {Unknown, Waiting}]
  /\ callsign \in Callsigns
  /\ probing \in [Nodes -> {"D", "N", "done"}]
  /\ \A n \in Nodes : best[n] = NoRoute \/ (best[n].via = n /\ best[n].source \in Sourced)
  /\ Len(ranked) <= Len(Sources)
  /\ stranded \in BOOLEAN

DiscoveryInit ==
  /\ target \in [call : Callsigns, bare : BOOLEAN]
  /\ tables \in Tables
  /\ stage = IF target.bare THEN "alias" ELSE "probe"
  /\ meant = [n \in Nodes |-> Waiting]
  /\ callsign = target.call
  /\ probing = [n \in Nodes |-> IF n \in FlexNet THEN "D" ELSE "N"]
  /\ best = [n \in Nodes |-> NoRoute]
  /\ ranked = <<>>
  /\ stranded = FALSE

(***************************************************************************)
(* Asking a node                                                           *)
(***************************************************************************)
\* Every query has a session of its own.  One that fails is swallowed: where it
\* was connect() that raised, what it had opened stays open.
Query(n, query) ==
  stranded' \in {stranded} \cup IF query \in tables[n].fails THEN {TRUE} ELSE {}

(***************************************************************************)
(* Ranking                                                                 *)
(***************************************************************************)
MaxNetRomQuality == 256

RankKey(c) ==
  IF c.source = "flexnet"
  THEN <<0, c.cost, c.hops>>
  ELSE <<1, c.hops, MaxNetRomQuality - c.quality>>

\* Order of the tuples Python compares.
KeyBelow(k, l) ==
  \E i \in DOMAIN k : k[i] < l[i] /\ \A j \in 1 .. i - 1 : k[j] = l[j]

\* consider(): a later candidate replaces the best only if strictly better.
Consider(current, cands) ==
  LET all == cands \cup IF current = NoRoute THEN {} ELSE {current}
  IN IF all = {}
     THEN NoRoute
     ELSE CHOOSE c \in all : \A d \in all : ~KeyBelow(RankKey(d), RankKey(c))

(***************************************************************************)
(* The alias                                                               *)
(***************************************************************************)
\* A node that cannot be asked is skipped.
AskAlias(n) ==
  /\ stage = "alias"
  /\ meant[n] = Waiting
  /\ meant' = [meant EXCEPT ![n] = IF "alias" \in tables[n].fails
                                   THEN Unknown ELSE tables[n].alias]
  /\ Query(n, "alias")
  /\ UNCHANGED <<target, tables, stage, callsign, probing, best, ranked>>

\* Variant: the first answer decides, even of a node that knows nothing.
FirstAnswer(answers) == answers[Sources[1]]

\* gather() keeps the order of nodes.yaml; the first node that knows decides.
FirstMeaning(answers) ==
  LET known == {i \in DOMAIN Sources : answers[Sources[i]] \in Callsigns}
  IN IF known = {}
     THEN target.call
     ELSE answers[Sources[CHOOSE i \in known : \A j \in known : i <= j]]

ResolveAlias ==
  /\ stage = "alias"
  /\ \A n \in Nodes : meant[n] # Waiting
  /\ callsign' = FirstMeaning(meant)
  /\ stage' = "probe"
  /\ UNCHANGED <<target, tables, meant, probing, best, ranked, stranded>>

(***************************************************************************)
(* The probes                                                              *)
(***************************************************************************)
\* FlexNet rows of the callsign whose SSID range covers it.
FlexNetCandidates(n) ==
  {[source |-> "flexnet", via |-> n, cost |-> r.cost, hops |-> 1] :
     r \in {s \in tables[n].flexnet : s.call = callsign /\ s.covers}}

ProbeFlexNet(n) ==
  /\ stage = "probe"
  /\ probing[n] = "D"
  /\ probing' = [probing EXCEPT ![n] = "N"]
  /\ best' = IF "D" \in tables[n].fails
             THEN best
             ELSE [best EXCEPT ![n] = Consider(@, FlexNetCandidates(n))]
  /\ Query(n, "D")
  /\ UNCHANGED <<target, tables, stage, meant, callsign, ranked>>

\* netrom_best_route: the row marked as selected, else fewest hops and then
\* best quality.
NetRomBest(rows) ==
  LET selected == {r \in rows : r.selected}
  IN IF selected # {}
     THEN selected
     ELSE {r \in rows : \A s \in rows :
             ~KeyBelow(<<s.hops, MaxNetRomQuality - s.quality>>,
                       <<r.hops, MaxNetRomQuality - r.quality>>)}

\* The node's answer to `N <callsign>`: its rows are not looked at again.
NetRomAnswer(n) == {r \in tables[n].netrom : r.call = callsign}

NetRomCandidates(n) ==
  {[source |-> "netrom", via |-> n, hops |-> r.hops, quality |-> r.quality] :
     r \in NetRomBest(NetRomAnswer(n))}

ProbeNetRom(n) ==
  /\ stage = "probe"
  /\ probing[n] = "N"
  /\ probing' = [probing EXCEPT ![n] = "done"]
  /\ best' = IF "N" \in tables[n].fails
             THEN best
             ELSE [best EXCEPT ![n] = Consider(@, NetRomCandidates(n))]
  /\ Query(n, "N")
  /\ UNCHANGED <<target, tables, stage, meant, callsign, ranked>>

Place(n) == CHOOSE i \in DOMAIN Sources : Sources[i] = n

\* Each element stands after as many as come before it.
InOrder(S, before) ==
  [i \in 1 .. Cardinality(S) |->
     CHOOSE c \in S : Cardinality(before[c]) = i - 1]

\* Variant: the candidates stay in the order of nodes.yaml.
UnsortedRoutes(found) ==
  InOrder(found, [c \in found |-> {d \in found : Place(d.via) < Place(c.via)}])

\* candidates.sort(key=_rank_key) is stable over the order of nodes.yaml.
SortRoutes(found) ==
  LET key(c) == Append(RankKey(c), Place(c.via))
  IN InOrder(found, [c \in found |-> {d \in found : KeyBelow(key(d), key(c))}])

Rank ==
  /\ stage = "probe"
  /\ \A n \in Nodes : probing[n] = "done"
  /\ ranked' = SortRoutes({best[n] : n \in Nodes} \ {NoRoute})
  /\ stage' = "ranked"
  /\ UNCHANGED <<target, tables, meant, callsign, probing, best, stranded>>

Probe(n) == AskAlias(n) \/ ProbeFlexNet(n) \/ ProbeNetRom(n)

Discover == ResolveAlias \/ Rank \/ \E n \in Nodes : Probe(n)

(***************************************************************************)
(* Properties                                                              *)
(***************************************************************************)
\* The abstract specification; RemoteRun states that it is kept.
Promise ==
  INSTANCE RoutePlan WITH
    plan <- [given  |-> stage = "ranked",
             routes |-> [i \in DOMAIN ranked |->
                          [via |-> ranked[i].via, call |-> callsign,
                           key |-> RankKey(ranked[i])]]]
=============================================================================
