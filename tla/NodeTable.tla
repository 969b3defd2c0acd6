----------------------------- MODULE NodeTable -----------------------------
(* The node table: load_nodes reads nodes.yaml once, checks every entry and  *)
(* that every chained node resolves; open_transport resolves chained nodes   *)
(* again, call by call, against the table that was accepted.                 *)
EXTENDS Naturals, Sequences, FiniteSets

CONSTANTS
  Names,     \* callsigns that entries may have or refer to
  Types,     \* values of `type` that entries may have
  Files      \* the files that may be found

\* An entry gives a type and, if chained, the transit node; `complete` says
\* that the fields its type requires are there.
Entries == [type : Types, via : Names, complete : BOOLEAN]

ASSUME FilesAssumption ==
  /\ Names # {} /\ IsFiniteSet(Names)
  /\ \A f \in Files : /\ DOMAIN f \subseteq Names
                      /\ \A n \in DOMAIN f : f[n] \in Entries

VARIABLES
  file,      \* the entries of nodes.yaml, by callsign
  stage,     \* what load_nodes, and then the server, is doing
  table,     \* callsigns loaded so far
  checked,   \* chained nodes validated so far
  start,     \* the node resolve_chain was called for
  cur,       \* the node its walk is at
  seen,      \* callsigns the walk has visited
  path,      \* and the connect commands it has collected, by callsign
  commands   \* the connect path of the last resolve_chain that returned

walk == <<start, cur, seen, path>>
vars == <<file, stage, table, checked, walk, commands>>

\* "broken": a resolve_chain after the table was accepted raises.
Stages == {"load", "validate", "walk", "serve", "open", "rejected", "broken"}

Chained(n) == file[n].type = "xnet_chained"

\* Sources and callers of a walk: load_nodes before acceptance, tools after.
Walking == stage \in {"walk", "open"}

TypeOK ==
  /\ DOMAIN file \subseteq Names
  /\ \A n \in DOMAIN file : file[n] \in Entries
  /\ stage \in Stages
  /\ table \subseteq DOMAIN file
  /\ checked \subseteq {n \in table : Chained(n)}
  /\ start \in Names
  /\ cur \in Names
  /\ seen \subseteq Names
  /\ path \in Seq(Names)
  /\ commands \in Seq(Names)

Init ==
  /\ file \in Files
  /\ stage = "load"
  /\ table = {}
  /\ checked = {}
  /\ start = CHOOSE n \in Names : TRUE
  /\ cur = start
  /\ seen = {}
  /\ path = <<>>
  /\ commands = <<>>

(***************************************************************************)
(* load_nodes: the entries                                                 *)
(***************************************************************************)
\* No type, no transit_via or connect_command, no host, port or user.
Acceptable(entry) == entry.complete

LoadEntry ==
  /\ stage = "load"
  /\ \E n \in DOMAIN file \ table :
       IF Acceptable(file[n])
       THEN table' = table \cup {n} /\ stage' = stage
       ELSE table' = table /\ stage' = "rejected"
  /\ UNCHANGED <<file, checked, walk, commands>>

EndLoad ==
  /\ stage = "load"
  /\ table = DOMAIN file
  /\ stage' = "validate"
  /\ UNCHANGED <<file, table, checked, walk, commands>>

(***************************************************************************)
(* resolve_chain                                                           *)
(***************************************************************************)
Resolve(n) ==
  /\ start' = n
  /\ cur' = n
  /\ seen' = {}
  /\ path' = <<>>
  /\ UNCHANGED <<file, table, checked, commands>>

Refuse ==
  /\ stage' = IF stage = "walk" THEN "rejected" ELSE "broken"
  /\ UNCHANGED <<file, table, checked, walk, commands>>

\* Variant: only a return to the start is taken for a cycle.
BackAtStart == cur = start /\ seen # {}

CycleMet == cur \in seen

WalkOn ==
  /\ Walking
  /\ Chained(cur)
  /\ IF CycleMet \/ file[cur].via \notin table
     THEN Refuse
     ELSE /\ seen' = seen \cup {cur}
          /\ path' = Append(path, cur)
          /\ cur' = file[cur].via
          /\ UNCHANGED <<file, stage, table, checked, start, commands>>

\* Variant: the list is returned target first.
TargetFirst(s) == s

BaseFirst(s) == [i \in 1 .. Len(s) |-> s[Len(s) + 1 - i]]

\* Variant: the base is marked as validated.
WalkEndsAtBase ==
  /\ Walking
  /\ ~Chained(cur)
  /\ commands' = BaseFirst(path)
  /\ IF stage = "walk"
     THEN stage' = "validate" /\ checked' = checked \cup {cur}
     ELSE stage' = "serve" /\ checked' = checked
  /\ UNCHANGED <<file, table, walk>>

WalkEnds ==
  /\ Walking
  /\ ~Chained(cur)
  /\ commands' = BaseFirst(path)
  /\ IF stage = "walk"
     THEN stage' = "validate" /\ checked' = checked \cup {start}
     ELSE stage' = "serve" /\ checked' = checked
  /\ UNCHANGED <<file, table, walk>>

(***************************************************************************)
(* load_nodes: the validation, and open_transport                          *)
(***************************************************************************)
ValidateNode ==
  /\ stage = "validate"
  /\ \E n \in table \ checked : Chained(n) /\ Resolve(n)
  /\ stage' = "walk"

\* Variant: the server starts after the first chained node.
AnyChecked == checked # {} \/ \A n \in table : ~Chained(n)

AllChecked == \A n \in table : Chained(n) => n \in checked

Accept ==
  /\ stage = "validate"
  /\ AllChecked
  /\ stage' = "serve"
  /\ UNCHANGED <<file, table, checked, walk, commands>>

OpenChained ==
  /\ stage = "serve"
  /\ \E n \in table : Chained(n) /\ Resolve(n)
  /\ stage' = "open"

(***************************************************************************)
(* The specification                                                       *)
(***************************************************************************)
Load == LoadEntry \/ EndLoad \/ WalkOn \/ WalkEnds \/ ValidateNode \/ Accept

Ended == stage \in {"serve", "rejected", "broken"} /\ UNCHANGED vars

Next == Load \/ OpenChained \/ Ended

Spec == Init /\ [][Next]_vars

(***************************************************************************)
(* Properties                                                              *)
(***************************************************************************)
\* The walk collects a simple chain: it starts at the node asked for, each
\* node on it is chained through the next, and none comes twice.
SimpleChain ==
  Walking =>
    /\ path = <<>> => cur = start
    /\ path # <<>> => path[1] = start /\ file[path[Len(path)]].via = cur
    /\ \A i \in 1 .. Len(path) : Chained(path[i])
    /\ \A i \in 1 .. Len(path) - 1 : file[path[i]].via = path[i + 1]
    /\ \A i, j \in 1 .. Len(path) : path[i] = path[j] => i = j

\* Following transit_via from n, once for every name there is, ends at a
\* direct node of the file.
Grounded(n) ==
  LET reached[k \in 0 .. Cardinality(Names)] ==
        IF k = 0
        THEN n
        ELSE LET m == reached[k - 1]
             IN IF m \in DOMAIN file /\ Chained(m) THEN file[m].via ELSE m
      last == reached[Cardinality(Names)]
  IN last \in DOMAIN file /\ ~Chained(last)

\* A table is served only if every chained node ends at a direct base, and a
\* file whose entries are complete is rejected only if some node does not.
ServedMeansGrounded ==
  /\ stage \in {"serve", "open"} =>
       \A n \in DOMAIN file : Chained(n) => Grounded(n)
  /\ stage = "rejected" /\ (\A n \in DOMAIN file : file[n].complete) =>
       \E n \in DOMAIN file : ~Grounded(n)

\* After acceptance no call can fail to resolve its node.
NeverBroken == stage # "broken"

\* The connect path given to a call starts at a neighbour of the base and ends
\* at the node asked for, each hop reached from the one before.
PathReachesTarget ==
  stage = "serve" /\ commands # <<>> =>
    /\ commands[Len(commands)] = start
    /\ ~Chained(file[commands[1]].via)
    /\ \A i \in 2 .. Len(commands) : file[commands[i]].via = commands[i - 1]
=============================================================================
