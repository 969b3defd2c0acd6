-------------------------- MODULE NodeTableProofs --------------------------
(* For every set of names and every file: what load_nodes has accepted never *)
(* fails to resolve later.  resolve_chain is deterministic, so the path it   *)
(* walked when a node was validated is a witness that its next walk from the *)
(* same node repeats, step by step, to the same base; and what it has        *)
(* refused has a node from which no base can be reached.                     *)
EXTENDS NodeTable, Integers, FiniteSetTheorems, FunctionTheorems,
        WellFoundedInduction, TLAPS

\* s lists the nodes on the way from n to c: each chained through the next,
\* none twice.
Linked(s, n, c) ==
  /\ s \in Seq(Names)
  /\ IF s = <<>> THEN c = n ELSE s[1] = n /\ file[s[Len(s)]].via = c
  /\ \A i \in 1 .. Len(s) : s[i] \in table /\ Chained(s[i])
  /\ \A i \in 1 .. Len(s) - 1 : file[s[i]].via = s[i + 1]
  /\ \A i, j \in 1 .. Len(s) : s[i] = s[j] => i = j

\* s is a whole chain: from n to the direct node b.
Witness(s, n, b) ==
  /\ Linked(s, n, b)
  /\ s # <<>>
  /\ b \in table /\ ~Chained(b)

Routed(n) == \E s \in Seq(Names), b \in Names : Witness(s, n, b)

\* The walk has come k nodes along s, on its way to b.
Along(s, b) ==
  /\ Len(path) <= Len(s)
  /\ \A i \in 1 .. Len(path) : path[i] = s[i]
  /\ cur = IF Len(path) < Len(s) THEN s[Len(path) + 1] ELSE b

Walked ==
  Walking =>
    /\ Linked(path, start, cur)
    /\ cur \in table
    /\ start \in table /\ Chained(start)
    /\ seen = {path[i] : i \in 1 .. Len(path)}

Repeated ==
  stage = "open" => \E s \in Seq(Names), b \in Names :
                      Witness(s, start, b) /\ Along(s, b)

Validated ==
  /\ stage = "load" => checked = {} /\ commands = <<>>
  /\ \A n \in checked : Routed(n)
  /\ stage \in {"serve", "open"} => AllChecked
  /\ stage # "broken"

Connects ==
  stage \in {"validate", "serve"} /\ commands # <<>> =>
    /\ commands = BaseFirst(path)
    /\ Witness(path, start, cur)

Inv == TypeOK /\ Walked /\ Repeated /\ Validated /\ Connects

-----------------------------------------------------------------------------
LEMMA InitInv == Init => Inv
<1> SUFFICES ASSUME Init PROVE Inv
  OBVIOUS
<1> USE FilesAssumption DEF Init
<1>1. TypeOK
  BY DEF TypeOK, Stages
<1> QED
  BY <1>1 DEF Inv, Walked, Walking, Repeated, Validated, Connects

\* A via of a file in Files is a name.
LEMMA ViaIsName ==
  ASSUME TypeOK, NEW n \in DOMAIN file
  PROVE  file[n].via \in Names
  BY DEF TypeOK, Entries

LEMMA BaseFirstType ==
  ASSUME NEW s \in Seq(Names)
  PROVE  /\ BaseFirst(s) \in Seq(Names)
         /\ Len(BaseFirst(s)) = Len(s)
         /\ \A i \in 1 .. Len(s) : BaseFirst(s)[i] = s[Len(s) + 1 - i]
  BY DEF BaseFirst

\* What a walk does to a chain it has collected.
LEMMA LinkedStep ==
  ASSUME TypeOK, NEW s \in Seq(Names), NEW n \in Names, NEW c \in table,
         Linked(s, n, c), Chained(c), \A i \in 1 .. Len(s) : s[i] # c
  PROVE  Linked(Append(s, c), n, file[c].via)
<1> DEFINE t == Append(s, c)
<1>1. /\ c \in Names
      /\ t \in Seq(Names)
      /\ Len(t) = Len(s) + 1 /\ t # <<>>
      /\ t[Len(t)] = c
      /\ \A i \in 1 .. Len(s) : t[i] = s[i]
  BY DEF TypeOK
<1>2. t[1] = n /\ file[t[Len(t)]].via = file[c].via
  <2>1. CASE s = <<>>
    BY <1>1, <2>1 DEF Linked
  <2>2. CASE s # <<>>
    <3>1. Len(s) >= 1
      BY <2>2
    <3> QED
      BY <1>1, <2>2, <3>1 DEF Linked
  <2> QED
    BY <2>1, <2>2
<1>3. \A i \in 1 .. Len(t) : t[i] \in table /\ Chained(t[i])
  <2> TAKE i \in 1 .. Len(t)
  <2>1. CASE i = Len(t)
    BY <1>1, <2>1
  <2>2. CASE i \in 1 .. Len(s)
    BY <1>1, <2>2 DEF Linked
  <2> QED
    BY <1>1, <2>1, <2>2
<1>4. \A i \in 1 .. Len(t) - 1 : file[t[i]].via = t[i + 1]
  <2> TAKE i \in 1 .. Len(t) - 1
  <2>1. CASE i = Len(s)
    <3>1. s # <<>> /\ file[s[Len(s)]].via = c
      BY <1>1, <2>1 DEF Linked
    <3> QED
      BY <1>1, <2>1, <3>1
  <2>2. CASE i \in 1 .. Len(s) - 1
    <3>1. i \in 1 .. Len(s) /\ i + 1 \in 1 .. Len(s)
      BY <2>2
    <3> QED
      BY <1>1, <2>2, <3>1 DEF Linked
  <2> QED
    BY <1>1, <2>1, <2>2
<1>5. \A i, j \in 1 .. Len(t) : t[i] = t[j] => i = j
  <2> TAKE i, j \in 1 .. Len(t)
  <2>1. /\ i = Len(t) \/ i \in 1 .. Len(s)
        /\ j = Len(t) \/ j \in 1 .. Len(s)
    BY <1>1
  <2> QED
    BY <1>1, <2>1 DEF Linked
<1> HIDE DEF t
<1>6. Linked(t, n, file[c].via)
  BY <1>1, <1>2, <1>3, <1>4, <1>5 DEF Linked
<1> QED
  BY <1>6 DEF t

\* A walk that ends has a whole chain in hand.
LEMMA WalkEndsWitness ==
  ASSUME TypeOK, Walked, Walking, ~Chained(cur)
  PROVE  Witness(path, start, cur)
<1>1. Linked(path, start, cur) /\ cur \in table /\ Chained(start)
  BY DEF Walked
<1>2. path # <<>>
  BY <1>1 DEF Linked
<1> QED
  BY <1>1, <1>2 DEF Witness

\* A walk along a witness meets no cycle and no unknown node.
LEMMA AlongStep ==
  ASSUME TypeOK, Walked, Walking, Chained(cur),
         NEW s \in Seq(Names), NEW b \in Names, Witness(s, start, b), Along(s, b)
  PROVE  /\ Len(path) < Len(s)
         /\ cur = s[Len(path) + 1]
         /\ cur \notin seen
         /\ file[cur].via \in table
         /\ file[cur].via = IF Len(path) + 1 < Len(s) THEN s[Len(path) + 2] ELSE b
<1>1. Len(path) \in Nat /\ Len(s) \in Nat
  BY DEF TypeOK
<1>2. Len(path) < Len(s) /\ cur = s[Len(path) + 1]
  BY <1>1 DEF Witness, Along
<1>3. cur \notin seen
  <2> SUFFICES ASSUME NEW i \in 1 .. Len(path), path[i] = cur PROVE FALSE
    BY DEF Walked
  <2>1. s[i] = s[Len(path) + 1]
    BY <1>2 DEF Along
  <2>2. i \in 1 .. Len(s) /\ Len(path) + 1 \in 1 .. Len(s)
    BY <1>1, <1>2
  <2>3. i = Len(path) + 1
    BY <2>1, <2>2 DEF Witness, Linked
  <2> QED
    BY <1>1, <2>3
<1>4. file[cur].via = IF Len(path) + 1 < Len(s) THEN s[Len(path) + 2] ELSE b
  <2>1. CASE Len(path) + 1 < Len(s)
    <3>1. Len(path) + 1 \in 1 .. Len(s) - 1 /\ (Len(path) + 1) + 1 = Len(path) + 2
      BY <1>1, <2>1
    <3> QED
      BY <1>2, <2>1, <3>1 DEF Witness, Linked
  <2>2. CASE ~(Len(path) + 1 < Len(s))
    <3>1. Len(s) = Len(path) + 1
      BY <1>1, <1>2, <2>2
    <3>2. s # <<>> /\ file[s[Len(s)]].via = b
      BY DEF Witness, Linked
    <3> QED
      BY <1>2, <2>2, <3>1, <3>2
  <2> QED
    BY <2>1, <2>2
<1>5. file[cur].via \in table
  <2>1. CASE Len(path) + 1 < Len(s)
    <3>1. Len(path) + 2 \in 1 .. Len(s)
      BY <1>1, <2>1
    <3> QED
      BY <1>4, <2>1, <3>1 DEF Witness, Linked
  <2>2. CASE ~(Len(path) + 1 < Len(s))
    BY <1>4, <2>2 DEF Witness
  <2> QED
    BY <2>1, <2>2
<1> QED
  BY <1>2, <1>3, <1>4, <1>5

-----------------------------------------------------------------------------
\* A chain stays one while the table stays.
LEMMA Frame ==
  ASSUME UNCHANGED <<file, table>>
  PROVE  /\ \A s \in Seq(Names), n \in Names, b \in Names :
              Witness(s, n, b) => Witness(s, n, b)'
         /\ \A n \in Names : Routed(n) => Routed(n)'
<1>1. \A s \in Seq(Names), n \in Names, b \in Names :
        Witness(s, n, b) => Witness(s, n, b)'
  BY DEF Witness, Linked, Chained
<1> QED
  BY <1>1 DEF Routed

LEMMA LoadInv == Inv /\ (LoadEntry \/ EndLoad) => Inv'
<1> SUFFICES ASSUME Inv, LoadEntry \/ EndLoad PROVE Inv'
  OBVIOUS
<1>1. /\ stage' \in {"load", "validate", "rejected"}
      /\ checked = {} /\ checked' = {}
      /\ commands' = <<>>
      /\ UNCHANGED <<file, walk>>
      /\ table \subseteq table' /\ table' \subseteq DOMAIN file
  BY DEF Inv, TypeOK, Validated, LoadEntry, EndLoad
<1>2. TypeOK'
  BY <1>1 DEF Inv, TypeOK, Stages, walk
<1> QED
  BY <1>1, <1>2 DEF Inv, Walked, Walking, Repeated, Validated, Connects

LEMMA WalkOnInv == Inv /\ WalkOn => Inv'
<1> SUFFICES ASSUME Inv, WalkOn PROVE Inv'
  OBVIOUS
<1>0. /\ TypeOK /\ Walked /\ Walking /\ Chained(cur)
      /\ stage \in {"walk", "open"}
      /\ UNCHANGED <<file, table, checked, start, commands>>
  BY DEF Inv, WalkOn, Walking, Refuse, walk
<1>1. \A n \in Names : Routed(n) => Routed(n)'
  BY <1>0, Frame
<1>2. \A n \in checked' : Routed(n)'
  BY <1>0, <1>1 DEF Inv, TypeOK, Validated
<1>3. CASE CycleMet \/ file[cur].via \notin table
  <2>1. stage # "open"
    <3> SUFFICES ASSUME stage = "open" PROVE FALSE
      OBVIOUS
    <3>1. PICK s \in Seq(Names), b \in Names : Witness(s, start, b) /\ Along(s, b)
      BY DEF Inv, Repeated
    <3>2. cur \notin seen /\ file[cur].via \in table
      BY <1>0, <3>1, AlongStep
    <3> QED
      BY <1>3, <3>2 DEF CycleMet
  <2>2. stage' = "rejected" /\ UNCHANGED walk
    BY <1>0, <1>3, <2>1 DEF WalkOn, Refuse
  <2>3. TypeOK'
    BY <1>0, <2>2 DEF TypeOK, Stages, Chained, walk
  <2> QED
    BY <1>2, <2>2, <2>3 DEF Inv, Walked, Walking, Repeated, Validated, Connects
<1>4. CASE ~(CycleMet \/ file[cur].via \notin table)
  <2>1. /\ seen' = seen \cup {cur}
        /\ path' = Append(path, cur)
        /\ cur' = file[cur].via
        /\ stage' = stage
        /\ cur \notin seen /\ file[cur].via \in table
    BY <1>4 DEF WalkOn, CycleMet
  <2>2. TypeOK'
    BY <1>0, <2>1 DEF TypeOK, Chained
  <2>3. Walked'
    <3>1. \A i \in 1 .. Len(path) : path[i] # cur
      BY <1>0, <2>1 DEF Walked
    <3>2. Linked(Append(path, cur), start, file[cur].via)
      BY <1>0, <3>1, LinkedStep DEF Walked, TypeOK
    <3>3. Linked(path, start, cur)'
      BY <1>0, <2>1, <3>2 DEF Linked, Chained
    <3>4. seen' = {path'[i] : i \in 1 .. Len(path')}
      <4>1. /\ Len(path') = Len(path) + 1 /\ path'[Len(path')] = cur
            /\ \A i \in 1 .. Len(path) : path'[i] = path[i]
        BY <1>0, <2>1 DEF TypeOK
      <4>2. Len(path) \in Nat /\ 1 .. Len(path') = 1 .. Len(path) \cup {Len(path')}
        BY <1>0, <4>1 DEF TypeOK
      <4> QED
        BY <1>0, <2>1, <4>1, <4>2 DEF Walked
    <3> QED
      BY <1>0, <2>1, <3>3, <3>4 DEF Walked, Chained
  <2>4. Repeated'
    <3> SUFFICES ASSUME stage = "open"
                 PROVE  \E s \in Seq(Names), b \in Names :
                          Witness(s, start, b)' /\ Along(s, b)'
      BY <2>1 DEF Repeated
    <3>1. PICK s \in Seq(Names), b \in Names : Witness(s, start, b) /\ Along(s, b)
      BY DEF Inv, Repeated
    <3>2. /\ Len(path) < Len(s)
          /\ cur = s[Len(path) + 1]
          /\ file[cur].via = IF Len(path) + 1 < Len(s) THEN s[Len(path) + 2] ELSE b
      BY <1>0, <3>1, AlongStep
    <3>3. Along(s, b)'
      <4>1. /\ Len(path') = Len(path) + 1 /\ path'[Len(path')] = cur
            /\ \A i \in 1 .. Len(path) : path'[i] = path[i]
            /\ Len(path) \in Nat /\ Len(s) \in Nat
        BY <1>0, <2>1 DEF TypeOK
      <4> QED
        BY <2>1, <3>1, <3>2, <4>1 DEF Along
    <3>4. Witness(s, start, b)'
      BY <1>0, <3>1, Frame DEF TypeOK, Witness, Linked, Chained
    <3> QED
      BY <3>3, <3>4
  <2>5. Validated'
    BY <1>0, <1>2, <2>1 DEF Inv, Validated, AllChecked, Chained
  <2>6. Connects'
    BY <1>0, <2>1 DEF Connects
  <2> QED
    BY <2>2, <2>3, <2>4, <2>5, <2>6 DEF Inv
<1> QED
  BY <1>3, <1>4

LEMMA WalkEndsInv == Inv /\ WalkEnds => Inv'
<1> SUFFICES ASSUME Inv, WalkEnds PROVE Inv'
  OBVIOUS
<1>1. /\ TypeOK /\ Walked /\ Walking /\ ~Chained(cur)
      /\ stage' \in {"validate", "serve"}
      /\ stage' = "serve" => stage = "open" /\ checked' = checked
      /\ checked' \in {checked, checked \cup {start}}
      /\ commands' = BaseFirst(path)
      /\ UNCHANGED <<file, table, walk>>
  BY DEF Inv, WalkEnds, Walking
<1>2. Witness(path, start, cur)
  BY <1>1, WalkEndsWitness
<1>3. start \in table /\ Chained(start)
  BY <1>1 DEF Walked
<1>4. Witness(path, start, cur)'
  BY <1>1, <1>2 DEF Witness, Linked, Chained, walk
<1>5. TypeOK'
  <2>1. commands' \in Seq(Names)
    BY <1>1, BaseFirstType DEF TypeOK
  <2> QED
    BY <1>1, <1>3, <2>1 DEF TypeOK, Stages, Chained, walk
<1>6. Validated'
  <2>1. Routed(start)
    BY <1>1, <1>2 DEF Routed, TypeOK
  <2>2. \A n \in checked' : Routed(n)
    BY <1>1, <2>1 DEF Inv, Validated
  <2>3. \A n \in checked' : Routed(n)'
    BY <1>1, <1>5, <2>2, Frame DEF TypeOK
  <2> QED
    BY <1>1, <2>3 DEF Inv, Validated, AllChecked, Chained
<1>7. Connects'
  BY <1>1, <1>4 DEF Connects, walk, BaseFirst
<1> QED
  BY <1>1, <1>5, <1>6, <1>7 DEF Inv, Walked, Walking, Repeated

LEMMA ResolveInv == Inv /\ (ValidateNode \/ OpenChained) => Inv'
<1> SUFFICES ASSUME Inv, ValidateNode \/ OpenChained PROVE Inv'
  OBVIOUS
<1>1. PICK n \in table :
        /\ Chained(n)
        /\ Resolve(n)
        /\ \/ stage = "validate" /\ stage' = "walk"
           \/ stage = "serve" /\ stage' = "open"
  BY DEF ValidateNode, OpenChained
<1>2. /\ start' = n /\ cur' = n /\ seen' = {} /\ path' = <<>>
      /\ UNCHANGED <<file, table, checked, commands>>
  BY <1>1 DEF Resolve
<1>3. n \in Names
  BY DEF Inv, TypeOK
<1>4. TypeOK'
  BY <1>1, <1>2, <1>3 DEF Inv, TypeOK, Stages, Chained
<1>5. Walked'
  <2>1. Linked(path, start, cur)'
    BY <1>2 DEF Linked
  <2> QED
    BY <1>1, <1>2, <2>1 DEF Walked, Chained
<1>6. Repeated'
  <2> SUFFICES ASSUME stage = "serve", stage' = "open"
               PROVE  \E s \in Seq(Names), b \in Names :
                        Witness(s, n, b)' /\ Along(s, b)'
    BY <1>1, <1>2 DEF Repeated
  <2>1. n \in checked
    BY <1>1 DEF Inv, Validated, AllChecked
  <2>2. PICK s \in Seq(Names), b \in Names : Witness(s, n, b)
    BY <2>1 DEF Inv, Validated, Routed
  <2>3. Witness(s, n, b)'
    BY <1>2, <1>3, <2>2, Frame
  <2>4. Len(s) \in Nat /\ Len(s) > 0 /\ s[1] = n
    BY <2>2 DEF Witness, Linked
  <2>5. Along(s, b)'
    BY <1>2, <2>4 DEF Along
  <2> QED
    BY <2>3, <2>5
<1>7. Validated'
  <2>1. \A m \in checked' : Routed(m)'
    BY <1>2, <1>4, Frame DEF Inv, TypeOK, Validated
  <2> QED
    BY <1>1, <1>2, <2>1 DEF Inv, Validated, AllChecked, Chained
<1> QED
  BY <1>1, <1>4, <1>5, <1>6, <1>7 DEF Inv, Connects

LEMMA AcceptInv == Inv /\ (Accept \/ UNCHANGED vars) => Inv'
<1> SUFFICES ASSUME Inv, Accept \/ UNCHANGED vars PROVE Inv'
  OBVIOUS
<1>1. /\ UNCHANGED <<file, table, checked, walk, commands>>
      /\ stage' = stage \/ (stage = "validate" /\ stage' = "serve" /\ AllChecked)
  BY DEF Accept, vars
<1>2. TypeOK'
  BY <1>1 DEF Inv, TypeOK, Stages, Chained, walk
<1>3. Walked'
  BY <1>1 DEF Inv, Walked, Walking, Linked, Chained, walk
<1>4. Repeated'
  <2> SUFFICES ASSUME stage = "open"
               PROVE  \E s \in Seq(Names), b \in Names :
                        Witness(s, start, b)' /\ Along(s, b)'
    BY <1>1 DEF Repeated
  <2>1. PICK s \in Seq(Names), b \in Names : Witness(s, start, b) /\ Along(s, b)
    BY DEF Inv, Repeated
  <2>2. Witness(s, start, b)' /\ Along(s, b)'
    BY <1>1, <2>1 DEF Witness, Linked, Along, Chained, walk
  <2> QED
    BY <2>2
<1>5. Validated'
  <2>1. \A m \in checked' : Routed(m)'
    BY <1>1, Frame DEF Inv, TypeOK, Validated
  <2> QED
    BY <1>1, <2>1 DEF Inv, Validated, AllChecked, Chained
<1>6. Connects'
  BY <1>1 DEF Inv, Connects, Witness, Linked, Chained, BaseFirst, walk
<1> QED
  BY <1>2, <1>3, <1>4, <1>5, <1>6 DEF Inv

LEMMA SpecInv == Spec => []Inv
<1>1. Inv /\ [Next]_vars => Inv'
  BY LoadInv, WalkOnInv, WalkEndsInv, ResolveInv, AcceptInv DEF Next, Load, Ended
<1> QED
  BY <1>1, InitInv, PTL DEF Spec

-----------------------------------------------------------------------------
\* The variables of the node table keep their types.
THEOREM Typing == Spec => []TypeOK
<1>1. Inv => TypeOK
  BY DEF Inv
<1> QED
  BY <1>1, SpecInv, PTL

\* resolve_chain collects a simple chain from the node asked for.
THEOREM Simple == Spec => []SimpleChain
<1>1. Inv => SimpleChain
  <2> SUFFICES ASSUME Inv, Walking PROVE SimpleChain
    BY DEF SimpleChain
  <2>1. Linked(path, start, cur)
    BY DEF Inv, Walked
  <2> QED
    BY <2>1 DEF Linked, SimpleChain
<1> QED
  BY <1>1, SpecInv, PTL

\* Once load_nodes has accepted a file, open_transport can resolve every
\* chained node of it, at every later call.
THEOREM NeverBreaks == Spec => []NeverBroken
<1>1. Inv => NeverBroken
  BY DEF Inv, Validated, NeverBroken
<1> QED
  BY <1>1, SpecInv, PTL

\* The connect path handed to a call leads from a neighbour of the base, hop by
\* hop, to the node asked for.
THEOREM ReachesTarget == Spec => []PathReachesTarget
<1>1. Inv => PathReachesTarget
  <2> SUFFICES ASSUME Inv, stage = "serve", commands # <<>> PROVE PathReachesTarget
    BY DEF PathReachesTarget
  <2>1. commands = BaseFirst(path) /\ Witness(path, start, cur)
    BY DEF Inv, Connects
  <2>2. path \in Seq(Names) /\ path # <<>> /\ Len(path) \in Nat /\ Len(path) > 0
    BY <2>1 DEF Witness, Linked
  <2>3. /\ Len(commands) = Len(path)
        /\ \A i \in 1 .. Len(path) : commands[i] = path[Len(path) + 1 - i]
    BY <2>1, <2>2, BaseFirstType
  <2>4. commands[Len(commands)] = start
    <3>1. Len(path) \in 1 .. Len(path) /\ Len(path) + 1 - Len(path) = 1
      BY <2>2
    <3> QED
      BY <2>1, <2>2, <2>3, <3>1 DEF Witness, Linked
  <2>5. ~Chained(file[commands[1]].via)
    <3>1. 1 \in 1 .. Len(path) /\ Len(path) + 1 - 1 = Len(path)
      BY <2>2
    <3> QED
      BY <2>1, <2>2, <2>3, <3>1 DEF Witness, Linked
  <2>6. \A i \in 2 .. Len(commands) : file[commands[i]].via = commands[i - 1]
    <3> TAKE i \in 2 .. Len(commands)
    <3> DEFINE j == Len(path) + 1 - i
    <3>1. j \in 1 .. Len(path) - 1 /\ i \in 1 .. Len(path)
          /\ i - 1 \in 1 .. Len(path) /\ Len(path) + 1 - (i - 1) = j + 1
      BY <2>2, <2>3
    <3>2. commands[i] = path[j] /\ commands[i - 1] = path[j + 1]
      BY <2>3, <3>1
    <3> HIDE DEF j
    <3> QED
      BY <2>1, <3>1, <3>2 DEF Witness, Linked
  <2> QED
    BY <2>4, <2>5, <2>6 DEF PathReachesTarget
<1> QED
  BY <1>1, SpecInv, PTL

-----------------------------------------------------------------------------
(* Grounded nodes.                                                           *)

\* The well-ordering of the naturals, as induction up to a bound.
LEMMA Upward ==
  ASSUME NEW n \in Nat, NEW T, T \subseteq 0 .. n, 0 \in T,
         \A i \in 0 .. n : i < n /\ i \in T => i + 1 \in T
  PROVE  T = 0 .. n
<1> SUFFICES ASSUME (0 .. n) \ T # {} PROVE FALSE
  OBVIOUS
<1> DEFINE U == (0 .. n) \ T
           less == {ss \in Nat \X Nat : ss[1] < ss[2]}
<1>1. IsWellFoundedOn(less, Nat)
  BY NatLessThanWellFounded DEF OpToRel
<1>2. \A x, y \in Nat : y < x => <<y, x>> \in less
  OBVIOUS
<1>3. U \subseteq Nat /\ U # {}
  OBVIOUS
<1> HIDE DEF less, U
<1>4. PICK x \in U : \A y \in U : <<y, x>> \notin less
  BY <1>1, <1>3, WFMin
<1>5. x \in 0 .. n /\ x \notin T
  BY <1>4 DEF U
<1>6. x # 0 /\ x - 1 \in 0 .. n /\ x - 1 < n /\ (x - 1) + 1 = x
  BY <1>5
<1>7. x - 1 \notin T
  BY <1>5, <1>6
<1>8. x - 1 \in U /\ x - 1 \in Nat /\ x \in Nat /\ x - 1 < x
  BY <1>5, <1>6, <1>7 DEF U
<1> QED
  BY <1>2, <1>4, <1>8

\* Where transit_via leads.
Onward(m) == IF m \in DOMAIN file /\ Chained(m) THEN file[m].via ELSE m

LEMMA FollowExists ==
  ASSUME NEW n, NEW L \in Nat
  PROVE  \E r : r = [k \in 0 .. L |-> IF k = 0 THEN n ELSE Onward(r[k - 1])]
<1> DEFINE at(r, k) == IF k = 0 THEN n ELSE Onward(r[k - 1])
           Until(r, i) == /\ DOMAIN r = 0 .. L
                          /\ \A j \in 0 .. L : j <= i => r[j] = at(r, j)
           T == {i \in 0 .. L : \E r : Until(r, i)}
<1>0. 0 \in 0 .. L /\ L \in 0 .. L
  OBVIOUS
<1>1. 0 \in T
  <2> DEFINE r == [j \in 0 .. L |-> n]
  <2>1. Until(r, 0)
    OBVIOUS
  <2> QED
    BY <1>0, <2>1
<1>2. ASSUME NEW i \in 0 .. L, i < L, i \in T
      PROVE  i + 1 \in T
  <2>1. PICK r : Until(r, i)
    BY <1>2
  <2> DEFINE v == [r EXCEPT ![i + 1] = at(r, i + 1)]
  <2>2. i + 1 \in 0 .. L
    BY <1>2
  <2>3. /\ DOMAIN v = 0 .. L /\ v[i + 1] = at(r, i + 1)
        /\ \A j \in 0 .. L : j # i + 1 => v[j] = r[j]
    BY <2>1, <2>2
  <2> HIDE DEF v
  <2>4. \A j \in 0 .. L : j <= i + 1 => at(v, j) = at(r, j)
    <3> SUFFICES ASSUME NEW j \in 0 .. L, j <= i + 1, j # 0 PROVE v[j - 1] = r[j - 1]
      OBVIOUS
    <3>1. j - 1 \in 0 .. L /\ j - 1 # i + 1
      OBVIOUS
    <3> QED
      BY <2>3, <3>1
  <2>5. Until(v, i + 1)
    <3>1. \A j \in 0 .. L : j <= i + 1 => j <= i \/ j = i + 1
      OBVIOUS
    <3> HIDE DEF at
    <3> QED
      BY <2>1, <2>3, <2>4, <3>1
  <2> QED
    BY <2>2, <2>5
<1>3. T = 0 .. L
  <2>1. T \subseteq 0 .. L
    OBVIOUS
  <2> HIDE DEF T
  <2> QED
    BY <1>0, <1>1, <1>2, <2>1, Upward
<1>4. PICK r : Until(r, L)
  BY <1>0, <1>3
<1> DEFINE v == [j \in 0 .. L |-> r[j]]
<1>5. \A j \in 0 .. L : v[j] = at(v, j)
  <2> TAKE j \in 0 .. L
  <2>1. v[j] = r[j] /\ r[j] = at(r, j)
    BY <1>4
  <2>2. j # 0 => v[j - 1] = r[j - 1]
    OBVIOUS
  <2> QED
    BY <2>1, <2>2
<1>6. v = [j \in 0 .. L |-> at(v, j)]
  BY <1>5
<1> QED
  BY <1>6, Zenon

\* Grounded follows transit_via from n, step by step.
LEMMA Followed ==
  ASSUME NEW n
  PROVE  \E r : /\ r[0] = n
                /\ \A k \in 0 .. Cardinality(Names) : k < Cardinality(Names) => r[k + 1] = Onward(r[k])
                /\ Grounded(n) <=> /\ r[Cardinality(Names)] \in DOMAIN file
                                   /\ ~Chained(r[Cardinality(Names)])
<1> DEFINE L == Cardinality(Names)
           r == CHOOSE r : r = [k \in 0 .. L |-> IF k = 0 THEN n ELSE Onward(r[k - 1])]
<1>0. L \in Nat
  BY FilesAssumption, FS_CardinalityType
<1>1. Grounded(n) <=> r[L] \in DOMAIN file /\ ~Chained(r[L])
  BY Zenon DEF Grounded, Onward
<1> HIDE DEF L
<1>2. r = [k \in 0 .. L |-> IF k = 0 THEN n ELSE Onward(r[k - 1])]
  BY <1>0, FollowExists
<1> HIDE DEF r
<1>3. r[0] = n
  BY <1>0, <1>2
<1>4. \A k \in 0 .. L : k < L => r[k + 1] = Onward(r[k])
  <2> SUFFICES ASSUME NEW k \in 0 .. L, k < L PROVE r[k + 1] = Onward(r[k])
    OBVIOUS
  <2>1. k + 1 \in 0 .. L /\ k + 1 # 0 /\ (k + 1) - 1 = k
    BY <1>0
  <2> QED
    BY <1>2, <2>1
<1> QED
  BY <1>1, <1>3, <1>4 DEF L

\* A whole chain leads to its base within as many steps as there are names.
LEMMA RoutedGrounded ==
  ASSUME TypeOK, NEW n, Routed(n)
  PROVE  Grounded(n)
<1>1. PICK s \in Seq(Names), b \in Names : Witness(s, n, b)
  BY DEF Routed
<1> DEFINE N == Cardinality(Names)
           L == Len(s)
<1>2. PICK r : /\ r[0] = n
               /\ \A k \in 0 .. N : k < N => r[k + 1] = Onward(r[k])
               /\ Grounded(n) <=> r[N] \in DOMAIN file /\ ~Chained(r[N])
  BY Followed
<1>3. /\ s # <<>> /\ s[1] = n /\ file[s[L]].via = b
      /\ \A i \in 1 .. L : s[i] \in table /\ Chained(s[i])
      /\ \A i \in 1 .. L - 1 : file[s[i]].via = s[i + 1]
      /\ \A i, j \in 1 .. L : s[i] = s[j] => i = j
      /\ b \in DOMAIN file /\ ~Chained(b)
  BY <1>1 DEF Witness, Linked, TypeOK
<1>4. L \in Nat /\ L >= 1 /\ \A i \in 1 .. L : s[i] \in Names
  BY <1>3
<1>5. N \in Nat /\ L <= N
  <2>1. IsFiniteSet(Names) /\ N \in Nat
    BY FilesAssumption, FS_CardinalityType
  <2> DEFINE f == [i \in 1 .. L |-> s[i]]
  <2>2. f \in Injection(1 .. L, Names)
    BY <1>3, <1>4 DEF Injection, IsInjective
  <2>3. Cardinality(1 .. L) <= N
    BY <2>1, <2>2, FS_Injection
  <2>4. Cardinality(1 .. L) = L
    <3>1. \A m \in Nat : Cardinality(1 .. m) = m
      BY FS_Interval
    <3> QED
      BY <1>4, <3>1
  <2> QED
    BY <2>1, <2>3, <2>4
<1>6. \A i \in 1 .. L : s[i] \in DOMAIN file
  BY <1>3 DEF TypeOK
<1> HIDE DEF N, L
<1> DEFINE T == {k \in 0 .. N : r[k] = IF k < L THEN s[k + 1] ELSE b}
<1>7. 0 \in T
  BY <1>2, <1>3, <1>4, <1>5
<1>8. ASSUME NEW k \in 0 .. N, k < N, k \in T
      PROVE  k + 1 \in T
  <2>1. k + 1 \in 0 .. N /\ r[k + 1] = Onward(r[k])
    BY <1>2, <1>5, <1>8
  <2>2. CASE k + 1 < L
    <3>1. k + 1 \in 1 .. L - 1 /\ k + 1 \in 1 .. L /\ k < L
      BY <1>4, <1>5, <2>2
    <3>2. r[k] = s[k + 1]
      BY <1>8, <3>1
    <3> QED
      BY <1>3, <1>6, <2>1, <2>2, <3>1, <3>2 DEF Onward
  <2>3. CASE k + 1 = L
    <3>1. k + 1 \in 1 .. L /\ k < L /\ ~(k + 1 < L)
      BY <1>4, <1>5, <2>3
    <3>2. r[k] = s[L]
      BY <1>8, <2>3, <3>1
    <3>3. r[k + 1] = b
      BY <1>3, <1>6, <2>1, <2>3, <3>1, <3>2 DEF Onward
    <3> QED
      BY <2>1, <3>1, <3>3
  <2>4. CASE k >= L
    <3>1. ~(k < L) /\ ~(k + 1 < L)
      BY <1>4, <1>5, <2>4
    <3>2. r[k] = b
      BY <1>8, <3>1
    <3>3. r[k + 1] = b
      BY <1>3, <2>1, <3>2 DEF Onward
    <3> QED
      BY <2>1, <3>1, <3>3
  <2> QED
    BY <1>4, <1>5, <2>2, <2>3, <2>4
<1>9. T = 0 .. N
  <2>1. T \subseteq 0 .. N
    OBVIOUS
  <2> HIDE DEF T
  <2> QED
    BY <1>5, <1>7, <1>8, <2>1, Upward
<1>10. r[N] = b
  <2>1. N \in T /\ ~(N < L)
    BY <1>4, <1>5, <1>9
  <2> QED
    BY <2>1
<1> QED
  BY <1>2, <1>3, <1>10

\* From nodes whose transit nodes are among them no base is reached.
LEMMA CycleUngrounded ==
  ASSUME NEW C, C \subseteq DOMAIN file,
         \A m \in C : Chained(m) /\ file[m].via \in C,
         NEW c \in C
  PROVE  ~Grounded(c)
<1> DEFINE N == Cardinality(Names)
<1>1. PICK r : /\ r[0] = c
               /\ \A k \in 0 .. N : k < N => r[k + 1] = Onward(r[k])
               /\ Grounded(c) <=> r[N] \in DOMAIN file /\ ~Chained(r[N])
  BY Followed
<1>2. N \in Nat
  BY FilesAssumption, FS_CardinalityType
<1> HIDE DEF N
<1> DEFINE T == {k \in 0 .. N : r[k] \in C}
<1>3. 0 \in T
  BY <1>1, <1>2
<1>4. ASSUME NEW k \in 0 .. N, k < N, k \in T
      PROVE  k + 1 \in T
  <2>1. k + 1 \in 0 .. N /\ r[k + 1] = Onward(r[k]) /\ r[k] \in C
    BY <1>1, <1>2, <1>4
  <2>2. r[k + 1] \in C
    BY <2>1 DEF Onward
  <2> QED
    BY <2>1, <2>2
<1>5. T = 0 .. N
  <2>1. T \subseteq 0 .. N
    OBVIOUS
  <2> HIDE DEF T
  <2> QED
    BY <1>2, <1>3, <1>4, <2>1, Upward
<1>6. r[N] \in C
  <2>1. N \in T
    BY <1>2, <1>5
  <2> QED
    BY <2>1
<1> QED
  BY <1>1, <1>6

\* Nor from a node whose transit node is not in the file.
LEMMA StrayUngrounded ==
  ASSUME TypeOK, NEW c \in DOMAIN file, Chained(c), file[c].via \notin DOMAIN file
  PROVE  ~Grounded(c)
<1> DEFINE N == Cardinality(Names)
<1>1. PICK r : /\ r[0] = c
               /\ \A k \in 0 .. N : k < N => r[k + 1] = Onward(r[k])
               /\ Grounded(c) <=> r[N] \in DOMAIN file /\ ~Chained(r[N])
  BY Followed
<1>2. N \in Nat /\ N # 0
  <2>1. Names # {} /\ IsFiniteSet(Names)
    BY FilesAssumption
  <2> QED
    BY <2>1, FS_CardinalityType, FS_EmptySet
<1> HIDE DEF N
<1> DEFINE T == {k \in 0 .. N : k = 0 \/ r[k] = file[c].via}
<1>3. 0 \in T
  BY <1>2
<1>4. ASSUME NEW k \in 0 .. N, k < N, k \in T
      PROVE  k + 1 \in T
  <2>1. k + 1 \in 0 .. N /\ r[k + 1] = Onward(r[k])
    BY <1>1, <1>2, <1>4
  <2>2. r[k] = c \/ r[k] = file[c].via
    BY <1>1, <1>4
  <2>3. r[k + 1] = file[c].via
    BY <2>1, <2>2 DEF Onward
  <2> QED
    BY <2>1, <2>3
<1>5. T = 0 .. N
  <2>1. T \subseteq 0 .. N
    OBVIOUS
  <2> HIDE DEF T
  <2> QED
    BY <1>2, <1>3, <1>4, <2>1, Upward
<1>6. r[N] = file[c].via
  <2>1. N \in T
    BY <1>2, <1>5
  <2> QED
    BY <1>2, <2>1
<1> QED
  BY <1>1, <1>6

\* Once the entries are loaded they are those of the file, and a file whose
\* entries are complete is rejected for a node that reaches no base.
Judged ==
  /\ stage \notin {"load", "rejected"} => table = DOMAIN file
  /\ stage = "rejected" => \/ \E n \in DOMAIN file : ~file[n].complete
                           \/ \E n \in DOMAIN file : ~Grounded(n)

LEMMA NextJudged ==
  ASSUME Inv, Judged, [Next]_vars
  PROVE  Judged'
<1>1. file' = file
  BY DEF Next, Load, LoadEntry, EndLoad, ValidateNode, Resolve, WalkOn, Refuse, WalkEnds,
         Accept, OpenChained, Ended, vars
<1>2. \A n : Grounded(n)' <=> Grounded(n)
  BY <1>1 DEF Grounded, Chained
<1>3. CASE UNCHANGED <<stage, table>>
  BY <1>1, <1>2, <1>3 DEF Judged
<1>4. CASE LoadEntry
  BY <1>1, <1>4 DEF LoadEntry, Acceptable, Judged
<1>5. CASE EndLoad
  BY <1>1, <1>5 DEF EndLoad, Judged
<1>6. CASE ValidateNode \/ Accept \/ OpenChained
  BY <1>1, <1>6 DEF ValidateNode, Accept, OpenChained, Resolve, Judged
<1>7. CASE WalkEnds
  BY <1>1, <1>7 DEF WalkEnds, Walking, Judged
<1>8. CASE WalkOn
  <2>1. Walking /\ Chained(cur) /\ table = DOMAIN file
    BY <1>8 DEF WalkOn, Walking, Judged
  <2>2. CASE ~(CycleMet \/ file[cur].via \notin table)
    BY <1>3, <1>8, <2>2 DEF WalkOn
  <2>3. CASE CycleMet \/ file[cur].via \notin table
    <3>1. /\ stage' = IF stage = "walk" THEN "rejected" ELSE "broken"
          /\ table' = table
      BY <1>8, <2>3 DEF WalkOn, Refuse
    <3>2. Linked(path, start, cur) /\ cur \in table
          /\ seen = {path[i] : i \in 1 .. Len(path)}
      BY <2>1 DEF Inv, Walked
    <3>3. ~Grounded(cur)
      <4>1. CASE file[cur].via \notin table
        BY <2>1, <3>2, <4>1, StrayUngrounded DEF Inv
      <4>2. CASE CycleMet
        <5>1. cur \in seen
          BY <4>2 DEF CycleMet
        <5>2. path # <<>> /\ Len(path) \in Nat
          BY <3>2, <5>1 DEF Linked
        <5>3. \A m \in seen : m \in DOMAIN file /\ Chained(m) /\ file[m].via \in seen
          <6> TAKE m \in seen
          <6>1. PICK i \in 1 .. Len(path) : m = path[i]
            BY <3>2
          <6>2. m \in DOMAIN file /\ Chained(m)
            BY <2>1, <3>2, <6>1 DEF Linked
          <6>3. CASE i = Len(path)
            BY <3>2, <5>1, <5>2, <6>1, <6>2, <6>3 DEF Linked
          <6>4. CASE i # Len(path)
            <7>1. i \in 1 .. Len(path) - 1 /\ i + 1 \in 1 .. Len(path)
              BY <5>2, <6>4
            <7>2. file[m].via = path[i + 1]
              BY <3>2, <6>1, <7>1 DEF Linked
            <7> QED
              BY <3>2, <6>2, <7>1, <7>2
          <6> QED
            BY <6>3, <6>4
        <5> QED
          BY <5>1, <5>3, CycleUngrounded
      <4> QED
        BY <2>3, <4>1, <4>2
    <3>4. cur \in DOMAIN file
      BY <2>1, <3>2
    <3> QED
      BY <1>1, <1>2, <2>1, <3>1, <3>3, <3>4 DEF Judged
  <2> QED
    BY <2>2, <2>3
<1> QED
  BY <1>3, <1>4, <1>5, <1>6, <1>7, <1>8 DEF Next, Load, Ended, vars

\* load_nodes accepts a file only if every chained node of it ends at a direct
\* base, and rejects one whose entries are complete only if some node does not.
THEOREM ServesGrounded == Spec => []ServedMeansGrounded
<1>1. Init => Judged
  BY DEF Init, Judged
<1>2. Inv /\ Judged /\ [Next]_vars => Judged'
  BY NextJudged
<1>3. Inv /\ Judged => ServedMeansGrounded
  <2> SUFFICES ASSUME Inv, Judged PROVE ServedMeansGrounded
    OBVIOUS
  <2>1. ASSUME stage \in {"serve", "open"}, NEW n \in DOMAIN file, Chained(n)
        PROVE  Grounded(n)
    <3>1. n \in table
      BY <2>1 DEF Judged
    <3>2. n \in checked
      BY <2>1, <3>1 DEF Inv, Validated, AllChecked
    <3>3. Routed(n)
      BY <3>2 DEF Inv, Validated
    <3> QED
      BY <3>3, RoutedGrounded DEF Inv
  <2> QED
    BY <2>1 DEF Judged, ServedMeansGrounded
<1> QED
  BY <1>1, <1>2, <1>3, SpecInv, PTL DEF Spec
=============================================================================
