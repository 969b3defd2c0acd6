-------------------------- MODULE DiscoveryProofs --------------------------
(* For any number of nodes and any tables: whatever the order in which the   *)
(* nodes answer, the routes ranked are those the tables determine.           *)
EXTENDS Discovery, Integers, FiniteSetTheorems, FunctionTheorems, SequenceTheorems, TLAPS

-----------------------------------------------------------------------------
(* Finite orders.                                                            *)

\* The well-ordering of the naturals.
LEMMA Least ==
  ASSUME NEW T, T \subseteq Nat, T # {}
  PROVE  \E x \in T : \A y \in T : x <= y
<1> DEFINE less == {ss \in Nat \X Nat : ss[1] < ss[2]}
<1>1. IsWellFoundedOn(less, Nat)
  BY NatLessThanWellFounded DEF OpToRel
<1>2. \A x, y \in Nat : y < x => <<y, x>> \in less
  OBVIOUS
<1> HIDE DEF less
<1>3. PICK x \in T : \A y \in T : <<y, x>> \notin less
  BY <1>1, WFMin
<1>4. \A y \in T : ~(y < x)
  BY <1>2, <1>3
<1> QED
  BY <1>3, <1>4

\* What is below each element of a finite strict order.
Below(S, R) == [x \in S |-> {y \in S : <<y, x>> \in R}]

StrictOrder(S, R) ==
  /\ \A x \in S : <<x, x>> \notin R
  /\ \A x, y, z \in S : <<x, y>> \in R /\ <<y, z>> \in R => <<x, z>> \in R

LEMMA BelowGrows ==
  ASSUME NEW S, IsFiniteSet(S), NEW R, StrictOrder(S, R)
  PROVE  /\ \A x \in S : Cardinality(Below(S, R)[x]) \in 0 .. Cardinality(S) - 1
         /\ \A x, y \in S : <<x, y>> \in R =>
              Cardinality(Below(S, R)[x]) < Cardinality(Below(S, R)[y])
<1>0. Cardinality(S) \in Nat
  BY FS_CardinalityType
<1>1. ASSUME NEW x \in S
      PROVE  /\ IsFiniteSet(Below(S, R)[x])
             /\ Cardinality(Below(S, R)[x]) \in 0 .. Cardinality(S) - 1
  <2>1. Below(S, R)[x] \in SUBSET (S \ {x})
    BY DEF Below, StrictOrder
  <2>2. IsFiniteSet(S \ {x}) /\ Cardinality(S \ {x}) = Cardinality(S) - 1
    BY FS_RemoveElement
  <2>3. IsFiniteSet(Below(S, R)[x]) /\ Cardinality(Below(S, R)[x]) <= Cardinality(S) - 1
    BY <2>1, <2>2, FS_Subset
  <2>4. Cardinality(Below(S, R)[x]) \in Nat
    BY <2>3, FS_CardinalityType
  <2> QED
    BY <1>0, <2>3, <2>4
<1>2. ASSUME NEW x \in S, NEW y \in S, <<x, y>> \in R
      PROVE  Cardinality(Below(S, R)[x]) < Cardinality(Below(S, R)[y])
  <2>1. /\ Below(S, R)[x] \in SUBSET Below(S, R)[y]
        /\ x \in Below(S, R)[y] /\ x \notin Below(S, R)[x]
    BY <1>2 DEF Below, StrictOrder
  <2>2. IsFiniteSet(Below(S, R)[y])
    BY <1>1
  <2>3. /\ Cardinality(Below(S, R)[x]) <= Cardinality(Below(S, R)[y])
        /\ Cardinality(Below(S, R)[x]) # Cardinality(Below(S, R)[y])
    BY <2>1, <2>2, FS_Subset
  <2>4. Cardinality(Below(S, R)[x]) \in Nat /\ Cardinality(Below(S, R)[y]) \in Nat
    BY <1>0, <1>1
  <2> QED
    BY <2>3, <2>4
<1> QED
  BY <1>1, <1>2

LEMMA MinimalExists ==
  ASSUME NEW S, IsFiniteSet(S), S # {}, NEW R, StrictOrder(S, R)
  PROVE  \E x \in S : \A y \in S : <<y, x>> \notin R
<1> DEFINE size == [x \in S |-> Cardinality(Below(S, R)[x])]
           sizes == {size[x] : x \in S}
<1>1. \A x \in S : size[x] \in Nat
  BY BelowGrows, FS_CardinalityType
<1>2. \A x, y \in S : <<x, y>> \in R => size[x] < size[y]
  BY BelowGrows
<1> HIDE DEF size
<1>3. PICK x \in S : \A y \in S : size[x] <= size[y]
  <2>1. sizes \subseteq Nat /\ sizes # {}
    BY <1>1
  <2>2. PICK s \in sizes : \A t \in sizes : s <= t
    BY <2>1, Least
  <2> QED
    BY <2>2
<1>4. \A y \in S : <<y, x>> \notin R
  BY <1>1, <1>2, <1>3
<1> QED
  BY <1>4

\* InOrder lists a finite total order.
LEMMA Listed ==
  ASSUME NEW S, IsFiniteSet(S), NEW R, StrictOrder(S, R),
         \A x, y \in S : x = y \/ <<x, y>> \in R \/ <<y, x>> \in R,
         NEW s, s = InOrder(S, Below(S, R))
  PROVE  /\ DOMAIN s = 1 .. Cardinality(S) /\ Len(s) = Cardinality(S)
         /\ Cardinality(S) \in Nat
         /\ \A i \in DOMAIN s : s[i] \in S
         /\ \A x \in S : \E i \in DOMAIN s : s[i] = x
         /\ \A i, j \in DOMAIN s : i < j => <<s[i], s[j]>> \in R
<1> DEFINE size == [x \in S |-> Cardinality(Below(S, R)[x])]
           n == Cardinality(S)
<1>0. n \in Nat
  BY FS_CardinalityType
<1>1. /\ size \in [S -> 0 .. n - 1]
      /\ \A x, y \in S : <<x, y>> \in R => size[x] < size[y]
      /\ \A x \in S : size[x] = Cardinality(Below(S, R)[x])
  BY BelowGrows
<1>2. s = [i \in 1 .. n |-> CHOOSE c \in S : size[c] = i - 1]
  BY <1>1 DEF InOrder
<1>3. DOMAIN s = 1 .. n /\ Len(s) = n
  BY <1>0, <1>2
<1> HIDE DEF size, n
<1>4. \A x, y \in S : size[x] = size[y] => x = y
  <2> SUFFICES ASSUME NEW x \in S, NEW y \in S, size[x] = size[y] PROVE x = y
    OBVIOUS
  <2>1. size[x] \in 0 .. n - 1
    BY <1>1
  <2>2. ~(size[x] < size[y]) /\ ~(size[y] < size[x])
    BY <1>0, <2>1
  <2> QED
    BY <1>1, <2>2
<1>5. size \in Injection(S, 0 .. n - 1)
  BY <1>1, <1>4 DEF Injection, IsInjective
<1>6. IsFiniteSet(0 .. n - 1) /\ Cardinality(0 .. n - 1) = n
  BY <1>0, FS_Interval
<1>7. size \in Surjection(S, 0 .. n - 1)
  BY <1>5, <1>6, FS_Injection DEF n
<1>8. \A k \in 0 .. n - 1 : \E x \in S : size[x] = k
  BY <1>7 DEF Surjection
<1>9. \A i \in 1 .. n : s[i] \in S /\ size[s[i]] = i - 1
  <2> TAKE i \in 1 .. n
  <2>1. i - 1 \in 0 .. n - 1
    BY <1>0
  <2>2. \E x \in S : size[x] = i - 1
    BY <1>8, <2>1
  <2>3. s[i] = CHOOSE c \in S : size[c] = i - 1
    BY <1>2
  <2> QED
    BY <2>2, <2>3
<1>10. \A x \in S : \E i \in 1 .. n : s[i] = x
  <2> TAKE x \in S
  <2>1. size[x] \in 0 .. n - 1
    BY <1>1
  <2>2. size[x] + 1 \in 1 .. n /\ (size[x] + 1) - 1 = size[x]
    BY <1>0, <2>1
  <2> QED
    BY <1>4, <1>9, <2>2
<1>11. \A i, j \in 1 .. n : i < j => <<s[i], s[j]>> \in R
  <2> SUFFICES ASSUME NEW i \in 1 .. n, NEW j \in 1 .. n, i < j PROVE <<s[i], s[j]>> \in R
    OBVIOUS
  <2>1. s[i] \in S /\ s[j] \in S /\ size[s[i]] < size[s[j]]
    BY <1>0, <1>9
  <2>2. s[i] # s[j] /\ <<s[j], s[i]>> \notin R
    <3>1. size[s[i]] \in 0 .. n - 1 /\ size[s[j]] \in 0 .. n - 1
      BY <1>1, <2>1
    <3> QED
      BY <1>0, <1>1, <2>1, <3>1
  <2> QED
    BY <2>1, <2>2
<1> QED
  BY <1>0, <1>3, <1>9, <1>10, <1>11 DEF n

-----------------------------------------------------------------------------
(* Ranking.                                                                  *)
Key == Int \X Int \X Int

LEMMA KeyOrder ==
  ASSUME NEW k \in Key, NEW l \in Key
  PROVE  KeyBelow(k, l) <=> Promise!Better(k, l)
<1>1. DOMAIN k = {1, 2, 3}
  BY DEF Key
<1>2. \A i \in {1, 2, 3} : 1 .. i - 1 = {j \in {1, 2} : j < i}
  OBVIOUS
<1>3. k[1] \in Int /\ k[2] \in Int /\ k[3] \in Int /\ l[1] \in Int /\ l[2] \in Int /\ l[3] \in Int
  BY DEF Key
<1>4. KeyBelow(k, l) <=> \E i \in {1, 2, 3} : k[i] < l[i] /\ \A j \in {1, 2} : j < i => k[j] = l[j]
  BY <1>1, <1>2 DEF KeyBelow
<1> QED
  BY <1>3, <1>4 DEF Promise!Better

LEMMA Appended ==
  ASSUME NEW T, NEW s \in Seq(T), NEW x \in T
  PROVE  /\ Append(s, x) \in Seq(T)
         /\ Len(Append(s, x)) = Len(s) + 1
         /\ Append(s, x)[Len(s) + 1] = x
         /\ \A i \in DOMAIN s : /\ i \in DOMAIN Append(s, x)
                                /\ Append(s, x)[i] = s[i]
         /\ Len(s) + 1 \in DOMAIN Append(s, x)
OBVIOUS

LEMMA Extended ==
  ASSUME NEW T, NEW k \in Seq(T), NEW p \in T
  PROVE  Len(k) = 3 =>
           /\ DOMAIN Append(k, p) = {1, 2, 3, 4} /\ Append(k, p)[4] = p
           /\ Append(k, p)[1] = k[1] /\ Append(k, p)[2] = k[2] /\ Append(k, p)[3] = k[3]
<1> DEFINE kp == Append(k, p)
<1>1. /\ kp \in Seq(T) /\ Len(kp) = Len(k) + 1 /\ kp[Len(k) + 1] = p
      /\ \A i \in DOMAIN k : kp[i] = k[i]
  BY Appended
<1> HIDE DEF kp
<1>2. DOMAIN kp = 1 .. Len(kp) /\ DOMAIN k = 1 .. Len(k)
  BY <1>1
<1>3. Len(k) = 3 => /\ DOMAIN kp = 1 .. 4 /\ kp[4] = p
                    /\ 1 \in DOMAIN k /\ 2 \in DOMAIN k /\ 3 \in DOMAIN k
  BY <1>1, <1>2
<1>4. 1 .. 4 = {1, 2, 3, 4}
  OBVIOUS
<1> QED
  BY <1>1, <1>3, <1>4, Zenon DEF kp

\* Keys that tie are told apart by the place of their nodes.
LEMMA PlacedOrder ==
  ASSUME NEW k \in Key, NEW l \in Key, NEW p \in Int, NEW q \in Int
  PROVE  KeyBelow(Append(k, p), Append(l, q)) <=> Promise!Better(k, l) \/ (k = l /\ p < q)
<1>1. PICK k1 \in Int, k2 \in Int, k3 \in Int : k = <<k1, k2, k3>>
  BY DEF Key
<1>2. PICK l1 \in Int, l2 \in Int, l3 \in Int : l = <<l1, l2, l3>>
  BY DEF Key
<1> DEFINE kp == Append(k, p)
           lq == Append(l, q)
<1>0. /\ k \in Seq(Int) /\ l \in Seq(Int)
      /\ Len(k) = 3 /\ Len(l) = 3
  BY <1>1, <1>2
<1>3. \A s \in Seq(Int), x \in Int : Len(s) = 3 =>
        /\ DOMAIN Append(s, x) = {1, 2, 3, 4} /\ Append(s, x)[4] = x
        /\ Append(s, x)[1] = s[1] /\ Append(s, x)[2] = s[2] /\ Append(s, x)[3] = s[3]
  BY Extended
<1>4. /\ DOMAIN kp = {1, 2, 3, 4}
      /\ kp[1] = k1 /\ kp[2] = k2 /\ kp[3] = k3 /\ kp[4] = p
      /\ lq[1] = l1 /\ lq[2] = l2 /\ lq[3] = l3 /\ lq[4] = q
  <2>1. k[1] = k1 /\ k[2] = k2 /\ k[3] = k3 /\ l[1] = l1 /\ l[2] = l2 /\ l[3] = l3
    BY <1>1, <1>2
  <2>2. /\ DOMAIN kp = {1, 2, 3, 4} /\ kp[4] = p
        /\ kp[1] = k[1] /\ kp[2] = k[2] /\ kp[3] = k[3]
    BY <1>0, <1>3, Zenon
  <2>3. lq[4] = q /\ lq[1] = l[1] /\ lq[2] = l[2] /\ lq[3] = l[3]
    BY <1>0, <1>3, Zenon
  <2> HIDE DEF kp, lq
  <2> QED
    BY <2>1, <2>2, <2>3
<1> HIDE DEF kp, lq
<1>5. \A i \in {1, 2, 3, 4} : 1 .. i - 1 = {j \in {1, 2, 3} : j < i}
  OBVIOUS
<1>6. KeyBelow(kp, lq) <=>
        \E i \in {1, 2, 3, 4} : kp[i] < lq[i] /\ \A j \in {1, 2, 3} : j < i => kp[j] = lq[j]
  BY <1>4, <1>5 DEF KeyBelow
<1>7. k = l <=> k1 = l1 /\ k2 = l2 /\ k3 = l3
  BY <1>1, <1>2
<1>8. Promise!Better(k, l) <=> \/ k1 < l1
                               \/ k1 = l1 /\ k2 < l2
                               \/ k1 = l1 /\ k2 = l2 /\ k3 < l3
  BY <1>1, <1>2 DEF Promise!Better
<1>9. KeyBelow(kp, lq) <=> \/ k1 < l1
                           \/ k1 = l1 /\ k2 < l2
                           \/ k1 = l1 /\ k2 = l2 /\ k3 < l3
                           \/ k1 = l1 /\ k2 = l2 /\ k3 = l3 /\ p < q
  BY <1>4, <1>6
<1> QED
  BY <1>7, <1>8, <1>9 DEF kp, lq

LEMMA BetterStrict ==
  /\ \A k \in Key : ~Promise!Better(k, k)
  /\ \A k, l, m \in Key :
       Promise!Better(k, l) /\ Promise!Better(l, m) => Promise!Better(k, m)
  /\ \A k, l \in Key : k = l \/ Promise!Better(k, l) \/ Promise!Better(l, k)
<1>1. \A k \in Key : k[1] \in Int /\ k[2] \in Int /\ k[3] \in Int
  BY DEF Key
<1>2. \A k, l \in Key : k[1] = l[1] /\ k[2] = l[2] /\ k[3] = l[3] => k = l
  BY DEF Key
<1> QED
  BY <1>1, <1>2 DEF Promise!Better

-----------------------------------------------------------------------------
(* The candidates of one node.                                               *)

\* c is the best of the candidates C, if there are any.
IsBest(c, C) ==
  IF C = {}
  THEN c = NoRoute
  ELSE c \in C /\ \A d \in C : ~Promise!Better(RankKey(d), RankKey(c))

LEMMA Considered ==
  ASSUME NEW C, NEW cands, IsFiniteSet(cands),
         \A c \in C \cup cands : RankKey(c) \in Key /\ c # NoRoute,
         NEW current, IsBest(current, C)
  PROVE  IsBest(Consider(current, cands), C \cup cands)
<1> DEFINE all == cands \cup IF current = NoRoute THEN {} ELSE {current}
           R == {p \in all \X all : Promise!Better(RankKey(p[1]), RankKey(p[2]))}
<1>1. IF C = {} THEN all = cands ELSE all = cands \cup {current} /\ current \in C
  BY DEF IsBest
<1>2. IsFiniteSet(all)
  BY <1>1, FS_AddElement
<1>3. \A c \in all : RankKey(c) \in Key
  BY <1>1
<1>4. all \subseteq C \cup cands /\ (all = {} <=> C \cup cands = {})
  BY <1>1
<1>5. Consider(current, cands) =
        IF all = {} THEN NoRoute
        ELSE CHOOSE c \in all : \A d \in all : ~KeyBelow(RankKey(d), RankKey(c))
  BY Zenon DEF Consider
<1> HIDE DEF all
<1>6. CASE all = {}
  BY <1>4, <1>5, <1>6 DEF IsBest
<1>7. CASE all # {}
  <2> DEFINE c == Consider(current, cands)
  <2>1. StrictOrder(all, R)
    BY <1>3, BetterStrict DEF StrictOrder
  <2>2. \A x, y \in all : <<x, y>> \in R <=> KeyBelow(RankKey(x), RankKey(y))
    BY <1>3, KeyOrder
  <2> HIDE DEF R
  <2>3. \E x \in all : \A y \in all : <<y, x>> \notin R
    BY <1>2, <1>7, <2>1, MinimalExists
  <2>4. \E x \in all : \A y \in all : ~KeyBelow(RankKey(y), RankKey(x))
    BY <2>2, <2>3
  <2>5. c \in all /\ \A y \in all : ~KeyBelow(RankKey(y), RankKey(c))
    BY <1>5, <1>7, <2>4
  <2> HIDE DEF c
  <2>6. \A y \in all : ~Promise!Better(RankKey(y), RankKey(c))
    BY <1>3, <2>5, KeyOrder
  <2>7. \A d \in C : ~Promise!Better(RankKey(d), RankKey(c))
    <3> TAKE d \in C
    <3>1. current \in all /\ ~Promise!Better(RankKey(d), RankKey(current))
      BY <1>1, <1>7 DEF IsBest, all
    <3>2. ~Promise!Better(RankKey(current), RankKey(c))
      BY <2>6, <3>1
    <3>3. RankKey(d) \in Key /\ RankKey(current) \in Key /\ RankKey(c) \in Key
      BY <1>3, <2>5, <3>1
    <3> QED
      BY <3>1, <3>2, <3>3, BetterStrict
  <2>8. \A d \in cands : ~Promise!Better(RankKey(d), RankKey(c))
    BY <2>6 DEF all
  <2>9. c \in C \cup cands
    BY <1>4, <2>5
  <2> QED
    BY <2>7, <2>8, <2>9 DEF IsBest, c
<1> QED
  BY <1>6, <1>7

\* Two candidates none of which is beaten have the same key.
LEMMA BestKeyUnique ==
  ASSUME NEW K, K \subseteq Key, NEW k \in K, \A l \in K : ~Promise!Better(l, k)
  PROVE  (CHOOSE m \in K : \A l \in K : ~Promise!Better(l, m)) = k
<1> DEFINE best_ == CHOOSE m \in K : \A l \in K : ~Promise!Better(l, m)
<1>1. best_ \in K /\ \A l \in K : ~Promise!Better(l, best_)
  OBVIOUS
<1> QED
  BY <1>1, BetterStrict

Candidates(n) == FlexNetCandidates(n) \cup NetRomCandidates(n)

LEMMA CandidateTypes ==
  ASSUME tables \in Tables, NEW n \in Nodes
  PROVE  /\ IsFiniteSet(FlexNetCandidates(n)) /\ IsFiniteSet(NetRomCandidates(n))
         /\ \A c \in Candidates(n) :
              /\ RankKey(c) \in Key /\ c # NoRoute
              /\ c.via = n /\ c.source \in Sourced
<1> DEFINE rows == {s \in tables[n].flexnet : s.call = callsign /\ s.covers}
           nrows == {s \in tables[n].netrom : s.call = callsign}
<1>1. IsFiniteSet(rows) /\ IsFiniteSet(nrows)
  BY TablesAssumption, FS_Subset
<1>2. NetRomBest(nrows) \in SUBSET nrows
  BY DEF NetRomBest
<1>3. IsFiniteSet(NetRomBest(nrows))
  BY <1>1, <1>2, FS_Subset
<1>4. IsFiniteSet(FlexNetCandidates(n))
  <2> DEFINE f == [r \in rows |-> [source |-> "flexnet", via |-> n, cost |-> r.cost, hops |-> 1]]
  <2>1. f \in Surjection(rows, FlexNetCandidates(n))
    BY DEF Surjection, FlexNetCandidates
  <2> QED
    BY <1>1, <2>1, FS_Surjection
<1>5. IsFiniteSet(NetRomCandidates(n))
  <2> DEFINE f == [r \in NetRomBest(nrows) |->
                     [source |-> "netrom", via |-> n, hops |-> r.hops, quality |-> r.quality]]
  <2>1. f \in Surjection(NetRomBest(nrows), NetRomCandidates(n))
    BY DEF Surjection, NetRomCandidates, NetRomAnswer
  <2> QED
    BY <1>3, <2>1, FS_Surjection
<1>6. ASSUME NEW c \in FlexNetCandidates(n)
      PROVE  RankKey(c) \in Key /\ c # NoRoute /\ c.via = n /\ c.source \in Sourced
  <2>1. PICK r \in rows : c = [source |-> "flexnet", via |-> n, cost |-> r.cost, hops |-> 1]
    BY DEF FlexNetCandidates
  <2>2. r.cost \in Nat
    BY TablesAssumption
  <2>3. c.source = "flexnet" /\ c.via = n /\ c.cost = r.cost /\ c.hops = 1
    BY <2>1
  <2>4. RankKey(c) = <<0, r.cost, 1>>
    BY <2>3 DEF RankKey
  <2>5. NoRoute.source = "none"
    BY DEF NoRoute
  <2> QED
    BY <2>2, <2>3, <2>4, <2>5 DEF Key, Sourced
<1>7. ASSUME NEW c \in NetRomCandidates(n)
      PROVE  RankKey(c) \in Key /\ c # NoRoute /\ c.via = n /\ c.source \in Sourced
  <2>1. PICK r \in NetRomBest(nrows) :
          c = [source |-> "netrom", via |-> n, hops |-> r.hops, quality |-> r.quality]
    BY DEF NetRomCandidates, NetRomAnswer
  <2>2. r.hops \in Nat /\ r.quality \in Nat
    BY <1>2, TablesAssumption
  <2>3. c.source = "netrom" /\ c.via = n /\ c.hops = r.hops /\ c.quality = r.quality
    BY <2>1
  <2>4. RankKey(c) = <<1, r.hops, 256 - r.quality>>
    BY <2>3 DEF RankKey, MaxNetRomQuality
  <2>5. NoRoute.source = "none"
    BY DEF NoRoute
  <2> QED
    BY <2>2, <2>3, <2>4, <2>5 DEF Key, Sourced
<1> QED
  BY <1>4, <1>5, <1>6, <1>7 DEF Candidates

\* netrom_best_route is what the promise takes.
LEMMA NetRomBestChosen ==
  ASSUME tables \in Tables, NEW n \in Nodes, NEW rows, rows \subseteq tables[n].netrom
  PROVE  NetRomBest(rows) =
           LET selected == {r \in rows : r.selected}
               shortest == {r \in rows : \A s \in rows :
                             r.hops < s.hops \/ (r.hops = s.hops /\ r.quality >= s.quality)}
           IN IF selected # {} THEN selected ELSE shortest
<1>1. \A r \in rows : r.hops \in Nat /\ r.quality \in Nat
  BY TablesAssumption
<1>2. \A a, b, c, d \in Int :
        KeyBelow(<<a, b>>, <<c, d>>) <=> a < c \/ (a = c /\ b < d)
  <2> TAKE a, b, c, d \in Int
  <2>1. DOMAIN <<a, b>> = {1, 2} /\ 1 .. 1 - 1 = {} /\ 1 .. 2 - 1 = {1}
    OBVIOUS
  <2> QED
    BY <2>1 DEF KeyBelow
<1>3. \A r, s \in rows :
        ~KeyBelow(<<s.hops, MaxNetRomQuality - s.quality>>,
                  <<r.hops, MaxNetRomQuality - r.quality>>)
        <=> r.hops < s.hops \/ (r.hops = s.hops /\ r.quality >= s.quality)
  <2> TAKE r, s \in rows
  <2>1. r.hops \in Int /\ s.hops \in Int
        /\ MaxNetRomQuality - s.quality \in Int /\ MaxNetRomQuality - r.quality \in Int
    BY <1>1 DEF MaxNetRomQuality
  <2>2. KeyBelow(<<s.hops, MaxNetRomQuality - s.quality>>,
                  <<r.hops, MaxNetRomQuality - r.quality>>)
        <=> s.hops < r.hops \/ (s.hops = r.hops
              /\ MaxNetRomQuality - s.quality < MaxNetRomQuality - r.quality)
    BY <1>2, <2>1
  <2> QED
    BY <1>1, <2>2 DEF MaxNetRomQuality
<1> QED
  BY <1>3 DEF NetRomBest

-----------------------------------------------------------------------------
(* The invariant.                                                            *)

\* What node n has offered so far.
Offered(n) ==
  (IF n \in FlexNet /\ probing[n] # "D" /\ "D" \notin tables[n].fails
   THEN FlexNetCandidates(n) ELSE {})
    \cup (IF probing[n] = "done" /\ "N" \notin tables[n].fails
          THEN NetRomCandidates(n) ELSE {})

DTyped ==
  /\ target \in [call : Callsigns, bare : BOOLEAN]
  /\ tables \in Tables
  /\ stage \in {"alias", "probe", "ranked"}
  /\ meant \in [Nodes -> Callsigns \cup {Unknown, Waiting}]
  /\ callsign \in Callsigns
  /\ probing \in [Nodes -> {"D", "N", "done"}]
  /\ DOMAIN best = Nodes
  /\ stranded \in BOOLEAN

\* No probe is sent before the alias is resolved; an answer to the alias is
\* that of the node's table.
Asked ==
  /\ \A n \in Nodes : probing[n] = "D" => n \in FlexNet
  /\ \A n \in Nodes : meant[n] \in {Waiting, Promise!AliasAt(n)}
  /\ stage = "alias" =>
       /\ target.bare
       /\ \A n \in Nodes : probing[n] = IF n \in FlexNet THEN "D" ELSE "N"

Understood == stage # "alias" => callsign = Promise!Meaning

\* Each node's candidate is the best of those it has offered.
BestOffered == \A n \in Nodes : IsBest(best[n], Offered(n))

\* What the later use of the routes relies on.
Listing ==
  /\ stage # "ranked" => ranked = <<>>
  /\ Len(ranked) \in Nat /\ DOMAIN ranked = 1 .. Len(ranked)
  /\ Len(ranked) <= Len(Sources)
  /\ \A i \in DOMAIN ranked : ranked[i].via \in Nodes

DInv == DTyped /\ Asked /\ Understood /\ BestOffered /\ Listing

LEMMA InitDInv == DiscoveryInit => DInv
<1> SUFFICES ASSUME DiscoveryInit PROVE DInv
  OBVIOUS
<1> USE DEF DiscoveryInit
<1>1. DTyped
  <2>1. \A n \in Nodes : (IF n \in FlexNet THEN "D" ELSE "N") \in {"D", "N", "done"}
    OBVIOUS
  <2>2. stage \in {"alias", "probe", "ranked"}
    OBVIOUS
  <2> QED
    BY <2>1, <2>2 DEF DTyped
<1>2. Asked
  BY DEF Asked
<1>3. Understood
  BY DEF Understood, Promise!Meaning
<1>4. BestOffered
  <2>1. \A n \in Nodes : Offered(n) = {} /\ best[n] = NoRoute
    BY DEF Offered
  <2> QED
    BY <2>1 DEF BestOffered, IsBest
<1>5. Listing
  BY SourcesAssumption DEF Listing
<1> QED
  BY <1>1, <1>2, <1>3, <1>4, <1>5 DEF DInv

LEMMA AskKeeps ==
  ASSUME DInv, NEW m \in Nodes, AskAlias(m)
  PROVE  DInv'
<1> USE DEF AskAlias, Query
<1>1. meant'[m] = Promise!AliasAt(m) /\ \A n \in Nodes : n # m => meant'[n] = meant[n]
  BY DEF DInv, DTyped, Promise!AliasAt, Unknown
<1>2. Promise!AliasAt(m) \in Callsigns \cup {Unknown}
  BY TablesAssumption DEF DInv, DTyped, Promise!AliasAt, Unknown
<1>3. DTyped'
  <2>1. meant' \in [Nodes -> Callsigns \cup {Unknown, Waiting}]
    BY <1>1, <1>2 DEF DInv, DTyped
  <2> QED
    BY <2>1 DEF DInv, DTyped
<1>4. Asked'
  BY <1>1 DEF DInv, Asked, Promise!AliasAt
<1>5. Understood'
  BY DEF Understood
<1>6. BestOffered'
  BY DEF DInv, BestOffered, Offered, FlexNetCandidates, NetRomCandidates, NetRomAnswer
<1>7. Listing'
  BY DEF DInv, Listing
<1> QED
  BY <1>3, <1>4, <1>5, <1>6, <1>7 DEF DInv

\* gather() gives the answers in the order of nodes.yaml: the first node that
\* knows the alias decides.
LEMMA ResolveKeeps ==
  ASSUME DInv, ResolveAlias
  PROVE  DInv'
<1> USE DEF ResolveAlias
<1> DEFINE known == {i \in DOMAIN Sources : meant[Sources[i]] \in Callsigns}
<1>1. \A i \in DOMAIN Sources : meant[Sources[i]] = Promise!AliasAt(Sources[i])
  BY DEF DInv, Asked, Nodes
<1>2. known = Promise!Knowing
  BY <1>1 DEF Promise!Knowing
<1>3. DOMAIN Sources \subseteq Nat
  BY SourcesAssumption
<1>4. target.bare /\ target.call \in Callsigns
  BY DEF DInv, DTyped, Asked
<1>5. callsign' \in Callsigns /\ callsign' = Promise!Meaning
  <2>1. CASE known = {}
    BY <1>2, <1>4, <2>1 DEF FirstMeaning, Promise!Meaning
  <2>2. CASE known # {}
    <3> DEFINE first == CHOOSE i \in known : \A j \in known : i <= j
    <3>1. first \in known
      BY <1>3, <2>2, Least
    <3>2. callsign' = meant[Sources[first]]
      BY <2>2 DEF FirstMeaning
    <3>3. first = CHOOSE i \in Promise!Knowing : \A j \in Promise!Knowing : i <= j
      BY <1>2
    <3> HIDE DEF first
    <3>4. Promise!Meaning = Promise!AliasAt(Sources[first])
      BY <1>2, <1>4, <2>2, <3>3, Zenon DEF Promise!Meaning
    <3> QED
      BY <1>1, <3>1, <3>2, <3>4
  <2> QED
    BY <2>1, <2>2
<1> HIDE DEF known
<1>6. DTyped'
  BY <1>5 DEF DInv, DTyped
<1>7. Asked'
  BY DEF DInv, Asked, Promise!AliasAt
<1>8. Understood'
  BY <1>5 DEF Understood, Promise!Meaning, Promise!Knowing, Promise!AliasAt
<1>9. BestOffered'
  <2>1. \A n \in Nodes : Offered(n) = {} /\ Offered(n)' = {}
    BY DEF DInv, Asked, Offered
  <2> QED
    BY <2>1 DEF DInv, BestOffered
<1>10. Listing'
  BY DEF DInv, Listing
<1> QED
  BY <1>6, <1>7, <1>8, <1>9, <1>10 DEF DInv

\* The part of the invariant that a probe leaves alone.
LEMMA ProbeLeaves ==
  ASSUME DInv, NEW m \in Nodes, stage = "probe", NEW q \in {"N", "done"},
         probing' = [probing EXCEPT ![m] = q],
         DOMAIN best' = DOMAIN best,
         stranded' \in BOOLEAN,
         UNCHANGED <<target, tables, stage, meant, callsign, ranked>>
  PROVE  DTyped' /\ Asked' /\ Understood' /\ Listing'
<1>1. DTyped'
  BY DEF DInv, DTyped
<1>2. Asked'
  BY DEF DInv, DTyped, Asked, Promise!AliasAt
<1>3. Understood'
  BY DEF DInv, Understood, Promise!Meaning, Promise!Knowing, Promise!AliasAt
<1>4. Listing'
  BY DEF DInv, Listing
<1> QED
  BY <1>1, <1>2, <1>3, <1>4

LEMMA ProbeFlexNetKeeps ==
  ASSUME DInv, NEW m \in Nodes, ProbeFlexNet(m)
  PROVE  DInv'
<1> USE DEF ProbeFlexNet, Query
<1>0. stranded' \in BOOLEAN
  BY DEF DInv, DTyped
<1>1. DTyped' /\ Asked' /\ Understood' /\ Listing'
  BY <1>0, ProbeLeaves
<1>2. m \in FlexNet /\ Offered(m) = {}
  BY DEF DInv, Asked, Offered
<1>3. /\ probing'[m] = "N"
      /\ \A n \in Nodes : n # m => probing'[n] = probing[n] /\ best'[n] = best[n]
  BY DEF DInv, DTyped
<1>4. \A n \in Nodes : n # m => Offered(n)' = Offered(n)
  BY <1>3 DEF Offered, FlexNetCandidates, NetRomCandidates, NetRomAnswer
<1>5. IsBest(best[m], {})
  BY <1>2 DEF DInv, BestOffered
<1>6. IsBest(best'[m], Offered(m)')
  <2>1. CASE "D" \in tables[m].fails
    <3>1. Offered(m)' = {} /\ best'[m] = best[m]
      BY <1>3, <2>1 DEF Offered
    <3> QED
      BY <1>5, <3>1
  <2>2. CASE "D" \notin tables[m].fails
    <3>1. Offered(m)' = FlexNetCandidates(m)
      BY <1>2, <1>3, <2>2 DEF Offered, FlexNetCandidates
    <3>2. best'[m] = Consider(best[m], FlexNetCandidates(m))
      BY <2>2 DEF DInv, DTyped
    <3>3. /\ IsFiniteSet(FlexNetCandidates(m))
          /\ \A c \in {} \cup FlexNetCandidates(m) : RankKey(c) \in Key /\ c # NoRoute
      BY CandidateTypes DEF DInv, DTyped, Candidates
    <3>4. IsBest(Consider(best[m], FlexNetCandidates(m)), {} \cup FlexNetCandidates(m))
      BY <1>5, <3>3, Considered
    <3> QED
      BY <3>1, <3>2, <3>4
  <2> QED
    BY <2>1, <2>2
<1>7. BestOffered'
  BY <1>3, <1>4, <1>6 DEF DInv, BestOffered, IsBest, RankKey, NoRoute
<1> QED
  BY <1>1, <1>7 DEF DInv

LEMMA ProbeNetRomKeeps ==
  ASSUME DInv, NEW m \in Nodes, ProbeNetRom(m)
  PROVE  DInv'
<1> USE DEF ProbeNetRom, Query
<1>0. stranded' \in BOOLEAN
  BY DEF DInv, DTyped
<1>1. DTyped' /\ Asked' /\ Understood' /\ Listing'
  BY <1>0, ProbeLeaves
<1>2. /\ probing'[m] = "done"
      /\ \A n \in Nodes : n # m => probing'[n] = probing[n] /\ best'[n] = best[n]
  BY DEF DInv, DTyped
<1>3. \A n \in Nodes : n # m => Offered(n)' = Offered(n)
  BY <1>2 DEF Offered, FlexNetCandidates, NetRomCandidates, NetRomAnswer
<1>4. IsBest(best[m], Offered(m))
  BY DEF DInv, BestOffered
<1>5. IsBest(best'[m], Offered(m)')
  <2>1. CASE "N" \in tables[m].fails
    <3>1. Offered(m)' = Offered(m) /\ best'[m] = best[m]
      BY <1>2, <2>1 DEF Offered, FlexNetCandidates
    <3> QED
      BY <1>4, <3>1
  <2>2. CASE "N" \notin tables[m].fails
    <3>1. Offered(m)' = Offered(m) \cup NetRomCandidates(m)
      BY <1>2, <2>2 DEF Offered, FlexNetCandidates, NetRomCandidates, NetRomAnswer
    <3>2. best'[m] = Consider(best[m], NetRomCandidates(m))
      BY <2>2 DEF DInv, DTyped
    <3>3. Offered(m) \subseteq Candidates(m)
      BY DEF Offered, Candidates
    <3>4. /\ IsFiniteSet(NetRomCandidates(m))
          /\ \A c \in Offered(m) \cup NetRomCandidates(m) : RankKey(c) \in Key /\ c # NoRoute
      BY <3>3, CandidateTypes DEF DInv, DTyped, Candidates
    <3>5. IsBest(Consider(best[m], NetRomCandidates(m)), Offered(m) \cup NetRomCandidates(m))
      BY <1>4, <3>4, Considered
    <3> QED
      BY <3>1, <3>2, <3>5
  <2> QED
    BY <2>1, <2>2
<1>6. BestOffered'
  BY <1>2, <1>3, <1>5 DEF DInv, BestOffered, IsBest, RankKey, NoRoute
<1> QED
  BY <1>1, <1>6 DEF DInv

-----------------------------------------------------------------------------
(* The list.                                                                 *)

\* When all have answered, the keys of a node are those the promise derives
\* from its tables, and its candidate has the best of them.
LEMMA KeysOffered ==
  ASSUME DInv, stage = "probe", \A n \in Nodes : probing[n] = "done",
         NEW n \in Nodes
  PROVE  Promise!Keys(n) = {RankKey(c) : c \in Offered(n)}
<1>1. callsign = Promise!Meaning
  BY DEF DInv, Understood
<1>2. Promise!FlexNetKeys(n) =
        {RankKey(c) : c \in IF n \in FlexNet /\ "D" \notin tables[n].fails
                            THEN FlexNetCandidates(n) ELSE {}}
  <2> DEFINE rows == {s \in tables[n].flexnet : s.call = callsign /\ s.covers}
             as(r) == [source |-> "flexnet", via |-> n, cost |-> r.cost, hops |-> 1]
  <2>1. \A r : RankKey(as(r)) = <<0, r.cost, 1>>
    BY DEF RankKey
  <2>2. FlexNetCandidates(n) = {as(r) : r \in rows}
    BY DEF FlexNetCandidates
  <2>3. {RankKey(c) : c \in FlexNetCandidates(n)} = {<<0, r.cost, 1>> : r \in rows}
    <3> HIDE DEF as, rows
    <3>1. \A c \in FlexNetCandidates(n) : \E r \in rows : RankKey(c) = <<0, r.cost, 1>>
      BY <2>1, <2>2
    <3>2. \A r \in rows : \E c \in FlexNetCandidates(n) : RankKey(c) = <<0, r.cost, 1>>
      BY <2>1, <2>2
    <3> QED
      BY <3>1, <3>2, Zenon
  <2>4. CASE n \in FlexNet /\ "D" \notin tables[n].fails
    BY <1>1, <2>3, <2>4 DEF Promise!FlexNetKeys, Promise!FlexNetRows
  <2>5. CASE ~(n \in FlexNet /\ "D" \notin tables[n].fails)
    BY <2>5 DEF Promise!FlexNetKeys, Promise!FlexNetRows
  <2> QED
    BY <2>4, <2>5
<1>3. Promise!NetRomKeys(n) =
        {RankKey(c) : c \in IF "N" \notin tables[n].fails THEN NetRomCandidates(n) ELSE {}}
  <2> DEFINE rows == {s \in tables[n].netrom : s.call = callsign}
             as(r) == [source |-> "netrom", via |-> n, hops |-> r.hops, quality |-> r.quality]
  <2>1. \A r : RankKey(as(r)) = <<1, r.hops, 256 - r.quality>>
    BY DEF RankKey, MaxNetRomQuality
  <2>2. NetRomCandidates(n) = {as(r) : r \in NetRomBest(rows)}
    BY DEF NetRomCandidates, NetRomAnswer
  <2>3. {RankKey(c) : c \in NetRomCandidates(n)}
          = {<<1, r.hops, 256 - r.quality>> : r \in NetRomBest(rows)}
    <3> DEFINE keyOf(r) == <<1, r.hops, 256 - r.quality>>
    <3>1. \A r : RankKey(as(r)) = keyOf(r)
      BY <2>1
    <3> HIDE DEF as, keyOf, rows
    <3>2. {RankKey(c) : c \in NetRomCandidates(n)} = {keyOf(r) : r \in NetRomBest(rows)}
      BY <2>2, <3>1, Zenon
    <3> QED
      BY <3>2 DEF keyOf
  <2>4. CASE "N" \notin tables[n].fails
    <3>1. Promise!NetRomRows(n) = rows
      BY <1>1, <2>4 DEF Promise!NetRomRows
    <3>2. NetRomBest(rows) = Promise!NetRomChosen(n)
      <4>1. tables \in Tables /\ rows \subseteq tables[n].netrom
        BY DEF DInv, DTyped
      <4> HIDE DEF rows
      <4>2. NetRomBest(rows) =
              LET selected == {r \in rows : r.selected}
                  shortest == {r \in rows : \A s \in rows :
                                r.hops < s.hops \/ (r.hops = s.hops /\ r.quality >= s.quality)}
              IN IF selected # {} THEN selected ELSE shortest
        BY <4>1, NetRomBestChosen
      <4> QED
        BY <3>1, <4>2, Zenon DEF Promise!NetRomChosen
    <3> QED
      BY <2>3, <2>4, <3>2 DEF Promise!NetRomKeys
  <2>5. CASE "N" \in tables[n].fails
    <3>1. Promise!NetRomRows(n) = {}
      BY <2>5 DEF Promise!NetRomRows
    <3>2. Promise!NetRomChosen(n) = {}
      BY <3>1 DEF Promise!NetRomChosen
    <3> QED
      BY <2>5, <3>2 DEF Promise!NetRomKeys
  <2> QED
    BY <2>4, <2>5
<1> QED
  BY <1>2, <1>3 DEF Promise!Keys, Offered

LEMMA BestIsBestKey ==
  ASSUME DInv, stage = "probe", \A n \in Nodes : probing[n] = "done",
         NEW n \in Nodes
  PROVE  /\ Promise!Keys(n) # {} <=> best[n] # NoRoute
         /\ best[n] # NoRoute =>
              /\ best[n].via = n
              /\ RankKey(best[n]) \in Key
              /\ RankKey(best[n]) = Promise!BestKey(n)
<1>1. IsBest(best[n], Offered(n))
  BY DEF DInv, BestOffered
<1>2. Promise!Keys(n) = {RankKey(c) : c \in Offered(n)}
  BY KeysOffered
<1>3. \A c \in Offered(n) : RankKey(c) \in Key /\ c # NoRoute /\ c.via = n
  BY CandidateTypes DEF Offered, Candidates, DInv, DTyped
<1>4. CASE Offered(n) = {}
  BY <1>1, <1>2, <1>4 DEF IsBest
<1>5. CASE Offered(n) # {}
  <2>1. best[n] \in Offered(n)
        /\ \A d \in Offered(n) : ~Promise!Better(RankKey(d), RankKey(best[n]))
    BY <1>1, <1>5 DEF IsBest
  <2>2. /\ Promise!Keys(n) \subseteq Key /\ RankKey(best[n]) \in Promise!Keys(n)
        /\ \A l \in Promise!Keys(n) : ~Promise!Better(l, RankKey(best[n]))
    BY <1>2, <1>3, <2>1
  <2>3. Promise!BestKey(n) = RankKey(best[n])
    BY <2>2, BestKeyUnique DEF Promise!BestKey
  <2> QED
    BY <1>2, <1>3, <1>5, <2>1, <2>3
<1> QED
  BY <1>4, <1>5

Found == {best[n] : n \in Nodes} \ {NoRoute}

\* The order of the sort: the keys, and for equal keys the places.
Placed(c, d) ==
  \/ Promise!Better(RankKey(c), RankKey(d))
  \/ RankKey(c) = RankKey(d) /\ Place(c.via) < Place(d.via)

LEMMA PlaceOf ==
  ASSUME NEW i \in DOMAIN Sources
  PROVE  Place(Sources[i]) = i
BY SourcesAssumption DEF Place

\* The routes of the list, as the promise knows them.
Routes(list, call) ==
  [i \in DOMAIN list |-> [via |-> list[i].via, call |-> call, key |-> RankKey(list[i])]]

\* The promise counts as discovery does.
LEMMA Counted == \A S : Promise!Cardinality(S) = Cardinality(S)
BY DEF Promise!Cardinality, Cardinality

LEMMA RankedIsPlan ==
  ASSUME DInv, Rank
  PROVE  /\ Promise!IsPlan(Routes(ranked', callsign))
         /\ Len(ranked') \in Nat /\ DOMAIN ranked' = 1 .. Len(ranked')
         /\ Len(ranked') <= Len(Sources)
         /\ \A i \in DOMAIN ranked' : ranked'[i].via \in Nodes
<1> DEFINE R == {p \in Found \X Found : Placed(p[1], p[2])}
           list == SortRoutes(Found)
           of == [i \in Promise!Reaching |-> best[Sources[i]]]
<1>0. stage = "probe" /\ (\A n \in Nodes : probing[n] = "done") /\ ranked' = list
  BY DEF Rank, Found
<1>1. \A n \in Nodes :
        /\ Promise!Keys(n) # {} <=> best[n] # NoRoute
        /\ best[n] # NoRoute => /\ best[n].via = n
                                /\ RankKey(best[n]) \in Key
                                /\ RankKey(best[n]) = Promise!BestKey(n)
  BY <1>0, BestIsBestKey
<1>2. \A i \in DOMAIN Sources : Sources[i] \in Nodes
  BY DEF Nodes
<1>3. \A c \in Found : /\ c.via \in Nodes /\ best[c.via] = c
                       /\ RankKey(c) \in Key
                       /\ RankKey(c) = Promise!BestKey(c.via)
  BY <1>1 DEF Found
<1>4. DOMAIN Sources = 1 .. Len(Sources) /\ Len(Sources) \in Nat
  BY SourcesAssumption
<1>5. \A n \in Nodes : Place(n) \in DOMAIN Sources /\ Sources[Place(n)] = n
  BY DEF Nodes, Place
<1>6. \A c \in Found : Place(c.via) \in Int
  BY <1>3, <1>4, <1>5
<1>7. of \in Injection(Promise!Reaching, Found) /\ of \in Surjection(Promise!Reaching, Found)
  <2>1. \A i \in Promise!Reaching : of[i] \in Found /\ of[i].via = Sources[i]
    BY <1>1, <1>2 DEF Promise!Reaching, Found
  <2>2. \A i, j \in Promise!Reaching : of[i] = of[j] => i = j
    BY <2>1, SourcesAssumption DEF Promise!Reaching
  <2>3. \A c \in Found : \E i \in Promise!Reaching : of[i] = c
    <3> TAKE c \in Found
    <3>1. c.via \in Nodes /\ best[c.via] = c /\ c # NoRoute
      BY <1>3 DEF Found
    <3>2. PICK i \in DOMAIN Sources : Sources[i] = c.via
      BY <3>1 DEF Nodes
    <3> QED
      BY <1>1, <3>1, <3>2 DEF Promise!Reaching
  <2>4. of \in [Promise!Reaching -> Found]
    BY <2>1
  <2> HIDE DEF of
  <2> QED
    BY <2>2, <2>3, <2>4 DEF Injection, IsInjective, Surjection
<1>8. /\ IsFiniteSet(Promise!Reaching) /\ Cardinality(Promise!Reaching) \in Nat
      /\ Cardinality(Promise!Reaching) <= Len(Sources)
  <2>1. IsFiniteSet(1 .. Len(Sources)) /\ Cardinality(1 .. Len(Sources)) = Len(Sources)
    <3>1. \A n \in Nat : IsFiniteSet(1 .. n) /\ Cardinality(1 .. n) = n
      BY FS_Interval
    <3> QED
      BY <1>4, <3>1, Zenon
  <2>2. Promise!Reaching \in SUBSET (1 .. Len(Sources))
    BY <1>4 DEF Promise!Reaching
  <2> QED
    BY <2>1, <2>2, FS_Subset, FS_CardinalityType
<1>9. IsFiniteSet(Found) /\ Cardinality(Found) = Cardinality(Promise!Reaching)
  BY <1>7, <1>8, FS_Surjection
<1>10. StrictOrder(Found, R)
  <2>1. \A c, d \in Found : <<c, d>> \in R <=> Placed(c, d)
    OBVIOUS
  <2>2. \A c \in Found : ~Placed(c, c)
    BY <1>3, <1>6, BetterStrict DEF Placed
  <2>3. \A c, d, e \in Found : Placed(c, d) /\ Placed(d, e) => Placed(c, e)
    BY <1>3, <1>6, BetterStrict DEF Placed
  <2> QED
    BY <2>1, <2>2, <2>3 DEF StrictOrder
<1>11. \A c, d \in Found : c = d \/ <<c, d>> \in R \/ <<d, c>> \in R
  <2> SUFFICES ASSUME NEW c \in Found, NEW d \in Found, c # d
               PROVE  Placed(c, d) \/ Placed(d, c)
    OBVIOUS
  <2>1. c.via # d.via
    BY <1>3
  <2>2. Place(c.via) # Place(d.via)
    BY <1>3, <1>5, <2>1
  <2>3. Place(c.via) < Place(d.via) \/ Place(d.via) < Place(c.via)
    BY <1>6, <2>2
  <2> QED
    BY <1>3, <2>3, BetterStrict DEF Placed
<1>12. list = InOrder(Found, Below(Found, R))
  <2> DEFINE key(c) == Append(RankKey(c), Place(c.via))
  <2>1. \A c, d \in Found : KeyBelow(key(d), key(c)) <=> <<d, c>> \in R
    BY <1>3, <1>6, PlacedOrder DEF Placed
  <2> HIDE DEF R
  <2>2. [c \in Found |-> {d \in Found : KeyBelow(key(d), key(c))}] = Below(Found, R)
    BY <2>1 DEF Below
  <2> QED
    BY <2>2, Zenon DEF SortRoutes
<1> HIDE DEF list, R
<1>13. /\ DOMAIN list = 1 .. Cardinality(Found) /\ Len(list) = Cardinality(Found)
       /\ \A i \in DOMAIN list : list[i] \in Found
       /\ \A c \in Found : \E i \in DOMAIN list : list[i] = c
       /\ \A i, j \in DOMAIN list : i < j => <<list[i], list[j]>> \in R
  BY <1>9, <1>10, <1>11, <1>12, Listed
<1>14. \A i, j \in DOMAIN list : i < j => Placed(list[i], list[j])
  BY <1>13 DEF R
<1> DEFINE s == Routes(list, callsign)
<1>15. /\ DOMAIN s = DOMAIN list
       /\ \A i \in DOMAIN s : s[i].via = list[i].via /\ s[i].call = callsign
                              /\ s[i].key = RankKey(list[i])
  BY DEF Routes
<1>16. Len(s) = Cardinality(Promise!Reaching)
  <2>1. DOMAIN s = 1 .. Cardinality(Found)
    BY <1>13, <1>15
  <2>2. s = [i \in 1 .. Cardinality(Found) |->
               [via |-> list[i].via, call |-> callsign, key |-> RankKey(list[i])]]
    BY <2>1, <1>15 DEF Routes
  <2> QED
    BY <1>8, <1>9, <2>2
<1> HIDE DEF s, of
<1>17. {s[i].via : i \in DOMAIN s} = {Sources[i] : i \in Promise!Reaching}
  <2>1. \A i \in DOMAIN s : \E k \in Promise!Reaching : s[i].via = Sources[k]
    <3> TAKE i \in DOMAIN s
    <3>1. s[i].via = list[i].via /\ list[i] \in Found
      BY <1>13, <1>15
    <3>2. PICK k \in DOMAIN Sources : Sources[k] = list[i].via
      BY <1>3, <3>1 DEF Nodes
    <3>3. best[Sources[k]] # NoRoute
      BY <1>3, <3>1, <3>2 DEF Found
    <3> QED
      BY <1>1, <1>2, <3>1, <3>2, <3>3 DEF Promise!Reaching
  <2>2. \A k \in Promise!Reaching : \E i \in DOMAIN s : s[i].via = Sources[k]
    <3> TAKE k \in Promise!Reaching
    <3>1. best[Sources[k]] \in Found /\ best[Sources[k]].via = Sources[k]
      BY <1>1, <1>2 DEF Promise!Reaching, Found
    <3>2. PICK i \in DOMAIN list : list[i] = best[Sources[k]]
      BY <1>13, <3>1
    <3> QED
      BY <1>15, <3>1, <3>2
  <2> QED
    BY <2>1, <2>2
<1>18. \A i \in DOMAIN s : s[i].key = Promise!BestKey(s[i].via) /\ s[i].call = Promise!Meaning
  BY <1>0, <1>3, <1>13, <1>15 DEF DInv, Understood
<1>19. \A i, j \in DOMAIN s : i < j =>
         \/ Promise!Better(s[i].key, s[j].key)
         \/ /\ s[i].key = s[j].key
            /\ \A p, q \in DOMAIN Sources :
                 Sources[p] = s[i].via /\ Sources[q] = s[j].via => p < q
  BY <1>14, <1>15, PlaceOf DEF Placed
<1>20. Promise!IsPlan(s)
  BY <1>16, <1>17, <1>18, <1>19, Counted, Zenon DEF Promise!IsPlan
<1>21. Cardinality(Found) \in Nat /\ Cardinality(Found) <= Len(Sources)
  BY <1>8, <1>9
<1>22. \A i \in DOMAIN list : list[i].via \in Nodes
  BY <1>3, <1>13
<1> QED
  BY <1>0, <1>13, <1>20, <1>21, <1>22 DEF s

LEMMA RankKeeps ==
  ASSUME DInv, Rank
  PROVE  DInv'
<1>1. DTyped'
  BY DEF Rank, DInv, DTyped
<1>2. Asked'
  BY DEF Rank, DInv, Asked, Promise!AliasAt
<1>3. Understood'
  BY DEF Rank, DInv, Understood, Promise!Meaning, Promise!Knowing, Promise!AliasAt
<1>4. BestOffered'
  <2>1. \A n \in Nodes : Offered(n)' = Offered(n)
    BY DEF Rank, Offered, FlexNetCandidates, NetRomCandidates, NetRomAnswer
  <2> QED
    BY <2>1 DEF Rank, DInv, BestOffered, IsBest, RankKey, NoRoute
<1>5. Listing'
  BY RankedIsPlan DEF Rank, Listing
<1> QED
  BY <1>1, <1>2, <1>3, <1>4, <1>5 DEF DInv

\* What a failed connect() left is not closed again, and none is left by the
\* ranking.
LEMMA DiscoverLeaves ==
  ASSUME DInv, Discover
  PROVE  /\ stage # "ranked" /\ stranded' \in {stranded, TRUE}
         /\ stage' = "ranked" => stranded' = stranded
BY DEF DInv, DTyped, Discover, ResolveAlias, Rank, Probe, AskAlias, ProbeFlexNet,
       ProbeNetRom, Query

LEMMA DiscoverKeepsDInv ==
  ASSUME DInv, Discover
  PROVE  DInv'
BY ResolveKeeps, RankKeeps, AskKeeps, ProbeFlexNetKeeps, ProbeNetRomKeeps
  DEF Discover, Probe

LEMMA DiscoveryStutters ==
  ASSUME DInv, UNCHANGED discovery
  PROVE  DInv'
<1> USE DEF discovery
<1>1. DTyped' /\ Listing'
  BY DEF DInv, DTyped, Listing
<1>2. Asked'
  BY DEF DInv, Asked, Promise!AliasAt
<1>3. Understood'
  <2>1. Promise!Meaning' = Promise!Meaning
    BY DEF Promise!AliasAt, Promise!Meaning, Promise!Knowing
  <2> QED
    BY <2>1 DEF DInv, Understood
<1>4. BestOffered'
  <2>1. \A n \in Nodes : Offered(n)' = Offered(n)
    BY DEF Offered, FlexNetCandidates, NetRomCandidates, NetRomAnswer
  <2> QED
    BY <2>1 DEF DInv, BestOffered, IsBest, RankKey, NoRoute
<1> QED
  BY <1>1, <1>2, <1>3, <1>4 DEF DInv

-----------------------------------------------------------------------------
(* What discovery promises.                                                  *)

LEMMA StartsPlan == DiscoveryInit => Promise!Init
<1> SUFFICES ASSUME DiscoveryInit PROVE Promise!Init
  OBVIOUS
<1>1. ranked = <<>> /\ stage # "ranked"
  BY DEF DiscoveryInit
<1>2. Routes(ranked, callsign) = <<>>
  BY <1>1 DEF Routes
<1> QED
  BY <1>1, <1>2 DEF DiscoveryInit, Promise!Init, Promise!Targets, Promise!Pending, Routes

\* The plan as the promise sees it.
Planned == [given |-> stage = "ranked", routes |-> Routes(ranked, callsign)]

LEMMA PlansSteps ==
  ASSUME DInv, Discover \/ UNCHANGED discovery
  PROVE  Promise!Answer \/ UNCHANGED <<target, tables, Planned>>
<1>1. CASE Rank
  <2>1. ranked = <<>> /\ stage = "probe"
    BY <1>1 DEF Rank, DInv, Listing
  <2>2. Routes(ranked, callsign) = <<>>
    BY <2>1 DEF Routes
  <2>3. Promise!IsPlan(Routes(ranked', callsign))
    BY <1>1, RankedIsPlan
  <2>4. callsign' = callsign /\ stage' = "ranked" /\ UNCHANGED <<target, tables>>
    BY <1>1 DEF Rank
  <2>5. Promise!Answer
    BY <2>1, <2>2, <2>3, <2>4 DEF Promise!Answer, Promise!Pending, Routes
  <2> QED
    BY <2>5
<1>2. CASE Discover /\ ~Rank
  <2>1. /\ UNCHANGED <<target, tables, ranked>>
        /\ stage # "ranked" /\ stage' # "ranked"
    BY <1>2 DEF Discover, ResolveAlias, Probe, AskAlias, ProbeFlexNet, ProbeNetRom
  <2>2. ranked = <<>> /\ ranked' = <<>>
    BY <2>1 DEF DInv, Listing
  <2>3. Routes(ranked, callsign) = <<>> /\ Routes(ranked, callsign)' = <<>>
    BY <2>2 DEF Routes
  <2> QED
    BY <2>1, <2>3 DEF Planned
<1>3. CASE UNCHANGED discovery
  BY <1>3 DEF discovery, Planned, Routes, RankKey
<1> QED
  BY <1>1, <1>2, <1>3
=============================================================================
