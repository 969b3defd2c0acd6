--------------------------- MODULE ReadLoopProofs ---------------------------
(* For every idle window, limit, poll and delay of the event loop: the read  *)
(* loops end in time and never early.  For every prompt, and chunks of every *)
(* length: the text they read is that of the telnet stream, and a prompt in  *)
(* it is found.                                                              *)
EXTENDS TelnetRead, SequenceTheorems, WellFoundedInduction, TLAPS

\* A read times out by the limit, or (idle loop) less than an idle window
\* after it, and time runs no further than Lag beyond that.
Timely ==
  /\ pc = "read" =>
       /\ expires <= MaxWait + IF loop = "idle" THEN Idle ELSE 0
       /\ now <= expires + Lag
  /\ now <= MaxWait + Lag + IF loop = "idle" THEN Idle ELSE 0

\* Chunks are dated no later than now, and why a loop that has ended ended.
Justified ==
  /\ lastData <= now
  /\ pc = "ended" =>
       \/ now >= MaxWait
       \/ loop = "idle" /\ Silent(now, lastData)
       \/ loop = "until" /\ matched

Inv == TypeOK /\ Timely /\ Justified

LEMMA TimeoutBound ==
  ASSUME NEW l \in Loops, NEW t \in Nat, t < MaxWait
  PROVE  /\ Timeout(l, t) \in Nat
         /\ t + Timeout(l, t) <= MaxWait + IF l = "idle" THEN Idle ELSE 0
  BY TimesAssumption DEF Timeout, Lesser, Loops

LEMMA InitInv == Init => Inv
<1> SUFFICES ASSUME Init PROVE Inv
  OBVIOUS
<1> USE TimesAssumption DEF Init
<1>1. TypeOK
  BY DEF TypeOK, Loops, None
<1>2. Timely
  BY DEF Timely
<1>3. Justified
  BY DEF Justified, None
<1> QED
  BY <1>1, <1>2, <1>3 DEF Inv

LEMMA NextInv == Inv /\ [Next]_vars => Inv'
<1> SUFFICES ASSUME Inv, [Next]_vars PROVE Inv'
  OBVIOUS
<1> USE TimesAssumption DEF Inv, TypeOK, Timely, Justified
<1>1. CASE StartRead
  <2>1. /\ Timeout(loop, now) \in Nat
        /\ now + Timeout(loop, now) <= MaxWait + IF loop = "idle" THEN Idle ELSE 0
    BY <1>1, TimeoutBound DEF StartRead
  <2> QED
    BY <1>1, <2>1 DEF StartRead
<1>2. CASE Expire
  BY <1>2 DEF Expire
<1>3. CASE Receive
  <2>1. TypeOK'
    BY <1>3 DEF Receive
  <2>2. Timely'
    BY <1>3 DEF Receive
  <2>3. lastData' <= now'
    BY <1>3 DEF Receive
  <2>4. pc' = "ended" => loop' = "until" /\ matched'
    <3> HIDE DEF Inv, TypeOK, Timely, Justified
    <3> QED
      BY <1>3, Zenon DEF Receive
  <2> QED
    BY <2>1, <2>2, <2>3, <2>4
<1>4. CASE ReadNothing
  BY <1>4 DEF ReadNothing, Silent
<1>5. CASE PeerCloses
  BY <1>5 DEF PeerCloses
<1>6. CASE Tick
  BY <1>6 DEF Tick
<1>7. CASE UNCHANGED vars
  BY <1>7 DEF vars, Silent
<1> QED
  BY <1>1, <1>2, <1>3, <1>4, <1>5, <1>6, <1>7 DEF Next, Step, Ended

LEMMA SpecInv == Spec => []Inv
  BY InitInv, NextInv, PTL DEF Spec

\* The variables of a read loop keep their types.
THEOREM Typing == Spec => []TypeOK
<1>1. Inv => TypeOK
  BY DEF Inv
<1> QED
  BY <1>1, SpecInv, PTL

\* No read loop overruns its limit by more than the idle window of its last
\* read and the delay of the event loop.
THEOREM InTime == Spec => []EndsInTime
<1>1. Inv => EndsInTime
  BY DEF Inv, Timely, EndsInTime
<1> QED
  BY <1>1, SpecInv, PTL

LEMMA Reasons == Inv => NeverEarly
<1> SUFFICES ASSUME Inv, pc = "ended", now < MaxWait PROVE NeverEarly
  BY DEF NeverEarly
<1>1. \/ loop = "idle" /\ Silent(now, lastData)
      \/ loop = "until" /\ matched
  <2>1. ~(now >= MaxWait)
    BY TimesAssumption DEF Inv, TypeOK
  <2> QED
    BY <2>1 DEF Inv, Justified
<1>2. CASE loop = "idle" /\ Silent(now, lastData)
  <2>1. lastData # None /\ now >= lastData + Idle
    BY <1>2, TimesAssumption DEF Inv, TypeOK, Silent, None
  <2> QED
    BY <1>2, <2>1 DEF NeverEarly
<1>3. CASE loop = "until" /\ matched
  BY <1>3 DEF NeverEarly
<1> QED
  BY <1>1, <1>2, <1>3

\* A loop that ends before its limit has a reason to: a chunk and a full idle
\* window of silence after it, or a match; capture has none.
THEOREM NotEarly == Spec => []NeverEarly
  BY Reasons, SpecInv, PTL

(***************************************************************************)
(* Induction along a chunk                                                 *)
(***************************************************************************)
\* The well-ordering of the naturals.
LEMMA Least ==
  ASSUME NEW T, T \subseteq Nat, T # {}
  PROVE  \E x \in T : \A y \in T : x <= y
<1> DEFINE less == {ss \in Nat \X Nat : ss[1] < ss[2]}
<1>1. IsWellFoundedOn(less, Nat)
  BY NatLessThanWellFounded DEF OpToRel
<1>2. \A x, y \in Nat : y < x => <<y, x>> \in less
  OBVIOUS
<1> HIDE DEF less
<1>3. PICK x \in T : \A y \in T : <<y, x>> \notin less
  BY <1>1, WFMin
<1>4. \A y \in T : ~(y < x)
  BY <1>2, <1>3
<1> QED
  BY <1>3, <1>4

LEMMA Upward ==
  ASSUME NEW n \in Nat, NEW T, T \subseteq 0 .. n, 0 \in T,
         \A i \in 0 .. n : i < n /\ i \in T => i + 1 \in T
  PROVE  T = 0 .. n
<1> SUFFICES ASSUME (0 .. n) \ T # {} PROVE FALSE
  OBVIOUS
<1> DEFINE U == (0 .. n) \ T
<1>1. PICK x \in U : \A y \in U : x <= y
  <2>1. U \subseteq Nat /\ U # {}
    OBVIOUS
  <2> HIDE DEF U
  <2> QED
    BY <2>1, Least
<1>2. x # 0 /\ x - 1 \in 0 .. n
  BY <1>1
<1>3. x - 1 \in T
  BY <1>1, <1>2
<1>4. x \in T
  BY <1>1, <1>2, <1>3
<1> QED
  BY <1>1, <1>4

LEMMA Downward ==
  ASSUME NEW n \in Nat, NEW T, T \subseteq 1 .. n,
         \A i \in 1 .. n : (\A j \in 1 .. n : i < j => j \in T) => i \in T
  PROVE  T = 1 .. n
<1> SUFFICES ASSUME (1 .. n) \ T # {} PROVE FALSE
  OBVIOUS
<1> DEFINE U == {k \in 0 .. n : n - k \in (1 .. n) \ T}
<1>1. U # {}
  <2>1. PICK i \in 1 .. n : i \notin T
    OBVIOUS
  <2>2. n - i \in 0 .. n /\ n - (n - i) = i
    OBVIOUS
  <2>3. n - i \in U
    BY <2>1, <2>2
  <2> QED
    BY <2>3
<1>2. PICK k \in U : \A l \in U : k <= l
  <2>1. U \subseteq Nat
    OBVIOUS
  <2> HIDE DEF U
  <2> QED
    BY <1>1, <2>1, Least
<1>3. \A j \in 1 .. n : n - k < j => j \in T
  <2> SUFFICES ASSUME NEW j \in 1 .. n, n - k < j, j \notin T PROVE FALSE
    OBVIOUS
  <2>1. n - j \in U /\ n - j < k
    OBVIOUS
  <2> QED
    BY <1>2, <2>1
<1> QED
  BY <1>2, <1>3

(***************************************************************************)
(* The two decoders                                                        *)
(***************************************************************************)
\* What _strip_iac makes of data from its i-th byte on, f being what it makes
\* of the bytes behind.
Rest(data, f, i) ==
  IF i > Len(data) THEN <<>>
  ELSE IF data[i] # "IAC" \/ i = Len(data)
       THEN <<data[i]>> \o f[i + 1]
  ELSE IF data[i + 1] = "WILL"
       THEN IF i + 2 <= Len(data) THEN f[i + 3] ELSE <<>>
  ELSE IF data[i + 1] = "IAC" THEN <<"IAC">> \o f[i + 2]
  ELSE f[i + 2]

Strips(data, f) == f = [i \in 1 .. Len(data) + 1 |-> Rest(data, f, i)]

LEMMA RestLocal ==
  ASSUME NEW data \in Seq(Bytes), NEW f, NEW g, NEW i \in 1 .. Len(data) + 1,
         \A j \in 1 .. Len(data) + 1 : i < j => f[j] = g[j]
  PROVE  Rest(data, f, i) = Rest(data, g, i)
<1>1. CASE i > Len(data)
  BY <1>1 DEF Rest
<1>2. CASE i = Len(data)
  BY <1>2 DEF Rest
<1>3. CASE i < Len(data)
  <2>1. f[i + 1] = g[i + 1] /\ f[i + 2] = g[i + 2]
    BY <1>3
  <2>2. i + 2 <= Len(data) => f[i + 3] = g[i + 3]
    BY <1>3
  <2> QED
    BY <2>1, <2>2 DEF Rest
<1> QED
  BY <1>1, <1>2, <1>3

LEMMA StripExists ==
  ASSUME NEW data \in Seq(Bytes)
  PROVE  \E f : Strips(data, f)
<1> DEFINE n == Len(data) + 1
           From(f, i) == /\ DOMAIN f = 1 .. n
                         /\ \A j \in 1 .. n : i <= j => f[j] = Rest(data, f, j)
           T == {i \in 1 .. n : \E f : From(f, i)}
<1>0. n \in Nat /\ 1 \in 1 .. n
  OBVIOUS
<1>1. ASSUME NEW i \in 1 .. n, \A j \in 1 .. n : i < j => j \in T
      PROVE  i \in T
  <2>1. PICK f : DOMAIN f = 1 .. n /\ \A j \in 1 .. n : i < j => f[j] = Rest(data, f, j)
    <3>1. CASE i = n
      <4> DEFINE f == [j \in 1 .. n |-> <<>>]
      <4>1. DOMAIN f = 1 .. n /\ \A j \in 1 .. n : i < j => f[j] = Rest(data, f, j)
        BY <3>1
      <4> QED
        BY <4>1
    <3>2. CASE i # n
      <4>1. i + 1 \in 1 .. n
        BY <3>2
      <4>2. i + 1 \in T
        <5>1. i < i + 1
          OBVIOUS
        <5> HIDE DEF T
        <5> QED
          BY <1>1, <4>1, <5>1
      <4>3. PICK f : From(f, i + 1)
        BY <4>2
      <4>4. \A j \in 1 .. n : i < j => i + 1 <= j
        OBVIOUS
      <4> QED
        BY <4>3, <4>4
    <3> QED
      BY <3>1, <3>2
  <2> DEFINE g == [f EXCEPT ![i] = Rest(data, f, i)]
  <2>2. /\ DOMAIN g = 1 .. n /\ g[i] = Rest(data, f, i)
        /\ \A j \in 1 .. n : i # j => g[j] = f[j]
    BY <2>1
  <2> HIDE DEF g
  <2>3. \A j \in 1 .. n : i <= j => Rest(data, g, j) = Rest(data, f, j)
    BY <2>2, RestLocal
  <2>4. \A j \in 1 .. n : i <= j => g[j] = Rest(data, g, j)
    BY <2>1, <2>2, <2>3
  <2>5. From(g, i)
    BY <2>2, <2>4
  <2> QED
    BY <2>5
<1> HIDE DEF From
<1>2. T = 1 .. n
  <2>1. T \subseteq 1 .. n
    OBVIOUS
  <2> HIDE DEF T
  <2> QED
    BY <1>0, <1>1, <2>1, Downward
<1>3. PICK f : From(f, 1)
  BY <1>0, <1>2
<1>4. DOMAIN f = 1 .. n /\ \A j \in 1 .. n : f[j] = Rest(data, f, j)
  BY <1>3 DEF From
<1> DEFINE g == [j \in 1 .. n |-> f[j]]
<1>5. \A j \in 1 .. n : g[j] = Rest(data, g, j)
  <2>1. \A j \in 1 .. n : g[j] = f[j]
    OBVIOUS
  <2> HIDE DEF g
  <2> QED
    BY <1>4, <2>1, RestLocal
<1>6. g = [j \in 1 .. n |-> Rest(data, g, j)]
  BY <1>5
<1> QED
  BY <1>6, Zenon DEF Strips

LEMMA Joined ==
  ASSUME NEW T, NEW r \in Seq(T), NEW s \in Seq(T), NEW t \in Seq(T), NEW x \in T
  PROVE  /\ <<x>> \o s \in Seq(T) /\ r \o s \in Seq(T) /\ Append(r, x) \in Seq(T)
         /\ <<>> \in Seq(T) /\ r \o <<>> = r /\ <<>> \o r = r
         /\ Append(r, x) \o s = r \o (<<x>> \o s)
<1>1. /\ <<x>> \o s \in Seq(T) /\ r \o s \in Seq(T) /\ Append(r, x) \in Seq(T)
      /\ <<>> \in Seq(T)
  OBVIOUS
<1>2. r \o <<>> = r /\ <<>> \o r = r
  OBVIOUS
<1>3. Append(r, x) \o s = r \o (<<x>> \o s)
  OBVIOUS
<1> QED
  BY <1>1, <1>2, <1>3

\* _strip_iac goes from the front to the end.
LEMMA Stripped ==
  ASSUME NEW data \in Seq(Bytes)
  PROVE  \E f : /\ StripIac(data) = f[1]
                /\ \A i \in 1 .. Len(data) + 1 : /\ f[i] = Rest(data, f, i)
                                                 /\ f[i] \in Seq(Bytes)
<1> DEFINE f == CHOOSE f : Strips(data, f)
           n == Len(data) + 1
           T == {i \in 1 .. n : f[i] \in Seq(Bytes)}
<1>1. StripIac(data) = f[1]
  BY Zenon DEF StripIac, Strips, Rest
<1>2. Strips(data, f)
  BY StripExists
<1> HIDE DEF f
<1>3. \A i \in 1 .. n : f[i] = Rest(data, f, i)
  BY <1>2 DEF Strips
<1>4. ASSUME NEW i \in 1 .. n, \A j \in 1 .. n : i < j => j \in T
      PROVE  i \in T
  <2>1. CASE i = n
    <3>1. n > Len(data)
      OBVIOUS
    <3>2. f[i] = <<>>
      BY <1>3, <2>1, <3>1, Zenon DEF Rest
    <3>3. <<>> \in Seq(Bytes)
      OBVIOUS
    <3> QED
      BY <3>2, <3>3
  <2>2. CASE i # n
    <3>1. /\ i \in 1 .. Len(data) /\ data[i] \in Bytes /\ "IAC" \in Bytes
          /\ i + 1 \in 1 .. n /\ (i + 1 <= Len(data) => i + 2 \in 1 .. n)
          /\ (i + 2 <= Len(data) => i + 3 \in 1 .. n)
      BY <2>2 DEF Bytes
    <3>2. /\ f[i + 1] \in Seq(Bytes)
          /\ i + 1 <= Len(data) => f[i + 2] \in Seq(Bytes)
          /\ i + 2 <= Len(data) => f[i + 3] \in Seq(Bytes)
      BY <1>4, <3>1
    <3>3. \A x \in Bytes, s \in Seq(Bytes) : <<x>> \o s \in Seq(Bytes)
      BY Joined
    <3>4. <<>> \in Seq(Bytes)
      OBVIOUS
    <3>5. Rest(data, f, i) \in Seq(Bytes)
      <4>1. i = Len(data) \/ i + 1 <= Len(data)
        BY <3>1
      <4>2. ~(i > Len(data))
        BY <3>1
      <4> QED
        BY <3>1, <3>2, <3>3, <3>4, <4>1, <4>2, Zenon DEF Rest
    <3> QED
      BY <1>3, <3>5
  <2> QED
    BY <2>1, <2>2
<1>5. T = 1 .. n
  <2>1. T \subseteq 1 .. n /\ n \in Nat
    OBVIOUS
  <2> HIDE DEF T, n
  <2> QED
    BY <1>4, <2>1, Downward
<1>6. \A i \in 1 .. n : f[i] \in Seq(Bytes)
  BY <1>5
<1> QED
  BY <1>1, <1>3, <1>6

Decoders == [state : {"data", "IAC", "option"}, text : Seq(Bytes)]

LEMMA Decoding ==
  ASSUME NEW d \in Decoders, NEW byte \in Bytes
  PROVE  /\ OneByte(d, byte) \in Decoders
         /\ d.state = "data" /\ byte # "IAC" =>
              OneByte(d, byte) = [state |-> "data", text |-> Append(d.text, byte)]
         /\ d.state = "data" /\ byte = "IAC" =>
              OneByte(d, byte) = [state |-> "IAC", text |-> d.text]
         /\ d.state = "IAC" /\ byte = "WILL" =>
              OneByte(d, byte) = [state |-> "option", text |-> d.text]
         /\ d.state = "IAC" /\ byte = "IAC" =>
              OneByte(d, byte) = [state |-> "data", text |-> Append(d.text, "IAC")]
         /\ d.state = "IAC" /\ byte \notin {"IAC", "WILL"} =>
              OneByte(d, byte) = [state |-> "data", text |-> d.text]
         /\ d.state = "option" =>
              OneByte(d, byte) = [state |-> "data", text |-> d.text]
<1>1. /\ d.state \in {"data", "IAC", "option"} /\ d.text \in Seq(Bytes)
      /\ d = [state |-> d.state, text |-> d.text]
  BY DEF Decoders
<1>2. Append(d.text, byte) \in Seq(Bytes)
  BY <1>1, Joined
<1>3. CASE d.state = "option"
  BY <1>1, <1>3 DEF OneByte, Decoders
<1>4. CASE d.state = "IAC"
  BY <1>1, <1>2, <1>4 DEF OneByte, Decoders
<1>5. CASE d.state = "data"
  BY <1>1, <1>2, <1>5 DEF OneByte, Decoders
<1> QED
  BY <1>1, <1>3, <1>4, <1>5

\* The decoder of the stream after each byte of data.
DecodedUpTo(start, data, u) ==
  u = [i \in 0 .. Len(data) |->
         IF i = 0 THEN [state |-> start, text |-> <<>>] ELSE OneByte(u[i - 1], data[i])]

LEMMA DecodeExists ==
  ASSUME NEW start, NEW data \in Seq(Bytes)
  PROVE  \E u : DecodedUpTo(start, data, u)
<1> DEFINE n == Len(data)
           d0 == [state |-> start, text |-> <<>>]
           at(u, i) == IF i = 0 THEN d0 ELSE OneByte(u[i - 1], data[i])
           Until(u, i) == /\ DOMAIN u = 0 .. n
                          /\ \A j \in 0 .. n : j <= i => u[j] = at(u, j)
           T == {i \in 0 .. n : \E u : Until(u, i)}
<1>0. n \in Nat /\ 0 \in 0 .. n /\ n \in 0 .. n
  OBVIOUS
<1> HIDE DEF d0
<1>1. 0 \in T
  <2> DEFINE u == [j \in 0 .. n |-> d0]
  <2>1. Until(u, 0)
    OBVIOUS
  <2> QED
    BY <1>0, <2>1
<1>2. ASSUME NEW i \in 0 .. n, i < n, i \in T
      PROVE  i + 1 \in T
  <2>1. PICK u : Until(u, i)
    BY <1>2
  <2> DEFINE v == [u EXCEPT ![i + 1] = at(u, i + 1)]
  <2>2. i + 1 \in 0 .. n
    BY <1>2
  <2>3. /\ DOMAIN v = 0 .. n /\ v[i + 1] = at(u, i + 1)
        /\ \A j \in 0 .. n : j # i + 1 => v[j] = u[j]
    BY <2>1, <2>2
  <2> HIDE DEF v
  <2>4. \A j \in 0 .. n : j <= i + 1 => at(v, j) = at(u, j)
    <3> SUFFICES ASSUME NEW j \in 0 .. n, j <= i + 1, j # 0 PROVE v[j - 1] = u[j - 1]
      OBVIOUS
    <3>1. j - 1 \in 0 .. n /\ j - 1 # i + 1
      OBVIOUS
    <3> QED
      BY <2>3, <3>1
  <2>5. Until(v, i + 1)
    <3>1. \A j \in 0 .. n : j <= i + 1 => j <= i \/ j = i + 1
      OBVIOUS
    <3> HIDE DEF at
    <3> QED
      BY <2>1, <2>3, <2>4, <3>1
  <2> QED
    BY <2>2, <2>5
<1>3. T = 0 .. n
  <2>1. T \subseteq 0 .. n
    OBVIOUS
  <2> HIDE DEF T
  <2> QED
    BY <1>0, <1>1, <1>2, <2>1, Upward
<1>4. PICK u : Until(u, n)
  BY <1>0, <1>3
<1> DEFINE v == [j \in 0 .. n |-> u[j]]
<1>5. \A j \in 0 .. n : v[j] = at(v, j)
  <2> TAKE j \in 0 .. n
  <2>1. v[j] = u[j] /\ u[j] = at(u, j)
    BY <1>4
  <2>2. j # 0 => v[j - 1] = u[j - 1]
    OBVIOUS
  <2> QED
    BY <2>1, <2>2
<1>6. v = [j \in 0 .. n |-> at(v, j)]
  BY <1>5
<1> QED
  BY <1>6, Zenon DEF DecodedUpTo, d0

LEMMA Decoded ==
  ASSUME NEW start \in {"data", "IAC", "option"}, NEW data \in Seq(Bytes)
  PROVE  \E u : /\ Decode(start, data) = u[Len(data)]
                /\ u[0] = [state |-> start, text |-> <<>>]
                /\ \A i \in 1 .. Len(data) : u[i] = OneByte(u[i - 1], data[i])
                /\ \A i \in 0 .. Len(data) : u[i] \in Decoders
<1> DEFINE u == CHOOSE u : DecodedUpTo(start, data, u)
           n == Len(data)
           T == {i \in 0 .. n : u[i] \in Decoders}
<1>1. Decode(start, data) = u[n]
  BY Zenon DEF Decode, DecodedUpTo
<1>2. DecodedUpTo(start, data, u)
  BY DecodeExists
<1> HIDE DEF u
<1>3. n \in Nat /\ 0 \in 0 .. n
  OBVIOUS
<1>4. u[0] = [state |-> start, text |-> <<>>]
  BY <1>2, <1>3 DEF DecodedUpTo
<1>5. \A i \in 1 .. n : u[i] = OneByte(u[i - 1], data[i])
  BY <1>2 DEF DecodedUpTo
<1>6. u[0] \in Decoders
  BY <1>4 DEF Decoders
<1>7. ASSUME NEW i \in 0 .. n, i < n, i \in T
      PROVE  i + 1 \in T
  <2>1. i + 1 \in 1 .. n /\ data[i + 1] \in Bytes /\ (i + 1) - 1 = i
    BY <1>7
  <2>2. u[i + 1] = OneByte(u[i], data[i + 1])
    BY <1>5, <2>1
  <2> QED
    BY <1>7, <2>1, <2>2, Decoding
<1>8. T = 0 .. n
  <2>1. T \subseteq 0 .. n /\ 0 \in T
    BY <1>3, <1>6
  <2> HIDE DEF T, n
  <2> QED
    BY <1>3, <1>7, <2>1, Upward
<1> QED
  BY <1>1, <1>4, <1>5, <1>8

\* A chunk that neither begins nor ends inside a command: _strip_iac, which sees
\* the chunk alone, and the decoder of the stream agree.
LEMMA Agree ==
  ASSUME NEW data \in Seq(Bytes), Decode("data", data).state = "data"
  PROVE  StripIac(data) = Decode("data", data).text
<1> DEFINE L == Len(data)
           n == L + 1
<1>1. PICK f : /\ StripIac(data) = f[1]
               /\ \A i \in 1 .. n : f[i] = Rest(data, f, i) /\ f[i] \in Seq(Bytes)
  BY Stripped
<1>2. PICK u : /\ Decode("data", data) = u[L]
               /\ u[0] = [state |-> "data", text |-> <<>>]
               /\ \A i \in 1 .. L : u[i] = OneByte(u[i - 1], data[i])
               /\ \A i \in 0 .. L : u[i] \in Decoders
  BY Decoded
<1> DEFINE whole == u[L].text
           T == {i \in 1 .. n : u[i - 1].state = "data" => whole = u[i - 1].text \o f[i]}
<1>3. L \in Nat /\ \A i \in 1 .. L : data[i] \in Bytes
  OBVIOUS
<1>4. \A i \in 0 .. L : u[i].text \in Seq(Bytes)
  BY <1>2 DEF Decoders
<1>5. u[L].state = "data"
  BY <1>2
<1>a. /\ \A r, t \in Seq(Bytes), x \in Bytes : Append(r, x) \o t = r \o (<<x>> \o t)
      /\ \A r \in Seq(Bytes) : <<>> \o r = r
  BY Joined
<1> HIDE DEF L
<1>6. ASSUME NEW i \in 1 .. n, \A j \in 1 .. n : i < j => j \in T, u[i - 1].state = "data"
      PROVE  whole = u[i - 1].text \o f[i]
  <2> DEFINE text == u[i - 1].text
  <2>0. i - 1 \in 0 .. L /\ text \in Seq(Bytes)
    BY <1>3, <1>4
  <2>a. \A j \in 1 .. n : i < j /\ u[j - 1].state = "data" => whole = u[j - 1].text \o f[j]
    BY <1>6
  <2> HIDE DEF T, whole
  <2>1. CASE i = n
    <3>1. f[i] = <<>>
      <4>1. i > L
        BY <1>3, <2>1
      <4> QED
        BY <1>1, <4>1, Zenon DEF Rest, L
    <3>2. i - 1 = L
      BY <1>3, <2>1
    <3> QED
      BY <2>0, <3>1, <3>2, Joined DEF whole
  <2>2. CASE i # n /\ data[i] # "IAC"
    <3>1. i \in 1 .. L /\ i + 1 \in 1 .. n /\ (i + 1) - 1 = i /\ i < i + 1 /\ ~(i > L)
      BY <1>3, <2>2
    <3>2. u[i] = [state |-> "data", text |-> Append(text, data[i])]
      BY <1>2, <1>3, <1>6, <2>0, <2>2, <3>1, Decoding
    <3>3. whole = Append(text, data[i]) \o f[i + 1]
      <4>1. u[i].state = "data" /\ u[i].text = Append(text, data[i])
        BY <3>2
      <4> HIDE DEF text
      <4> QED
        BY <2>a, <3>1, <4>1
    <3>4. f[i] = <<data[i]>> \o f[i + 1]
      BY <1>1, <2>2, <3>1, Zenon DEF Rest, L
    <3>5. f[i + 1] \in Seq(Bytes) /\ data[i] \in Bytes
      BY <1>1, <1>3, <3>1
    <3>6. Append(text, data[i]) \o f[i + 1] = text \o (<<data[i]>> \o f[i + 1])
      BY <1>a, <2>0, <3>5, Zenon
    <3> QED
      BY <3>3, <3>4, <3>6
  <2>3. CASE i # n /\ data[i] = "IAC"
    <3>1. i \in 1 .. L /\ ~(i > L)
      BY <1>3, <2>3
    <3>2. u[i] = [state |-> "IAC", text |-> text]
      BY <1>2, <1>3, <1>6, <2>0, <2>3, <3>1, Decoding
    <3>3. i # L
      BY <1>5, <3>2
    <3>4. /\ i + 1 \in 1 .. L /\ i \in 0 .. L /\ (i + 1) - 1 = i
          /\ i + 2 \in 1 .. n /\ (i + 2) - 1 = i + 1 /\ i < i + 2
          /\ (i + 2 <= L => i + 2 \in 1 .. L)
          /\ ~(i + 2 <= L) => i + 1 = L
      BY <1>3, <3>1, <3>3
    <3>5. u[i + 1] = OneByte(u[i], data[i + 1]) /\ u[i] \in Decoders /\ data[i + 1] \in Bytes
      BY <1>2, <1>3, <3>4
    <3>6. CASE data[i + 1] = "WILL"
      <4>1. u[i + 1] = [state |-> "option", text |-> text]
        BY <3>2, <3>5, <3>6, Decoding
      <4>2. i + 2 <= L
        BY <1>5, <3>4, <4>1
      <4>3. /\ i + 2 \in 1 .. L /\ i + 1 \in 0 .. L
            /\ i + 3 \in 1 .. n /\ (i + 3) - 1 = i + 2 /\ i < i + 3
        BY <1>3, <3>1, <4>2
      <4>4. u[i + 2] = [state |-> "data", text |-> text]
        <5>1. u[i + 2] = OneByte(u[i + 1], data[i + 2]) /\ u[i + 1] \in Decoders
              /\ data[i + 2] \in Bytes
          BY <1>2, <1>3, <3>4, <4>3
        <5>2. u[i + 1].state = "option" /\ u[i + 1].text = text
          BY <4>1
        <5> HIDE DEF text
        <5>3. OneByte(u[i + 1], data[i + 2]) = [state |-> "data", text |-> u[i + 1].text]
          BY <5>1, <5>2, Decoding
        <5> QED
          BY <5>1, <5>2, <5>3, Zenon
      <4>5. whole = text \o f[i + 3]
        <5>1. u[i + 2].state = "data" /\ u[i + 2].text = text
          BY <4>4
        <5> HIDE DEF text
        <5> QED
          BY <2>a, <4>3, <5>1
      <4>6. f[i] = f[i + 3]
        BY <1>1, <2>3, <3>1, <3>3, <3>6, <4>2, Zenon DEF Rest, L
      <4> QED
        BY <4>5, <4>6
    <3>7. CASE data[i + 1] = "IAC"
      <4>1. u[i + 1] = [state |-> "data", text |-> Append(text, "IAC")]
        <5>1. u[i].state = "IAC" /\ u[i].text = text
          BY <3>2
        <5> HIDE DEF text
        <5>2. OneByte(u[i], data[i + 1]) = [state |-> "data", text |-> Append(u[i].text, "IAC")]
          BY <3>5, <3>7, <5>1, Decoding
        <5> QED
          BY <3>5, <5>1, <5>2, Zenon
      <4>2. whole = Append(text, "IAC") \o f[i + 2]
        <5>1. u[i + 1].state = "data" /\ u[i + 1].text = Append(text, "IAC")
          BY <4>1
        <5> HIDE DEF text
        <5> QED
          BY <2>a, <3>4, <5>1
      <4>3. f[i] = <<"IAC">> \o f[i + 2]
        <5>1. data[i + 1] # "WILL"
          BY <3>7
        <5> QED
          BY <1>1, <2>3, <3>1, <3>3, <3>7, <5>1, Zenon DEF Rest, L
      <4>4. f[i + 2] \in Seq(Bytes) /\ "IAC" \in Bytes
        BY <1>1, <3>4 DEF Bytes
      <4>5. Append(text, "IAC") \o f[i + 2] = text \o (<<"IAC">> \o f[i + 2])
        BY <1>a, <2>0, <4>4, Zenon
      <4> QED
        BY <4>2, <4>3, <4>5
    <3>8. CASE data[i + 1] \notin {"IAC", "WILL"}
      <4>1. u[i + 1] = [state |-> "data", text |-> text]
        BY <3>2, <3>5, <3>8, Decoding
      <4>2. whole = text \o f[i + 2]
        <5>1. u[i + 1].state = "data" /\ u[i + 1].text = text
          BY <4>1
        <5> HIDE DEF text
        <5> QED
          BY <2>a, <3>4, <5>1
      <4>3. f[i] = f[i + 2]
        BY <1>1, <2>3, <3>1, <3>3, <3>8, Zenon DEF Rest, L
      <4> QED
        BY <4>2, <4>3
    <3> QED
      BY <3>6, <3>7, <3>8
  <2> QED
    BY <2>1, <2>2, <2>3
<1>7. T = 1 .. n
  <2>0. n \in Nat
    BY <1>3
  <2>1. T \subseteq 1 .. n
    <3> HIDE DEF n, whole
    <3> QED
      BY Zenon
  <2>2. \A i \in 1 .. n : (\A j \in 1 .. n : i < j => j \in T) => i \in T
    BY <1>6
  <2> HIDE DEF T, n
  <2> QED
    BY <2>0, <2>1, <2>2, Downward
<1>8. 1 \in 1 .. n /\ 1 - 1 = 0
  BY <1>3
<1>9. whole = <<>> \o f[1]
  <2>1. u[0].state = "data" /\ u[0].text = <<>>
    BY <1>2
  <2>2. u[1 - 1].state = "data" => whole = u[1 - 1].text \o f[1]
    <3> HIDE DEF n, whole
    <3> QED
      BY <1>7, <1>8, Zenon
  <2> HIDE DEF whole
  <2> QED
    BY <1>8, <2>1, <2>2
<1>10. <<>> \o f[1] = f[1]
  BY <1>1, <1>8, Joined
<1> QED
  BY <1>1, <1>2, <1>9, <1>10

(***************************************************************************)
(* The buffer                                                              *)
(***************************************************************************)
\* EndOf is a beginning of the prompt, whatever the text.
LEMMA EndIsBeginning ==
  ASSUME NEW text \in Seq(Bytes)
  PROVE  \E n \in 0 .. Len(Prompt) : EndOf(text) = SubSeq(Prompt, 1, n)
<1> DEFINE ends(k) == IsSuffix(SubSeq(Prompt, 1, k), text)
           n == CHOOSE k \in 0 .. Len(Prompt) :
                  ends(k) /\ \A l \in k + 1 .. Len(Prompt) : ~ends(l)
           U == {m \in 0 .. Len(Prompt) : ends(Len(Prompt) - m)}
<1>0. Len(Prompt) \in Nat /\ Prompt \in Seq(Bytes)
  BY TelnetAssumption
<1>1. ends(0)
  <2>1. SubSeq(Prompt, 1, 0) = <<>>
    BY <1>0
  <2>2. Reverse(<<>>) = <<>>
    BY DEF Reverse
  <2>3. Reverse(text) \in Seq(Bytes)
    <3>1. \A i \in 1 .. Len(text) : (Len(text) - i) + 1 \in 1 .. Len(text)
      OBVIOUS
    <3>2. \A i \in 1 .. Len(text) : text[(Len(text) - i) + 1] \in Bytes
      BY <3>1
    <3>3. Len(text) \in Nat
      OBVIOUS
    <3> QED
      BY <3>2, <3>3 DEF Reverse
  <2>4. \A s \in Seq(Bytes) : IsPrefix(<<>>, s)
    BY DEF IsPrefix
  <2> QED
    BY <2>1, <2>2, <2>3, <2>4, Zenon DEF IsSuffix
<1> HIDE DEF ends
<1>2. U \subseteq Nat /\ U # {}
  <2>1. Len(Prompt) \in U
    BY <1>0, <1>1
  <2> QED
    BY <2>1
<1>3. PICK m \in U : \A l \in U : m <= l
  <2> HIDE DEF U
  <2> QED
    BY <1>2, Least
<1>4. \A l \in (Len(Prompt) - m) + 1 .. Len(Prompt) : ~ends(l)
  <2> TAKE l \in (Len(Prompt) - m) + 1 .. Len(Prompt)
  <2>1. m \in 0 .. Len(Prompt)
    BY <1>3
  <2>2. Len(Prompt) - l \in 0 .. Len(Prompt) /\ Len(Prompt) - l < m
        /\ Len(Prompt) - (Len(Prompt) - l) = l
    BY <1>0, <2>1
  <2>3. Len(Prompt) - l \notin U
    BY <1>3, <2>1, <2>2
  <2> QED
    BY <2>2, <2>3
<1>5. \E k \in 0 .. Len(Prompt) : ends(k) /\ \A l \in k + 1 .. Len(Prompt) : ~ends(l)
  <2>1. Len(Prompt) - m \in 0 .. Len(Prompt) /\ ends(Len(Prompt) - m)
    BY <1>0, <1>3
  <2> QED
    BY <1>4, <2>1
<1>6. n \in 0 .. Len(Prompt)
  BY <1>5
<1>7. EndOf(text) = SubSeq(Prompt, 1, n)
  BY Zenon DEF EndOf, ends
<1> QED
  BY <1>6, <1>7

LEMMA EndTypes ==
  ASSUME NEW text \in Seq(Bytes)
  PROVE  EndOf(text) \in Seq(Bytes) /\ IsPrefix(EndOf(text), Prompt)
<1>1. PICK n \in 0 .. Len(Prompt) : EndOf(text) = SubSeq(Prompt, 1, n)
  BY EndIsBeginning
<1>2. Prompt \in Seq(Bytes)
  BY TelnetAssumption
<1>3. \A s \in Seq(Bytes) : \A k \in 0 .. Len(s) :
        SubSeq(s, 1, k) \in Seq(Bytes) /\ IsPrefix(SubSeq(s, 1, k), s)
  BY DEF IsPrefix
<1> QED
  BY <1>1, <1>2, <1>3, Zenon

LEMMA ChunkTypes ==
  ASSUME NEW chunk \in Chunks
  PROVE  chunk \in Seq(Bytes)
BY TelnetAssumption DEF Chunks

\* Until a chunk ends inside a command, the buffer holds the text of the stream
\* and the stream is between commands; _read_until has looked at all of it.
Sound ==
  /\ ~cut => state = "data" /\ intact /\ tail = meant
  /\ loop = "until" /\ tail = Prompt => matched

Texts ==
  /\ tail \in Seq(Bytes) /\ meant \in Seq(Bytes)
  /\ IsPrefix(tail, Prompt) /\ IsPrefix(meant, Prompt)
  /\ state \in {"data", "IAC", "option"}
  /\ intact \in BOOLEAN /\ cut \in BOOLEAN

TInv == Inv /\ Texts /\ Sound

LEMMA InitTInv == TelnetInit => TInv
<1> SUFFICES ASSUME TelnetInit PROVE TInv
  OBVIOUS
<1>1. Inv
  BY InitInv DEF TelnetInit
<1>2. IsPrefix(<<>>, Prompt)
  BY TelnetAssumption DEF IsPrefix
<1>3. <<>> \in Seq(Bytes)
  OBVIOUS
<1>4. Texts
  BY <1>2, <1>3 DEF TelnetInit, Texts
<1>5. Sound
  BY TelnetAssumption DEF TelnetInit, Sound
<1> QED
  BY <1>1, <1>4, <1>5 DEF TInv

LEMMA ChunkKeeps ==
  ASSUME Texts, Sound, ReceiveChunk
  PROVE  Texts' /\ Sound'
<1> DEFINE whole(chunk) == Decode(state, chunk)
<1>1. PICK chunk \in Chunks :
        /\ tail' = EndOf(tail \o StripIac(chunk))
        /\ state' = whole(chunk).state
        /\ meant' = EndOf(meant \o whole(chunk).text)
        /\ intact' = (intact /\ StripIac(chunk) = whole(chunk).text)
        /\ cut' = (cut \/ whole(chunk).state # "data")
  BY Zenon DEF ReceiveChunk, Buffered
<1>2. matched' = (loop = "until" /\ tail' = Prompt) /\ loop' = loop
  BY DEF ReceiveChunk, Receive
<1>3. chunk \in Seq(Bytes)
  BY ChunkTypes
<1>4. StripIac(chunk) \in Seq(Bytes)
  <2>1. 1 \in 1 .. Len(chunk) + 1
    BY <1>3
  <2> QED
    BY <1>3, <2>1, Stripped
<1>5. whole(chunk) \in Decoders
  <2>1. Len(chunk) \in 0 .. Len(chunk)
    BY <1>3
  <2> QED
    BY <1>3, <2>1, Decoded DEF Texts
<1>6. whole(chunk).state \in {"data", "IAC", "option"} /\ whole(chunk).text \in Seq(Bytes)
  BY <1>5 DEF Decoders
<1>7. tail \o StripIac(chunk) \in Seq(Bytes) /\ meant \o whole(chunk).text \in Seq(Bytes)
  <2>1. \A r, t \in Seq(Bytes) : r \o t \in Seq(Bytes)
    OBVIOUS
  <2> QED
    BY <1>4, <1>6, <2>1, Zenon DEF Texts
<1>8. Texts'
  <2>1. /\ tail' \in Seq(Bytes) /\ meant' \in Seq(Bytes)
        /\ IsPrefix(tail', Prompt) /\ IsPrefix(meant', Prompt)
    BY <1>1, <1>7, EndTypes, Zenon
  <2>2. state' \in {"data", "IAC", "option"}
    BY <1>1, <1>6, Zenon
  <2>3. intact' \in BOOLEAN /\ cut' \in BOOLEAN
    BY <1>1, Zenon
  <2> QED
    BY <2>1, <2>2, <2>3, Zenon DEF Texts
<1>9. ~cut' => state' = "data" /\ intact' /\ tail' = meant'
  <2> SUFFICES ASSUME ~cut' PROVE state' = "data" /\ intact' /\ tail' = meant'
    OBVIOUS
  <2>1. ~cut /\ whole(chunk).state = "data"
    BY <1>1
  <2>2. state = "data" /\ intact /\ tail = meant
    BY <2>1 DEF Sound
  <2>3. StripIac(chunk) = whole(chunk).text
    BY <1>3, <2>1, <2>2, Agree
  <2> QED
    BY <1>1, <2>1, <2>2, <2>3, Zenon
<1>10. loop' = "until" /\ tail' = Prompt => matched'
  BY <1>2, Zenon
<1> QED
  BY <1>8, <1>9, <1>10 DEF Sound

LEMMA NextTInv == TInv /\ [TelnetNext]_telnetVars => TInv'
<1> SUFFICES ASSUME TInv, [TelnetNext]_telnetVars PROVE TInv'
  OBVIOUS
<1>1. Inv'
  <2>1. [Next]_vars
    BY Zenon DEF TelnetNext, ReceiveChunk, telnetVars, Next
  <2> QED
    BY <2>1, NextInv DEF TInv
<1>2. CASE ReceiveChunk
  BY <1>1, <1>2, ChunkKeeps DEF TInv
<1>3. CASE ~ReceiveChunk
  <2>1. UNCHANGED <<loop, matched>> /\ UNCHANGED stream
    BY <1>3 DEF TelnetNext, telnetVars, Step, StartRead, Expire, ReadNothing, PeerCloses, Tick,
                Ended, vars
  <2>2. Texts' /\ Sound'
    BY <2>1, Zenon DEF TInv, Texts, Sound, stream
  <2> QED
    BY <1>1, <2>2 DEF TInv
<1> QED
  BY <1>2, <1>3

LEMMA TelnetInv == TelnetSpec => []TInv
  BY InitTInv, NextTInv, PTL DEF TelnetSpec

\* The variables of the stream keep their types, and what the buffer ends with
\* is a beginning of the prompt.
THEOREM TelnetTyping == TelnetSpec => []TelnetTypeOK
<1>1. TInv => TelnetTypeOK
  BY DEF TInv, Inv, Texts, TelnetTypeOK
<1> QED
  BY <1>1, TelnetInv, PTL

\* _strip_iac, chunk by chunk, yields the text of the whole stream as long as no
\* chunk ends inside a command.
THEOREM TextOfStream == TelnetSpec => []TextIntact
<1>1. TInv => TextIntact
  BY DEF TInv, Sound, TextIntact
<1> QED
  BY <1>1, TelnetInv, PTL

\* A prompt that the text of the stream ends with is found by _read_until, in
\* however many chunks it came.
THEOREM PromptIsFound == TelnetSpec => []PromptFound
<1>1. TInv => PromptFound
  BY DEF TInv, Sound, PromptFound
<1> QED
  BY <1>1, TelnetInv, PTL

\* What chunks a loop is given, and when, changes nothing of its times.
THEOREM StreamInTime == TelnetSpec => [](EndsInTime /\ NeverEarly)
<1>1. TInv => EndsInTime /\ NeverEarly
  BY Reasons DEF TInv, Inv, Timely, EndsInTime
<1> QED
  BY <1>1, TelnetInv, PTL
=============================================================================
