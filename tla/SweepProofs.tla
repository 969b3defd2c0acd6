---------------------------- MODULE SweepProofs ----------------------------
(* For any number of nodes, any keychain and any limits: passwords stay with *)
(* their accounts, every node has its entry, and a hanging keychain costs no *)
(* node an answer that came with Slack to spare before the end of its read,  *)
(* unless a closed stream has held the loop as well.                         *)
EXTENDS Sweep, FiniteSetTheorems, TLAPS

\* A queue holds at most the answer to its own lookup.
OwnQueue ==
  \A l \in Lookups :
    /\ queue[l] \in {<<>>, <<{}>>, <<{l.account}>>}
    /\ thread[l] # "ended" => queue[l] = <<>>

OwnSent == \A s \in sent : s[2] = s[1].account

ReadySet == {n \in Nodes : ready[n] # "no"}

\* One session at most holds the loop, and the loop has taken it up.
Holder ==
  /\ blocked = {} => wait = 0
  /\ \A l \in blocked : ready[l.account.node] = "no"
  /\ spinning # {} => spun /\ blocked = {}
  /\ \A n \in spinning : ready[n] = "no" /\ heard[n] = "closed"

\* What a node sends is what the read still lacks, on a stream that is open.
Sent ==
  \A n \in Nodes :
    /\ heard[n] = "part" => got[n] = "nothing"
    /\ heard[n] \in {"early", "late"} => got[n] # "whole"
    /\ heard[n] = "closed" => stage[n] \notin {"dial", "end"}

\* What the loop has found for a session: never an expiry for one heard early.
Taken ==
  \A n \in Nodes :
    /\ ready[n] # "no" => stage[n] # "end"
    /\ ready[n] = "data" => heard[n] \in {"part", "early", "late"}
    /\ ready[n] = "eof" => heard[n] = "closed"
    /\ ready[n] = "expiry" => left[n] = 0
    /\ ready[n] = "expiry" /\ ~spun => heard[n] # "early"

\* A session heard early outlasts the lookup that holds the loop and one more
\* for every session of the iteration.
InTime ==
  ~spun => \A n \in Nodes :
    heard[n] = "early" /\ ready[n] = "no" /\ Waiting(n) =>
      left[n] > wait + Cardinality(ReadySet) * KT

Entered ==
  /\ \A n \in Nodes : stage[n] = "end" => entry[n] # "none"
  /\ outcome # "none" => \A n \in Nodes : stage[n] = "end"

Inv ==
  /\ TypeOK /\ OwnQueue /\ OwnSent
  /\ Holder /\ Sent /\ Taken /\ InTime /\ Entered

\* Where a session may go on to.
Onward(n) ==
  IF stage[n] = "sys" THEN {"verdict", "reply"} ELSE {Following(n)}

Moves(n) == Fail(n) \/ \E next \in Onward(n) : MoveTo(n, next)

-----------------------------------------------------------------------------
(* Arithmetic of the iterations.                                             *)
LEMMA LessTimes ==
  ASSUME NEW a \in Nat, NEW b \in Nat, a <= b, NEW k \in Nat
  PROVE  a * k <= b * k
<1>1. PICK d \in Nat : b = a + d
  <2>1. b - a \in Nat /\ b = a + (b - a)
    BY SMT
  <2> QED
    BY <2>1
<1>2. b * k = a * k + d * k
  BY <1>1, SMT
<1>3. d * k \in Nat /\ a * k \in Nat
  BY SMT
<1> QED
  BY <1>2, <1>3, SMT

LEMMA OneLess ==
  ASSUME NEW a \in Nat, a > 0, NEW k \in Nat
  PROVE  (a - 1) * k + k = a * k
BY SMT

LEMMA ReadyFinite ==
  ASSUME NEW A \in SUBSET Nodes
  PROVE  /\ IsFiniteSet(A) /\ Cardinality(A) \in Nat
         /\ Cardinality(A) <= Cardinality(Nodes) /\ Cardinality(Nodes) \in Nat
BY SweepAssumption, FS_Subset, FS_CardinalityType

\* A session that is not in the iteration leaves room in Slack.
LEMMA SlackSuffices ==
  ASSUME TypeOK, Holder, NEW n \in Nodes, Waiting(n), ready[n] = "no"
  PROVE  wait + Cardinality(ReadySet) * KT <= Slack
<1> DEFINE q == Cardinality(ReadySet)
           N == Cardinality(Nodes)
<1>1. KT \in Nat /\ wait \in 0 .. KT
  BY KeyringAssumption DEF TypeOK, KeyringTypeOK
<1>2. q \in Nat /\ N \in Nat /\ IsFiniteSet(ReadySet) /\ IsFiniteSet(Nodes)
  BY ReadyFinite, SweepAssumption DEF ReadySet
<1>3. CASE blocked = {}
  <2>1. /\ IsFiniteSet(ReadySet \cup {n})
        /\ Cardinality(ReadySet \cup {n}) = q + 1
    BY <1>2, FS_AddElement DEF ReadySet
  <2>2. q + 1 <= N
    BY <2>1, ReadyFinite DEF ReadySet
  <2>3. q <= N - 1 /\ N - 1 \in Nat
    BY <2>2, <1>2
  <2>4. q * KT <= (N - 1) * KT
    BY <2>3, <1>1, <1>2, LessTimes
  <2>5. wait = 0
    BY <1>3 DEF Holder
  <2>6. q * KT \in Nat
    BY <1>1, <1>2
  <2> QED
    BY <2>4, <2>5, <2>6 DEF Slack
<1>4. CASE blocked # {}
  <2>1. PICK l \in blocked : TRUE
    BY <1>4
  <2> DEFINE m == l.account.node
  <2>2. m \in Nodes /\ m # n /\ ready[m] = "no"
    BY <2>1 DEF TypeOK, KeyringTypeOK, Lookups, Accounts, Waiting, Holder
  <2> HIDE DEF m
  <2> DEFINE B == ReadySet \cup {n}
  <2>3. /\ IsFiniteSet(B) /\ Cardinality(B) = q + 1
        /\ m \notin B /\ B \cup {m} \subseteq Nodes
    BY <1>2, <2>2, FS_AddElement DEF ReadySet
  <2> HIDE DEF B
  <2>4. Cardinality(B \cup {m}) = Cardinality(B) + 1
    BY <2>3, FS_AddElement
  <2>5. Cardinality(B \cup {m}) <= N
    BY <2>3, ReadyFinite
  <2>6. q + 2 <= N
    BY <1>2, <2>3, <2>4, <2>5
  <2>7. q + 1 \in Nat /\ q + 1 <= N - 1 /\ N - 1 \in Nat /\ (q + 1) - 1 = q
    BY <2>6, <1>2
  <2>8. (q + 1) * KT <= (N - 1) * KT
    BY <2>7, <1>1, LessTimes
  <2>9. q * KT + KT = (q + 1) * KT
    BY <2>7, <1>1, <1>2, OneLess
  <2>10. q * KT \in Nat /\ (q + 1) * KT \in Nat /\ (N - 1) * KT \in Nat
    BY <1>1, <1>2, <2>7
  <2> QED
    BY <1>1, <2>8, <2>9, <2>10 DEF Slack
<1> QED
  BY <1>3, <1>4

\* A session that the loop takes up makes room for its lookup.
LEMMA TakenUp ==
  ASSUME TypeOK, NEW n \in Nodes, ready[n] # "no",
         ready' = [ready EXCEPT ![n] = "no"]
  PROVE  /\ Cardinality(ReadySet)' * KT + KT = Cardinality(ReadySet) * KT
         /\ Cardinality(ReadySet)' * KT \in Nat
         /\ Cardinality(ReadySet) * KT \in Nat
<1>1. ReadySet' = ReadySet \ {n} /\ n \in ReadySet
  BY DEF ReadySet, TypeOK
<1>2. IsFiniteSet(ReadySet) /\ Cardinality(ReadySet) \in Nat
  BY ReadyFinite DEF ReadySet
<1>3. Cardinality(ReadySet') = Cardinality(ReadySet) - 1
  BY <1>1, <1>2, FS_RemoveElement
<1>4. IsFiniteSet(ReadySet') /\ Cardinality(ReadySet') \in Nat
  BY ReadyFinite DEF ReadySet
<1>5. Cardinality(ReadySet)' = Cardinality(ReadySet')
  OBVIOUS
<1>6. KT \in Nat /\ Cardinality(ReadySet) > 0
  BY <1>2, <1>3, <1>4, KeyringAssumption
<1> HIDE DEF ReadySet
<1>7. (Cardinality(ReadySet) - 1) * KT + KT = Cardinality(ReadySet) * KT
  BY <1>2, <1>6, OneLess
<1> QED
  BY <1>2, <1>3, <1>4, <1>5, <1>6, <1>7

-----------------------------------------------------------------------------
(* The steps.                                                                *)
LEMMA InitInv == Init => Inv
<1> SUFFICES ASSUME Init PROVE Inv
  OBVIOUS
<1> USE SweepAssumption, KeyringAssumption DEF Init, KeyringInit
<1>1. TypeOK
  <2>1. PICK c \in Cases : tool = c[1] /\ logins = c[2]
    OBVIOUS
  <2>2. c = <<c[1], c[2]>>
    BY <2>1
  <2>3. <<tool, logins>> \in Cases
    BY <2>1, <2>2
  <2>4. KeyringTypeOK
    BY DEF KeyringTypeOK, Passwords
  <2>5. left \in [Nodes -> 0 .. Limit] /\ call \in [Nodes -> Calls]
    OBVIOUS
  <2> QED
    BY <2>3, <2>4, <2>5 DEF TypeOK, Stages, Entries
<1>2. OwnQueue /\ OwnSent /\ Holder /\ Sent /\ Taken /\ InTime /\ Entered
  BY DEF OwnQueue, OwnSent, Holder, Sent, Taken, InTime, Entered
<1> QED
  BY <1>1, <1>2 DEF Inv

LEMMA SlackNat == ASSUME NEW n \in Nodes PROVE Slack \in Nat
<1>1. IsFiniteSet({n}) /\ Cardinality({n}) = 1
  BY FS_EmptySet, FS_AddElement, {} \cup {n} = {n}
<1>2. Cardinality({n}) <= Cardinality(Nodes) /\ Cardinality(Nodes) \in Nat
  BY ReadyFinite
<1>3. Cardinality(Nodes) - 1 \in Nat /\ KT \in Nat
  BY <1>1, <1>2, KeyringAssumption
<1> QED
  BY <1>3 DEF Slack

LEMMA OnwardTyped ==
  ASSUME TypeOK, NEW n \in Nodes
  PROVE  Onward(n) \subseteq Stages
BY DEF Onward, Following, Stages, TypeOK

\* A session that fails or goes on leaves the others as they are.
LEMMA Alone ==
  ASSUME TypeOK, NEW n \in Nodes, Moves(n)
  PROVE  /\ ready' = [ready EXCEPT ![n] = "no"]
         /\ spinning' = spinning \ {n}
         /\ spun' = spun /\ outcome' = outcome
         /\ heard'[n] \in {"no", "closed", "broken"} /\ got'[n] = "nothing"
         /\ heard'[n] = "closed" => stage'[n] \notin {"dial", "end"}
         /\ stage'[n] = "end" => entry'[n] # "none"
         /\ \A m \in Nodes \ {n} :
              /\ heard'[m] = heard[m] /\ left'[m] = left[m] /\ got'[m] = got[m]
              /\ stage'[m] = stage[m] /\ call'[m] = call[m]
              /\ entry'[m] = entry[m]
<1>1. CASE Fail(n)
  BY <1>1 DEF Fail, Caught, TypeOK
<1>2. ASSUME NEW next \in Onward(n), MoveTo(n, next)
      PROVE  /\ ready' = [ready EXCEPT ![n] = "no"]
             /\ spinning' = spinning \ {n}
             /\ spun' = spun /\ outcome' = outcome
             /\ heard'[n] \in {"no", "closed", "broken"} /\ got'[n] = "nothing"
             /\ heard'[n] = "closed" => stage'[n] \notin {"dial", "end"}
             /\ stage'[n] = "end" => entry'[n] # "none"
             /\ \A m \in Nodes \ {n} :
                  /\ heard'[m] = heard[m] /\ left'[m] = left[m] /\ got'[m] = got[m]
                  /\ stage'[m] = stage[m] /\ call'[m] = call[m]
                  /\ entry'[m] = entry[m]
  BY <1>2 DEF MoveTo, StillClosed, TypeOK
<1> QED
  BY <1>1, <1>2 DEF Moves

\* ... and keeps the invariant, with the keyring idle or its lookup ended.
LEMMA SessionMoves ==
  ASSUME Inv, NEW n \in Nodes, Moves(n), stage[n] # "end",
         KeyringTypeOK', blocked' = {}, wait' = 0, spinning \subseteq {n},
         \A m \in Nodes : Waiting(m)' => m = n \/ Waiting(m),
         Cardinality(ReadySet)' * KT <= wait + Cardinality(ReadySet) * KT,
         Cardinality(ReadySet)' * KT \in Nat,
         Cardinality(ReadySet) * KT \in Nat
  PROVE  TypeOK' /\ Holder' /\ Sent' /\ Taken' /\ InTime' /\ Entered'
<1> USE DEF Inv
<1>1. Onward(n) \subseteq Stages /\ Limit \in 0 .. Limit
  BY OnwardTyped, SweepAssumption
<1>2. TypeOK'
  <2>1. CASE Fail(n)
    BY <1>1, <2>1 DEF TypeOK, Fail, Caught, Stages, Entries, config
  <2>2. ASSUME NEW next \in Onward(n), MoveTo(n, next)  PROVE TypeOK'
    <3>1. next \in Stages
      BY <1>1
    <3> QED
      BY <1>1, <2>2, <3>1, SweepAssumption
         DEF TypeOK, MoveTo, StillClosed, Entries, config
  <2> QED
    BY <2>1, <2>2 DEF Moves
<1>3. Holder'
  BY Alone DEF Holder
<1>4. Taken'
  BY Alone DEF Taken, TypeOK
<1>5. Sent'
  <2>1. ASSUME NEW m \in Nodes
        PROVE  /\ heard'[m] = "part" => got'[m] = "nothing"
               /\ heard'[m] \in {"early", "late"} => got'[m] # "whole"
               /\ heard'[m] = "closed" => stage'[m] \notin {"dial", "end"}
    <3>1. CASE m = n
      BY <3>1, Alone
    <3>2. CASE m # n
      BY <3>2, Alone DEF Sent
    <3> QED
      BY <3>1, <3>2
  <2> QED
    BY <2>1 DEF Sent
<1>6. InTime'
  <2> SUFFICES ASSUME ~spun', NEW m \in Nodes, heard'[m] = "early",
                      ready'[m] = "no", Waiting(m)'
               PROVE  left'[m] > wait' + Cardinality(ReadySet)' * KT
    BY DEF InTime
  <2>1. m # n /\ ~spun
    BY Alone
  <2>2. /\ heard[m] = "early" /\ ready[m] = "no" /\ left'[m] = left[m]
        /\ Waiting(m) /\ left[m] \in Nat
    BY <2>1, Alone DEF TypeOK
  <2>3. left[m] > wait + Cardinality(ReadySet) * KT
    BY <2>1, <2>2 DEF InTime
  <2>4. wait \in Nat
    BY KeyringAssumption DEF TypeOK, KeyringTypeOK
  <2> QED
    BY <2>2, <2>3, <2>4
<1>7. Entered'
  <2>1. outcome = "none"
    BY DEF Entered, TypeOK
  <2>2. ASSUME NEW m \in Nodes, stage'[m] = "end"  PROVE entry'[m] # "none"
    BY <2>2, Alone DEF Entered
  <2> QED
    BY <2>1, <2>2, Alone DEF Entered
<1> QED
  BY <1>2, <1>3, <1>4, <1>5, <1>6, <1>7

\* Whatever a node sends.
LEMMA SendsInv ==
  ASSUME Inv, NEW n \in Nodes,
         NEW what \in {"part", "early", "late", "broken", "closed"},
         Sends(n, what),
         what = "part" => got[n] = "nothing",
         what = "early" => left[n] > Slack,
         what \in {"early", "late"} => got[n] # "whole",
         what = "closed" => stage[n] # "dial"
  PROVE  Inv'
<1> USE DEF Inv, Sends, keyring, config
<1>1. TypeOK'
  BY DEF TypeOK, KeyringTypeOK
<1>2. OwnQueue' /\ OwnSent' /\ Entered'
  BY DEF OwnQueue, OwnSent, Entered
<1>3. Holder' /\ Sent'
  BY DEF Holder, Sent, TypeOK, Waiting
<1>4. Taken'
  <2>1. Slack \in Nat /\ left[n] \in Nat
    BY SlackNat DEF TypeOK
  <2> QED
    BY <2>1 DEF Taken, TypeOK
<1>5. InTime'
  <2> SUFFICES ASSUME ~spun, NEW m \in Nodes, heard'[m] = "early",
                      ready[m] = "no", Waiting(m)
               PROVE  left[m] > wait + Cardinality(ReadySet) * KT
    BY DEF InTime, ReadySet, Waiting
  <2>1. CASE m # n
    BY <2>1 DEF InTime, TypeOK
  <2>2. CASE m = n
    <3>1. left[n] > Slack
      BY <2>2 DEF TypeOK
    <3>2. wait + Cardinality(ReadySet) * KT <= Slack
      BY <2>2, SlackSuffices
    <3>3. /\ KT \in Nat /\ wait \in Nat /\ Cardinality(ReadySet) \in Nat
          /\ Slack \in Nat /\ left[n] \in Nat
      BY ReadyFinite, KeyringAssumption, SlackNat
         DEF ReadySet, TypeOK, KeyringTypeOK
    <3>4. Cardinality(ReadySet) * KT \in Nat
      BY <3>3
    <3> QED
      BY <2>2, <3>1, <3>2, <3>3, <3>4
  <2> QED
    BY <2>1, <2>2
<1> QED
  BY <1>1, <1>2, <1>3, <1>4, <1>5

LEMMA NodeActsInv ==
  ASSUME Inv, NEW n \in Nodes, NodeActs(n)
  PROVE  Inv'
<1>1. CASE NodeBegins(n)
  BY <1>1, SendsInv DEF NodeBegins
<1>2. CASE NodeAnswers(n)
  BY <1>2, SendsInv DEF NodeAnswers
<1>3. CASE Breaks(n)
  BY <1>3, SendsInv DEF Breaks
<1>4. CASE Closes(n)
  BY <1>4, SendsInv DEF Closes
<1> QED
  BY <1>1, <1>2, <1>3, <1>4 DEF NodeActs

LEMMA PollInv ==
  ASSUME Inv, Poll
  PROVE  Inv'
<1> USE DEF Inv, Poll, LoopFree, keyring, config
<1>1. TypeOK'
  BY DEF TypeOK, KeyringTypeOK
<1>2. OwnQueue' /\ OwnSent' /\ Holder' /\ Sent' /\ Entered'
  BY DEF OwnQueue, OwnSent, Holder, Sent, Entered
<1>3. Taken'
  <2> SUFFICES ASSUME NEW n \in Nodes
               PROVE  /\ ready'[n] # "no" => stage[n] # "end"
                      /\ ready'[n] = "data" => heard[n] \in {"part", "early", "late"}
                      /\ ready'[n] = "eof" => heard[n] = "closed"
                      /\ ready'[n] = "expiry" => left[n] = 0
                      /\ ready'[n] = "expiry" /\ ~spun => heard[n] # "early"
    BY DEF Taken
  <2>1. ready'[n] # "no" => Pollable(n) /\ ready'[n] \in Found(n)
    OBVIOUS
  <2>2. ready'[n] = "expiry" => Expired(n)
    BY <2>1 DEF Found, TypeOK
  <2>3. ~spun /\ heard[n] = "early" /\ Waiting(n) => left[n] > 0
    <3>1. Cardinality(ReadySet) \in Nat /\ KT \in Nat
      BY ReadyFinite, KeyringAssumption DEF ReadySet
    <3>2. Cardinality(ReadySet) * KT \in Nat
      BY <3>1
    <3>3. wait \in Nat /\ left[n] \in Nat
      BY KeyringAssumption, SweepAssumption DEF TypeOK, KeyringTypeOK
    <3>4. ~spun /\ heard[n] = "early" /\ Waiting(n) =>
            left[n] > wait + Cardinality(ReadySet) * KT
      BY DEF InTime
    <3> QED
      BY <3>2, <3>3, <3>4
  <2>4. ready'[n] \in {"data", "eof"} =>
          /\ ready'[n] = "data" => heard[n] \in {"part", "early", "late"}
          /\ ready'[n] = "eof" => heard[n] = "closed"
    BY <2>1 DEF Found, TypeOK
  <2> QED
    BY <2>1, <2>2, <2>3, <2>4 DEF Pollable, Expired, Timed, Waiting
<1>4. InTime'
  BY DEF InTime, Waiting, Pollable, Found, Expired, TypeOK
<1> QED
  BY <1>1, <1>2, <1>3, <1>4

LEMMA GatherInv ==
  ASSUME Inv, Gather
  PROVE  Inv'
<1> USE DEF Inv, Gather, keyring, sessions, config
<1>1. TypeOK'
  BY DEF TypeOK, KeyringTypeOK
<1>2. OwnQueue' /\ OwnSent' /\ Holder' /\ Sent' /\ Taken' /\ Entered'
  BY DEF OwnQueue, OwnSent, Holder, Sent, Taken, Entered
<1>3. InTime'
  BY DEF InTime, ReadySet, Waiting
<1> QED
  BY <1>1, <1>2, <1>3

LEMMA KeychainThreadInv ==
  ASSUME Inv, NEW l \in Lookups, KeychainThread(l)
  PROVE  Inv'
<1> USE DEF Inv, KeychainThread, KeychainAnswers, QueueOf, sessions, config
<1>1. PICK found \in {{}, {l.account} \cap Stored} :
        queue' = [queue EXCEPT ![l] = <<found>>]
  OBVIOUS
<1>2. found \in {{}, {l.account}} /\ l.account \in Accounts
  BY DEF Lookups
<1>3. TypeOK'
  <2>1. <<found>> \in {<<p>> : p \in Passwords}
    BY <1>2 DEF Passwords
  <2>2. queue' \in [Lookups -> {<<>>} \cup {<<p>> : p \in Passwords}]
    BY <1>1, <2>1 DEF TypeOK, KeyringTypeOK
  <2>3. thread' \in [Lookups -> {"none", "asking", "ended"}]
    BY DEF TypeOK, KeyringTypeOK
  <2> QED
    BY <2>2, <2>3 DEF TypeOK, KeyringTypeOK
<1>4. OwnQueue'
  BY <1>1, <1>2 DEF OwnQueue, TypeOK, KeyringTypeOK
<1>5. OwnSent' /\ Holder' /\ Sent' /\ Taken' /\ Entered'
  BY DEF OwnSent, Holder, Sent, Taken, Entered
<1>6. InTime'
  BY DEF InTime, ReadySet, Waiting
<1> QED
  BY <1>3, <1>4, <1>5, <1>6

LEMMA TickInv ==
  ASSUME Inv, Tick
  PROVE  Inv'
<1> USE DEF Inv, Tick
<1>1. TypeOK'
  BY KeyringAssumption, SweepAssumption DEF TypeOK, KeyringTypeOK, config
<1>2. OwnQueue' /\ OwnSent' /\ Entered'
  BY DEF OwnQueue, OwnSent, Entered
<1>3. Holder' /\ Sent' /\ Taken'
  BY DEF Holder, Sent, Taken, TypeOK
<1>4. InTime'
  <2> SUFFICES ASSUME ~spun, NEW n \in Nodes, heard[n] = "early",
                      ready[n] = "no", Waiting(n)
               PROVE  left'[n] > wait' + Cardinality(ReadySet) * KT
    BY DEF InTime, ReadySet, Waiting
  <2>1. left[n] > wait + Cardinality(ReadySet) * KT
    BY DEF InTime
  <2>2. left[n] \in Nat /\ wait \in Nat /\ Cardinality(ReadySet) * KT \in Nat
    <3>1. Cardinality(ReadySet) \in Nat /\ KT \in Nat
      BY ReadyFinite, KeyringAssumption DEF ReadySet
    <3>2. Cardinality(ReadySet) * KT \in Nat
      BY <3>1
    <3>3. left[n] \in Nat /\ wait \in Nat
      BY KeyringAssumption, SweepAssumption DEF TypeOK, KeyringTypeOK
    <3> QED
      BY <3>2, <3>3
  <2>3. left'[n] >= left[n] - 1
    BY <2>2
  <2>4. ~(LoopFree /\ \A m \in Nodes : ~Pollable(m))
    BY DEF Pollable
  <2>5. wait > 0 /\ wait' = wait - 1
    BY <2>4 DEF Holder
  <2>6. left'[n] \in Nat
    BY <1>1 DEF TypeOK
  <2> QED
    BY <2>1, <2>2, <2>3, <2>5, <2>6
<1> QED
  BY <1>1, <1>2, <1>3, <1>4

LEMMA LookupTyped ==
  ASSUME TypeOK, NEW n \in Nodes, Asks(n)
  PROVE  LookupOf(n) \in Lookups /\ LookupOf(n).account.node = n
BY DEF LookupOf, Lookups, Accounts, Asks, TypeOK

LEMMA AskInv ==
  ASSUME Inv, NEW n \in Nodes, ready[n] # "no" \/ spun, blocked = {},
         spinning \subseteq {n}, Asks(n), Ask(n)
  PROVE  Inv'
<1> DEFINE l == LookupOf(n)
<1>1. l \in Lookups /\ l.account.node = n
  BY LookupTyped DEF Inv
<1>2. StartLookup(l)
  BY DEF Ask
<1> HIDE DEF l
<1> USE DEF Inv, StartLookup, Patience
<1>3. TypeOK'
  BY <1>1, <1>2, KeyringAssumption DEF TypeOK, KeyringTypeOK, Ask, config
<1>4. OwnQueue' /\ OwnSent'
  BY <1>1, <1>2 DEF OwnQueue, OwnSent, TypeOK, KeyringTypeOK
<1>5. Holder' /\ Sent' /\ Taken' /\ Entered'
  BY <1>1, <1>2 DEF Holder, Sent, Taken, Entered, Ask, TypeOK
<1>6. InTime'
  <2> SUFFICES ASSUME ~spun, NEW m \in Nodes, heard[m] = "early",
                      ready'[m] = "no", Waiting(m)'
               PROVE  left[m] > wait' + Cardinality(ReadySet)' * KT
    BY DEF InTime, Ask
  <2>1. m # n
    BY <1>1, <1>2 DEF Waiting
  <2>2. ready[m] = "no" /\ Waiting(m)
    BY <2>1 DEF Ask, TypeOK, Waiting
  <2>3. left[m] > wait + Cardinality(ReadySet) * KT
    BY <2>2 DEF InTime
  <2>4. /\ Cardinality(ReadySet)' * KT + KT = Cardinality(ReadySet) * KT
        /\ Cardinality(ReadySet)' * KT \in Nat
        /\ Cardinality(ReadySet) * KT \in Nat
    BY TakenUp DEF Ask
  <2>5. wait = 0 /\ wait' = KT /\ KT \in Nat /\ left[m] \in Nat
    BY <1>2, KeyringAssumption, SweepAssumption DEF Holder, TypeOK
  <2> QED
    BY <2>3, <2>4, <2>5
<1> QED
  BY <1>3, <1>4, <1>5, <1>6

\* A session that the loop runs, and that fails or goes on.
LEMMA RunMoves ==
  ASSUME Inv, NEW n \in Nodes, blocked = {}, spinning \subseteq {n},
         Moves(n), stage[n] # "end", UNCHANGED keyring
  PROVE  Inv'
<1>1. ready' = [ready EXCEPT ![n] = "no"]
  BY Alone DEF Inv
<1>2. wait = 0 /\ KT \in Nat
  BY KeyringAssumption DEF Inv, Holder
<1>3. /\ Cardinality(ReadySet)' * KT <= wait + Cardinality(ReadySet) * KT
      /\ Cardinality(ReadySet)' * KT \in Nat
      /\ Cardinality(ReadySet) * KT \in Nat
  <2>1. CASE ready[n] # "no"
    <3>1. /\ Cardinality(ReadySet)' * KT + KT = Cardinality(ReadySet) * KT
          /\ Cardinality(ReadySet)' * KT \in Nat
          /\ Cardinality(ReadySet) * KT \in Nat
      BY <1>1, <2>1, TakenUp DEF Inv
    <3> QED
      BY <1>2, <3>1
  <2>2. CASE ready[n] = "no"
    <3>1. ReadySet' = ReadySet
      BY <1>1, <2>2 DEF ReadySet, Inv, TypeOK
    <3>2. Cardinality(ReadySet) \in Nat
      BY ReadyFinite DEF ReadySet
    <3>3. Cardinality(ReadySet) * KT \in Nat
      BY <1>2, <3>2
    <3> QED
      BY <1>2, <3>1, <3>3
  <2> QED
    BY <2>1, <2>2
<1>4. KeyringTypeOK' /\ blocked' = {} /\ wait' = 0
  BY <1>2 DEF Inv, TypeOK, KeyringTypeOK, keyring
<1>5. \A m \in Nodes : Waiting(m)' => m = n \/ Waiting(m)
  BY Alone DEF Waiting, Inv
<1>6. TypeOK' /\ Holder' /\ Sent' /\ Taken' /\ InTime' /\ Entered'
  BY <1>3, <1>4, <1>5, SessionMoves
<1>7. OwnQueue' /\ OwnSent'
  BY DEF Inv, OwnQueue, OwnSent, keyring
<1> QED
  BY <1>6, <1>7 DEF Inv

\* The end of a wait is a move or a lookup.
LEMMA WaitEnds ==
  ASSUME NEW n \in Nodes, EndWait(n)
  PROVE  /\ stage[n] # "end"
         /\ \/ Moves(n) /\ UNCHANGED keyring
            \/ Asks(n) /\ Ask(n)
<1>1. CASE Fail(n) /\ UNCHANGED keyring
  BY <1>1 DEF EndWait, Moves
<1>2. CASE Asks(n) /\ Ask(n)
  BY <1>2 DEF Asks
<1>3. CASE stage[n] = "sys" /\ MoveTo(n, "reply") /\ UNCHANGED keyring
  BY <1>3 DEF Moves, Onward
<1>4. CASE stage[n] \in {"drain", "verdict", "reply"} /\ Advance(n) /\ UNCHANGED keyring
  BY <1>4 DEF Moves, Onward, Advance
<1> QED
  BY <1>1, <1>2, <1>3, <1>4 DEF EndWait, Asks

\* What the loop does with a session, its end of a wait apart.
LEMMA ResumeCases ==
  ASSUME Inv, NEW n \in Nodes, Resume(n)
  PROVE  /\ blocked = {} /\ spinning = {} /\ ready[n] # "no" /\ stage[n] # "end"
         /\ \/ Moves(n) /\ UNCHANGED keyring
            \/ Asks(n) /\ Ask(n)
            \/ ready[n] = "eof" /\ Spin(n) /\ UNCHANGED keyring
            \/ ready[n] = "data" /\ Collect(n) /\ UNCHANGED keyring
<1>1. blocked = {} /\ spinning = {} /\ ready[n] # "no"
  BY DEF Resume
<1>2. stage[n] # "end"
  BY <1>1 DEF Inv, Taken
<1>3. CASE ready[n] = "expiry" /\ EndWait(n)
  BY <1>1, <1>2, <1>3, WaitEnds
<1>4. CASE ready[n] = "data" /\ stage[n] = "dial" /\ Advance(n) /\ UNCHANGED keyring
  BY <1>1, <1>2, <1>4 DEF Moves, Onward, Advance
<1>5. CASE ready[n] = "data" /\ stage[n] = "user" /\ Ask(n)
  BY <1>1, <1>2, <1>5 DEF Asks
<1>6. CASE ready[n] = "error" /\ Fail(n) /\ UNCHANGED keyring
  BY <1>1, <1>2, <1>6 DEF Moves
<1> QED
  BY <1>1, <1>2, <1>3, <1>4, <1>5, <1>6 DEF Resume

LEMMA SpinInv ==
  ASSUME Inv, NEW n \in Nodes, blocked = {}, ready[n] = "eof", Spin(n),
         UNCHANGED keyring
  PROVE  Inv'
<1> USE DEF Inv, Spin, keyring, config
<1>1. TypeOK'
  BY DEF TypeOK, KeyringTypeOK
<1>2. OwnQueue' /\ OwnSent' /\ InTime' /\ Entered'
  BY DEF OwnQueue, OwnSent, InTime, Entered
<1>3. Holder' /\ Sent' /\ Taken'
  BY DEF Holder, Sent, Taken, TypeOK
<1> QED
  BY <1>1, <1>2, <1>3

LEMMA CollectInv ==
  ASSUME Inv, NEW n \in Nodes, blocked = {}, spinning = {}, ready[n] = "data",
         Collect(n), UNCHANGED keyring
  PROVE  Inv'
<1> USE DEF Inv, Collect, keyring, config
<1>1. TypeOK'
  <2>1. Idle \in 0 .. Limit /\ left[n] \in 0 .. Limit
    BY SweepAssumption DEF TypeOK
  <2>2. left' \in [Nodes -> 0 .. Limit]
    BY <2>1 DEF TypeOK
  <2> QED
    BY <2>2 DEF TypeOK, KeyringTypeOK
<1>2. OwnQueue' /\ OwnSent' /\ Entered'
  BY DEF OwnQueue, OwnSent, Entered
<1>3. Holder' /\ Sent' /\ Taken'
  BY DEF Holder, Sent, Taken, TypeOK
<1>4. InTime'
  <2> SUFFICES ASSUME ~spun, NEW m \in Nodes, heard'[m] = "early",
                      ready'[m] = "no", Waiting(m)'
               PROVE  left'[m] > wait' + Cardinality(ReadySet)' * KT
    BY DEF InTime
  <2>1. /\ m # n /\ heard[m] = "early" /\ ready[m] = "no" /\ Waiting(m)
        /\ left'[m] = left[m] /\ left[m] \in Nat
    BY DEF TypeOK, Waiting
  <2>2. left[m] > wait + Cardinality(ReadySet) * KT
    BY <2>1 DEF InTime
  <2>3. /\ Cardinality(ReadySet)' * KT + KT = Cardinality(ReadySet) * KT
        /\ Cardinality(ReadySet)' * KT \in Nat
        /\ Cardinality(ReadySet) * KT \in Nat
    BY TakenUp
  <2>4. wait = 0 /\ wait' = 0 /\ KT \in Nat
    BY KeyringAssumption DEF Holder
  <2> QED
    BY <2>1, <2>2, <2>3, <2>4
<1> QED
  BY <1>1, <1>2, <1>3, <1>4

LEMMA ResumeInv ==
  ASSUME Inv, NEW n \in Nodes, Resume(n)
  PROVE  Inv'
<1>1. blocked = {} /\ spinning = {} /\ ready[n] # "no" /\ stage[n] # "end"
  BY ResumeCases
<1>2. CASE Moves(n) /\ UNCHANGED keyring
  BY <1>1, <1>2, RunMoves
<1>3. CASE Asks(n) /\ Ask(n)
  BY <1>1, <1>3, AskInv
<1>4. CASE ready[n] = "eof" /\ Spin(n) /\ UNCHANGED keyring
  BY <1>1, <1>4, SpinInv
<1>5. CASE ready[n] = "data" /\ Collect(n) /\ UNCHANGED keyring
  BY <1>1, <1>5, CollectInv
<1> QED
  BY <1>2, <1>3, <1>4, <1>5, ResumeCases

LEMMA StopSpinInv ==
  ASSUME Inv, NEW n \in Nodes, StopSpin(n)
  PROVE  Inv'
<1>1. spinning \subseteq {n} /\ spun /\ blocked = {}
  BY DEF StopSpin, Inv, TypeOK, Holder
<1>2. /\ stage[n] # "end"
      /\ \/ Moves(n) /\ UNCHANGED keyring
         \/ Asks(n) /\ Ask(n)
  BY WaitEnds DEF StopSpin
<1>3. CASE Moves(n) /\ UNCHANGED keyring
  BY <1>1, <1>2, <1>3, RunMoves
<1>4. CASE Asks(n) /\ Ask(n)
  BY <1>1, <1>4, AskInv
<1> QED
  BY <1>2, <1>3, <1>4

\* "sys" goes on to the verdict.
LEMMA AnswerMoves ==
  ASSUME NEW n \in Nodes, Answer(n)
  PROVE  Moves(n)
<1>1. Following(n) \in Onward(n)
  BY DEF Onward, Following
<1> QED
  BY <1>1 DEF Answer, Advance, Moves

LEMMA AnswerInv ==
  ASSUME Inv, NEW n \in Nodes, Answer(n)
  PROVE  Inv'
<1> DEFINE l == LookupOf(n)
<1>1. l \in Lookups /\ l.account.node = n /\ EndLookup(l)
  BY LookupTyped DEF Inv, Answer
<1>2. Moves(n)
  BY AnswerMoves
<1>3. ready[n] = "no" /\ stage[n] # "end" /\ spinning = {}
  BY <1>1 DEF EndLookup, Inv, Holder, Answer, Asks
<1> HIDE DEF l
<1>4. Password(l) \subseteq {l.account}
  <2>1. queue[l] \in {<<>>, <<{}>>, <<{l.account}>>}
    BY <1>1 DEF Inv, OwnQueue
  <2>2. queue[l] # <<>> => Head(queue[l]) \in {{}, {l.account}}
    BY <2>1
  <2> QED
    BY <2>2 DEF Password, Answered, QueueOf
<1>5. l.account \in Accounts
  BY <1>1 DEF Lookups
<1>6. OwnSent' /\ sent' \subseteq Lookups \X Accounts
  BY <1>1, <1>4, <1>5 DEF EndLookup, Inv, OwnSent, TypeOK, KeyringTypeOK
<1>7. queue' = [queue EXCEPT ![l] = <<>>]
  BY <1>1 DEF EndLookup, QueueOf
<1>8. OwnQueue'
  BY <1>1, <1>7 DEF EndLookup, Inv, OwnQueue, TypeOK, KeyringTypeOK
<1>9. KeyringTypeOK' /\ blocked' = {} /\ wait' = 0
  <2>1. queue' \in [Lookups -> {<<>>} \cup {<<p>> : p \in Passwords}]
    BY <1>7 DEF Inv, TypeOK, KeyringTypeOK
  <2>2. blocked' = {} /\ wait' = 0 /\ thread' = thread
    BY <1>1 DEF EndLookup
  <2>3. thread' \in [Lookups -> {"none", "asking", "ended"}]
    BY <2>2 DEF Inv, TypeOK, KeyringTypeOK
  <2>4. wait' \in 0 .. KT
    BY <2>2, KeyringAssumption
  <2> QED
    BY <1>6, <2>1, <2>2, <2>3, <2>4 DEF KeyringTypeOK
<1>10. \A m \in Nodes : Waiting(m)' => m = n \/ Waiting(m)
  BY <1>1, <1>2, Alone DEF Waiting, EndLookup, Inv, TypeOK, KeyringTypeOK
<1>11. ready' = ready
  BY <1>2, <1>3, Alone DEF Inv, TypeOK
<1>12. ReadySet' = ReadySet
  BY <1>11 DEF ReadySet
<1>13. Cardinality(ReadySet) \in Nat /\ KT \in Nat /\ wait \in Nat
  BY ReadyFinite, KeyringAssumption DEF ReadySet, Inv, TypeOK, KeyringTypeOK
<1>14. Cardinality(ReadySet) * KT \in Nat
  BY <1>13
<1>15. /\ Cardinality(ReadySet)' * KT <= wait + Cardinality(ReadySet) * KT
       /\ Cardinality(ReadySet)' * KT \in Nat
  BY <1>12, <1>13, <1>14
<1>16. TypeOK' /\ Holder' /\ Sent' /\ Taken' /\ InTime' /\ Entered'
  BY <1>2, <1>3, <1>9, <1>10, <1>14, <1>15, SessionMoves
<1> QED
  BY <1>6, <1>8, <1>16 DEF Inv

LEMMA NextInv == Inv /\ [Next]_vars => Inv'
<1> SUFFICES ASSUME Inv, [Next]_vars PROVE Inv'
  OBVIOUS
<1>1. CASE Poll
  BY <1>1, PollInv
<1>2. CASE Gather
  BY <1>2, GatherInv
<1>3. CASE \E n \in Nodes : Resume(n) \/ StopSpin(n) \/ Answer(n)
  BY <1>3, ResumeInv, StopSpinInv, AnswerInv
<1>4. CASE Tick
  BY <1>4, TickInv
<1>5. CASE \E n \in Nodes : NodeActs(n)
  BY <1>5, NodeActsInv
<1>6. CASE \E l \in Lookups : KeychainThread(l)
  BY <1>6, KeychainThreadInv
<1>7. CASE UNCHANGED vars
  <2> USE <1>7 DEF vars, keyring, sessions, config, Inv
  <2>1. TypeOK' /\ OwnQueue' /\ OwnSent' /\ Holder' /\ Sent' /\ Taken' /\ Entered'
    BY DEF TypeOK, KeyringTypeOK, OwnQueue, OwnSent, Holder, Sent, Taken, Entered
  <2>2. InTime'
    BY DEF InTime, ReadySet, Waiting
  <2> QED
    BY <2>1, <2>2
<1> QED
  BY <1>1, <1>2, <1>3, <1>4, <1>5, <1>6, <1>7 DEF Next, Loop, Returned

LEMMA Invariance == Spec => []Inv
BY InitInv, NextInv, PTL DEF Spec

-----------------------------------------------------------------------------
(* The results.                                                              *)
\* _keyring_get_with_timeout: threads, queues and sessions keep their form.
THEOREM Typed == Spec => []TypeOK
<1>1. Inv => TypeOK
  BY DEF Inv
<1> QED
  BY <1>1, Invariance, PTL

\* credentials.py:60: the queue made by each call keeps a late answer away from
\* every other lookup, for any set of accounts.
THEOREM PasswordsStay == Spec => []OwnPassword
<1>1. Inv => OwnPassword
  BY DEF Inv, OwnQueue, OwnSent, OwnPassword, QueueOf
<1> QED
  BY <1>1, Invariance, PTL

\* credentials.py:73: get_password holds the loop, yet for any number of nodes an
\* answer that comes with more than (N - 1) * KT left to the end of its read, be
\* that its deadline or the silence after a piece of it, is not lost to that end,
\* as long as no closed stream has held the loop.
THEOREM NoneBlamed == Spec => []Blameless
<1>1. Inv => Blameless
  BY DEF Inv, Taken, Blameless
<1> QED
  BY <1>1, Invariance, PTL

\* server.py:1595: the sweep returns with every node's entry and no session open.
THEOREM Whole == Spec => []AnswerWhole
<1>1. Inv => AnswerWhole
  BY DEF Inv, Entered, AnswerWhole
<1> QED
  BY <1>1, Invariance, PTL

-----------------------------------------------------------------------------
(* A sweep comes to its end.  First the stations its sessions have still      *)
(* before them, a lookup counting as one, then what they have to read, what   *)
(* they wait for, the closed streams, what the loop may take up, the time     *)
(* left, and the keychain's threads.                                          *)
Held(n) == \E l \in blocked : l.account.node = n

ToGo(n) ==
  (CASE stage[n] = "end"   -> 0
     [] stage[n] = "reply" -> 2
     [] stage[n] = "verdict" -> 3
     [] stage[n] = "sys"   -> IF Held(n) THEN 4 ELSE 5
     [] stage[n] = "drain" -> 6
     [] stage[n] = "user"  -> IF Held(n) THEN 7 ELSE 8
     [] OTHER              -> 9)
  + IF call[n] = 1 /\ stage[n] # "end" THEN 9 ELSE 0

\* The pieces of its wait that a session still has to read.
Due(n) ==
  CASE got[n] = "nothing" -> 2
    [] got[n] = "part"    -> 1
    [] OTHER              -> 0

Silent  == {n \in Nodes : heard[n] = "no"}
Open    == {n \in Nodes : n \notin spinning}
Unread  == {n \in Nodes : ready[n] = "no"}
Asking  == {l \in Lookups : thread[l] = "asking"}

LessTime ==
  /\ wait' <= wait /\ \A n \in Nodes : left'[n] <= left[n]
  /\ wait' < wait \/ \E n \in Nodes : left'[n] < left[n]

Smaller(S, T) == S \subseteq T /\ S # T

Nearer ==
  \/ outcome = "none" /\ outcome' # "none"
  \/ /\ outcome' = outcome
     /\ \A n \in Nodes : ToGo(n)' <= ToGo(n)
     /\ \E n \in Nodes : ToGo(n)' < ToGo(n)
  \/ /\ outcome' = outcome
     /\ \A n \in Nodes : ToGo(n)' = ToGo(n)
     /\ \/ /\ \A n \in Nodes : Due(n)' <= Due(n)
           /\ \E n \in Nodes : Due(n)' < Due(n)
        \/ /\ \A n \in Nodes : Due(n)' = Due(n)
           /\ \/ Smaller(Silent', Silent)
              \/ Silent' = Silent /\ Smaller(Open', Open)
              \/ Silent' = Silent /\ Open' = Open /\ Smaller(Unread', Unread)
              \/ /\ Silent' = Silent /\ Open' = Open /\ Unread' = Unread
                 /\ LessTime
              \/ /\ Silent' = Silent /\ Open' = Open /\ Unread' = Unread
                 /\ wait' = wait /\ left' = left
                 /\ Smaller(Asking', Asking)

\* A session that goes on or ends leaves a station behind.
LEMMA MovedNearer ==
  ASSUME Inv, NEW n \in Nodes, Moves(n), stage[n] # "end",
         blocked' = {}, \A l \in blocked : l.account.node = n
  PROVE  ToGo(n)' < ToGo(n) /\ \A m \in Nodes : ToGo(m)' <= ToGo(m)
<1>1. \A m \in Nodes : ~Held(m)'
  BY DEF Held
<1>2. ASSUME NEW m \in Nodes, m # n  PROVE ToGo(m)' = ToGo(m)
  <2>1. ~Held(m)
    BY <1>2 DEF Held
  <2>2. stage'[m] = stage[m] /\ call'[m] = call[m]
    BY <1>2, Alone DEF Inv
  <2> QED
    BY <1>1, <2>1, <2>2 DEF ToGo
<1>3. ToGo(n)' < ToGo(n)
  <2>1. stage[n] \in Stages \ {"end"} /\ call[n] \in {1, 2}
    BY SweepAssumption DEF Inv, TypeOK
  <2>2. CASE Fail(n)
    <3>1. stage'[n] = "end"
      BY <2>2 DEF Fail, Inv, TypeOK
    <3> QED
      BY <2>1, <3>1 DEF ToGo, Stages
  <2>3. ASSUME NEW next \in Onward(n), MoveTo(n, next)  PROVE ToGo(n)' < ToGo(n)
    <3>1. stage'[n] = next /\ call'[n] = IF next = "dial" THEN 2 ELSE call[n]
      BY <2>3 DEF MoveTo, Inv, TypeOK
    <3>2. next = "dial" => stage[n] = "reply" /\ call[n] = 1
      BY <2>1 DEF Onward, Following, Sessions, Stages
    <3>3. /\ stage[n] = "dial" => next \in {"user", "drain"}
          /\ stage[n] = "user" => next = "drain"
          /\ stage[n] = "drain" => next \in {"sys", "reply"}
          /\ stage[n] = "sys" => next \in {"verdict", "reply"}
          /\ stage[n] = "verdict" => next = "reply"
          /\ stage[n] = "reply" => next \in {"dial", "end"}
      BY <2>1 DEF Onward, Following, Stages
    <3> QED
      BY <1>1, <2>1, <3>1, <3>2, <3>3 DEF ToGo, Stages
  <2> QED
    BY <2>2, <2>3 DEF Moves
<1>4. ToGo(n) \in Nat /\ ToGo(n)' \in Nat /\ \A m \in Nodes : ToGo(m) \in Nat
  BY DEF ToGo
<1>5. ASSUME NEW m \in Nodes  PROVE ToGo(m)' <= ToGo(m)
  BY <1>2, <1>3, <1>4, <1>5
<1> QED
  BY <1>3, <1>5

\* What the loop runs while nobody holds it, or while n does.
LEMMA RunNearer ==
  ASSUME Inv, NEW n \in Nodes, blocked = {}, stage[n] # "end",
         \/ Moves(n) /\ UNCHANGED keyring
         \/ Asks(n) /\ Ask(n)
  PROVE  Nearer
<1>1. \A m \in Nodes : ~Held(m)
  BY DEF Held
<1>2. CASE Moves(n) /\ UNCHANGED keyring
  <2>1. blocked' = {}
    BY <1>2 DEF keyring
  <2>2. ToGo(n)' < ToGo(n) /\ \A m \in Nodes : ToGo(m)' <= ToGo(m)
    BY <1>2, <2>1, MovedNearer
  <2>3. outcome' = outcome
    BY <1>2, Alone DEF Inv
  <2> QED
    BY <2>2, <2>3 DEF Nearer
<1>3. CASE Asks(n) /\ Ask(n)
  <2>1. LookupOf(n).account.node = n
    BY <1>3, LookupTyped DEF Inv
  <2>2. blocked' = {LookupOf(n)} /\ UNCHANGED <<stage, call, outcome>>
    BY <1>3 DEF Ask, StartLookup
  <2>3. \A m \in Nodes : Held(m)' <=> m = n
    BY <2>1, <2>2 DEF Held
  <2>4. stage[n] \in {"user", "sys"}
    BY <1>3 DEF Asks
  <2>5. ToGo(n)' = ToGo(n) - 1 /\ ToGo(n) \in Nat
    BY <1>1, <2>2, <2>3, <2>4 DEF ToGo
  <2>6. \A m \in Nodes : ToGo(m) \in Nat /\ (m # n => ToGo(m)' = ToGo(m))
    BY <1>1, <2>2, <2>3 DEF ToGo
  <2>7. \A m \in Nodes : ToGo(m)' <= ToGo(m)
    BY <2>5, <2>6
  <2>8. ToGo(n)' < ToGo(n)
    BY <2>5
  <2> QED
    BY <2>2, <2>7, <2>8 DEF Nearer
<1> QED
  BY <1>2, <1>3

LEMMA CollectNearer ==
  ASSUME Inv, NEW n \in Nodes, ready[n] = "data", Collect(n), UNCHANGED keyring
  PROVE  Nearer
<1>1. outcome' = outcome /\ \A m \in Nodes : ToGo(m)' = ToGo(m)
  BY DEF Collect, keyring, ToGo, Held
<1>2. ASSUME NEW m \in Nodes, m # n  PROVE Due(m)' = Due(m)
  BY <1>2 DEF Collect, Due, Inv, TypeOK
<1>3. Due(n)' < Due(n)
  <2>1. heard[n] \in {"part", "early", "late"}
    BY DEF Inv, Taken
  <2>2. got'[n] = IF heard[n] = "part" THEN "part" ELSE "whole"
    BY DEF Collect, Inv, TypeOK
  <2>3. /\ heard[n] = "part" => got[n] = "nothing"
        /\ heard[n] # "part" => got[n] \in {"nothing", "part"}
    BY <2>1 DEF Inv, Sent, TypeOK
  <2> QED
    BY <2>2, <2>3 DEF Due
<1>4. \A m \in Nodes : Due(m) \in Nat /\ Due(m)' \in Nat
  BY DEF Due
<1>5. ASSUME NEW m \in Nodes  PROVE Due(m)' <= Due(m)
  BY <1>2, <1>3, <1>4, <1>5
<1> QED
  BY <1>1, <1>3, <1>5 DEF Nearer

LEMMA SpinNearer ==
  ASSUME Inv, NEW n \in Nodes, spinning = {}, Spin(n), UNCHANGED keyring
  PROVE  Nearer
<1>1. outcome' = outcome /\ \A m \in Nodes : ToGo(m)' = ToGo(m) /\ Due(m)' = Due(m)
  BY DEF Spin, keyring, ToGo, Held, Due
<1>2. Silent' = Silent /\ n \in Open /\ n \notin Open' /\ Open' \subseteq Open
  BY DEF Spin, Silent, Open
<1> QED
  BY <1>1, <1>2 DEF Nearer, Smaller

LEMMA ResumeNearer ==
  ASSUME Inv, NEW n \in Nodes, Resume(n)
  PROVE  Nearer
BY ResumeCases, RunNearer, CollectNearer, SpinNearer

LEMMA StopSpinNearer ==
  ASSUME Inv, NEW n \in Nodes, StopSpin(n)
  PROVE  Nearer
<1>1. blocked = {}
  BY DEF StopSpin, Inv, Holder
<1> QED
  BY <1>1, WaitEnds, RunNearer DEF StopSpin

LEMMA AnswerNearer ==
  ASSUME Inv, NEW n \in Nodes, Answer(n)
  PROVE  Nearer
<1>1. LookupOf(n) \in blocked /\ blocked' = {} /\ LookupOf(n).account.node = n
  BY LookupTyped DEF Answer, EndLookup, Inv
<1>2. \A l \in blocked : l.account.node = n
  BY <1>1 DEF Inv, TypeOK, KeyringTypeOK
<1>3. Moves(n) /\ stage[n] # "end"
  BY AnswerMoves DEF Answer, Asks
<1>4. outcome' = outcome
  BY <1>3, Alone DEF Inv
<1> QED
  BY <1>1, <1>2, <1>3, <1>4, MovedNearer DEF Nearer

\* Between two stations: an answer, an iteration of the loop, a moment, a thread.
LEMMA BetweenNearer ==
  ASSUME Inv,
         \/ Poll \/ Tick \/ \E n \in Nodes : NodeActs(n)
         \/ \E l \in Lookups : KeychainThread(l)
  PROVE  Nearer
<1> USE DEF NodeActs, NodeBegins, NodeAnswers, Breaks, Closes, Sends
<1>1. \A n \in Nodes : ToGo(n)' = ToGo(n) /\ Due(n)' = Due(n)
  BY DEF ToGo, Held, Due, Poll, Tick, KeychainThread, KeychainAnswers,
         keyring, sessions
<1>2. outcome' = outcome
  BY DEF Poll, Tick, KeychainThread
<1>3. CASE \E n \in Nodes : NodeActs(n)
  <2>1. PICK n \in Nodes : NodeActs(n)
    BY <1>3
  <2>2. n \in Silent /\ n \notin Silent' /\ Silent' \subseteq Silent
    BY <2>1 DEF Silent, Inv, TypeOK
  <2> QED
    BY <1>1, <1>2, <2>2 DEF Nearer, Smaller
<1>4. CASE Poll
  <2>1. PICK n \in Nodes : Pollable(n)
    BY <1>4 DEF Poll
  <2>2. n \in Unread /\ Unread = Nodes /\ Silent' = Silent /\ Open' = Open
    BY <1>4 DEF Poll, LoopFree, Unread, Silent, Open
  <2>3. n \notin Unread'
    BY <1>4, <2>1 DEF Poll, Found, Unread
  <2>4. Unread' \subseteq Nodes
    BY DEF Unread
  <2> QED
    BY <1>1, <1>2, <2>2, <2>3, <2>4 DEF Nearer, Smaller
<1>5. CASE Tick
  <2>1. Silent' = Silent /\ Open' = Open /\ Unread' = Unread
    BY <1>5 DEF Tick, Silent, Open, Unread
  <2>2. wait \in Nat /\ \A n \in Nodes : left[n] \in Nat
    BY KeyringAssumption, SweepAssumption DEF Inv, TypeOK, KeyringTypeOK
  <2>3. \A n \in Nodes :
          left'[n] = IF Timed(n) /\ left[n] > 0 THEN left[n] - 1 ELSE left[n]
    BY <1>5 DEF Tick
  <2>4. \A n \in Nodes : left'[n] <= left[n]
    BY <2>2, <2>3
  <2>5. CASE wait > 0 /\ wait' = wait - 1
    BY <1>1, <1>2, <2>1, <2>2, <2>4, <2>5 DEF Nearer, LessTime
  <2>6. CASE /\ \A n \in Nodes : ~Pollable(n)
             /\ \E n \in Nodes : Timed(n)
             /\ wait' = wait
    <3>1. PICK n \in Nodes : Timed(n) /\ ~Pollable(n)
      BY <2>6
    <3>2. left[n] > 0
      BY <2>2, <3>1 DEF Pollable, Expired, Timed
    <3>3. left'[n] < left[n]
      BY <2>2, <2>3, <3>1, <3>2
    <3> QED
      BY <1>1, <1>2, <2>1, <2>2, <2>4, <2>6, <3>3 DEF Nearer, LessTime
  <2>7. CASE (\E n \in spinning : left[n] > 0) /\ wait' = wait
    <3>1. PICK n \in spinning : left[n] > 0
      BY <2>7
    <3>2. n \in Nodes /\ Timed(n)
      BY <3>1 DEF Inv, TypeOK, Holder, Sent, Timed, Waiting
    <3>3. left'[n] < left[n]
      BY <2>2, <2>3, <3>1, <3>2
    <3> QED
      BY <1>1, <1>2, <2>1, <2>2, <2>4, <2>7, <3>2, <3>3 DEF Nearer, LessTime
  <2> QED
    BY <1>5, <2>5, <2>6, <2>7 DEF Tick
<1>6. CASE \E l \in Lookups : KeychainThread(l)
  <2>1. PICK l \in Lookups : KeychainThread(l)
    BY <1>6
  <2>2. /\ Silent' = Silent /\ Open' = Open /\ Unread' = Unread
        /\ wait' = wait /\ left' = left
    BY <2>1 DEF KeychainThread, KeychainAnswers, sessions, Silent, Open, Unread
  <2>3. l \in Asking /\ l \notin Asking' /\ Asking' \subseteq Asking
    BY <2>1 DEF KeychainThread, KeychainAnswers, Asking, Inv, TypeOK, KeyringTypeOK
  <2> QED
    BY <1>1, <1>2, <2>2, <2>3 DEF Nearer, Smaller
<1> QED
  BY <1>3, <1>4, <1>5, <1>6

\* For any number of nodes and whatever the keychain does, every step brings the
\* sweep nearer to its answer: a session waits at each of its stations once, a
\* password is looked up once in each, a wait reads at most two pieces and spins
\* at most once, and between them nothing is repeated.
THEOREM NoCircle ==
  Spec => /\ [](wait \in Nat /\ \A n \in Nodes : ToGo(n) \in Nat /\ left[n] \in Nat)
          /\ [](\A n \in Nodes : Due(n) \in Nat)
          /\ [][Nearer]_vars
<1>0. Inv => \A n \in Nodes : Due(n) \in Nat
  BY DEF Due
<1>1. Inv => wait \in Nat /\ \A n \in Nodes : ToGo(n) \in Nat /\ left[n] \in Nat
  <2>1. \A n \in Nodes : ToGo(n) \in Nat
    BY DEF ToGo
  <2> QED
    BY <2>1, KeyringAssumption, SweepAssumption DEF Inv, TypeOK, KeyringTypeOK
<1>2. ASSUME Inv, [Next]_vars  PROVE [Nearer]_vars
  <2>1. CASE Gather
    BY <2>1 DEF Gather, Nearer
  <2>2. CASE \E n \in Nodes : Resume(n) \/ StopSpin(n) \/ Answer(n)
    BY <1>2, <2>2, ResumeNearer, StopSpinNearer, AnswerNearer
  <2>3. CASE Returned \/ UNCHANGED vars
    BY <2>3 DEF Returned
  <2> QED
    BY <1>2, <2>1, <2>2, <2>3, BetweenNearer DEF Next, Loop
<1> QED
  BY <1>0, <1>1, <1>2, Invariance, PTL DEF Spec
=============================================================================
