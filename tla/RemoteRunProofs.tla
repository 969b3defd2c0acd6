-------------------------- MODULE RemoteRunProofs --------------------------
(* For every set of nodes and tables and every number of attempts, remote_run *)
(* discovers the routes RoutePlan promises, keeps the promise of ToolCall,    *)
(* holds one session at a time, takes the routes in their order and comes to  *)
(* its end.                                                                   *)
EXTENDS RemoteRun, DiscoveryProofs

(***************************************************************************)
(* The routes                                                              *)
(***************************************************************************)
\* The steps of the tool leave what was discovered alone.
LEMMA StepDiscovers == [Next]_vars => Discover \/ UNCHANGED discovery
BY DEF Next, Tool, Returned, Gate, DiscoverRoutes, TakeRoutes, Connect, Drop, GiveUp,
       Run, Close, vars

THEOREM Discovered == Spec => []DInv
<1>1. Init => DInv
  BY InitDInv DEF Init
<1>2. DInv /\ [Next]_vars => DInv'
  BY StepDiscovers, DiscoverKeepsDInv, DiscoveryStutters
<1> QED
  BY <1>1, <1>2, PTL DEF Spec

\* RoutePlan: for every number of nodes and whatever they answer, in whatever
\* order, the routes handed to the tool are those the tables determine: one for
\* each node that reaches the target, its best, the best first, ties in the
\* order of nodes.yaml.
THEOREM RoutesAsPromised == Spec => KeepsPlan
<1>1. Init => Promise!Init
  BY StartsPlan DEF Init
<1>2. DInv /\ [Next]_vars => Promise!Answer \/ UNCHANGED <<target, tables, Planned>>
  BY StepDiscovers, PlansSteps
<1>3. DInv /\ [Next]_vars => [Promise!Answer]_<<target, tables, Planned>>
  BY <1>2
<1> QED
  BY <1>1, <1>3, Discovered, PTL DEF Spec, KeepsPlan, Promise!Safe, Planned, Routes

(***************************************************************************)
(* The ranked list                                                         *)
(***************************************************************************)
IsList(s) == Len(s) \in Nat /\ DOMAIN s = 1 .. Len(s)

(***************************************************************************)
(* The invariant                                                           *)
(***************************************************************************)
Vias == {ranked[i].via : i \in 1 .. Len(ranked)}

\* The routes before the n-th have been tried, in vain.
Tried(n) == \A i \in 1 .. n : /\ i \in DOMAIN attempts
                              /\ attempts[i] = [via |-> ranked[i].via, ok |-> FALSE]

Typed ==
  /\ IsList(ranked)
  /\ phase \in Phases
  /\ outcome \in Outcomes
  /\ request \in [dangerous : BOOLEAN, confirm : BOOLEAN]
  /\ turn \in Nat \ {0}
  /\ attempts \in Seq([via : Vias, ok : BOOLEAN])

\* A session is held only to try a candidate, to probe along it or to give it
\* up, and it is that candidate's.
Held ==
  /\ phase \in {"gate", "discover", "connect"} => holding = {}
  /\ holding # {} => holding = {Candidate}
  /\ phase = "done" /\ outcome # "escaped" => holding = {}

\* The command is approved before anything is opened, and has been executed
\* only when the tool is about to close.
Ordered ==
  /\ phase \notin {"gate", "done"} => ~NeedsApproval(request)
  /\ phase \in {"gate", "discover", "connect", "drop", "probe"} =>
       runs = <<>> /\ outcome = "none"
  /\ phase = "close" => outcome \in {"output", "raised"}
  /\ phase # "done" => outcome # "escaped"
  /\ phase = "done" => outcome # "none"

\* The attempts are those of the routes in their order.
InTurn ==
  /\ phase \in {"gate", "discover"} => turn = 1 /\ attempts = <<>>
  /\ phase \in {"drop", "probe", "close"} => turn <= LastTurn
  /\ phase \in {"connect", "probe"} => Len(attempts) = turn - 1
  /\ phase = "drop" => Len(attempts) = turn
  /\ phase \in {"connect", "probe", "close"} => Tried(turn - 1)
  /\ phase = "drop" => Tried(turn)

RInv == Typed /\ Held /\ Ordered /\ InTurn /\ BestFirst

(***************************************************************************)
(* It holds initially                                                      *)
(***************************************************************************)
LEMMA InitRInv == Init => RInv
<1> SUFFICES ASSUME Init PROVE RInv  OBVIOUS
<1>1. IsList(ranked)  BY DEF Init, DiscoveryInit, IsList
<1>2. Typed  BY <1>1 DEF Init, Typed, Phases, Outcomes
<1>3. Held /\ Ordered  BY DEF Init, Held, Ordered
<1>4. InTurn  BY DEF Init, InTurn
<1>5. BestFirst  BY DEF Init, BestFirst
<1> QED  BY <1>2, <1>3, <1>4, <1>5 DEF RInv

(***************************************************************************)
(* Every step keeps it                                                     *)
(***************************************************************************)
LEMMA TurnBound ==
  ASSUME IsList(ranked)
  PROVE  /\ LastTurn \in Nat
         /\ LastTurn <= Len(ranked) /\ LastTurn <= MaxAttempts
         /\ \A i \in DOMAIN ranked : i <= MaxAttempts => i <= LastTurn
BY RemoteRunAssumption DEF IsList, LastTurn, Lesser

\* A candidate that is to be tried has a route in the list.
LEMMA CandidateVia ==
  ASSUME Typed, turn <= LastTurn
  PROVE  Candidate \in Vias
<1>1. turn \in 1 .. Len(ranked)  BY TurnBound DEF Typed, IsList
<1> QED  BY <1>1 DEF Candidate, Vias

\* The steps of discovery leave the tool alone; the list is sorted in one.
LEMMA DiscoverKeeps ==
  ASSUME DInv, RInv, DiscoverRoutes
  PROVE  RInv'
<1> USE DEF DiscoverRoutes, remote
<1>1. IsList(ranked')  BY DiscoverKeepsDInv DEF DInv, Listing, IsList
<1>2. Typed'
  <2>1. attempts' = <<>>  BY DEF RInv, InTurn
  <2> QED  BY <1>1, <2>1 DEF RInv, Typed
<1>3. Held'  BY DEF RInv, Held
<1>4. Ordered'  BY DEF RInv, Ordered
<1>5. InTurn'  BY DEF RInv, InTurn
<1>6. BestFirst'  BY DEF RInv, Ordered, BestFirst
<1> QED  BY <1>2, <1>3, <1>4, <1>5, <1>6 DEF RInv

\* Before a candidate is tried.
LEMMA SetOutKeeps ==
  ASSUME RInv, Gate \/ TakeRoutes
  PROVE  RInv'
<1> USE DEF Gate, TakeRoutes, discovery
<1>1. Typed'
  <2>1. UNCHANGED <<ranked, request, turn, attempts>> /\ Vias' = Vias  BY DEF Vias
  <2>2. phase' \in Phases /\ outcome' \in Outcomes
    BY DEF RInv, Typed, Phases, Outcomes
  <2> QED  BY <2>1, <2>2 DEF RInv, Typed, IsList
<1>2. Held'  BY DEF RInv, Held, Candidate
<1>3. Ordered'  BY DEF RInv, Ordered, NeedsApproval
<1>4. InTurn'  BY DEF RInv, InTurn, Tried
<1>5. BestFirst'  BY DEF RInv, Ordered, BestFirst
<1> QED  BY <1>1, <1>2, <1>3, <1>4, <1>5 DEF RInv

LEMMA ConnectKeeps ==
  ASSUME RInv, Connect
  PROVE  RInv'
<1> DEFINE attempt == [via |-> Candidate, ok |-> FALSE]
<1> USE DEF Connect, discovery
<1>1. phase = "connect" /\ turn <= LastTurn /\ holding = {} /\ Len(attempts) = turn - 1
  BY DEF RInv, Held, InTurn
<1>2. attempt \in [via : Vias, ok : BOOLEAN]
  BY <1>1, CandidateVia DEF RInv
<1>3. CASE ConnectSucceeds
  <2> USE <1>1, <1>3 DEF ConnectSucceeds
  <2>1. Typed'  BY DEF RInv, Typed, Phases, IsList, Vias
  <2>2. Held'  BY DEF Held, Candidate
  <2>3. Ordered'  BY DEF RInv, Ordered, NeedsApproval
  <2>4. InTurn'  BY DEF RInv, InTurn, Tried, LastTurn
  <2>5. BestFirst'  BY DEF RInv, Ordered, BestFirst
  <2> QED  BY <2>1, <2>2, <2>3, <2>4, <2>5 DEF RInv
<1>4. ASSUME NEW error \in ConnectErrors(Candidate), ConnectRaises(error)
      PROVE  RInv'
  <2> USE <1>1, <1>2, <1>4 DEF ConnectRaises
  <2>1. Typed'
    <3>1. attempts \in Seq([via : Vias, ok : BOOLEAN])  BY DEF RInv, Typed
    <3>2. Append(attempts, attempt) \in Seq([via : Vias, ok : BOOLEAN])
      BY <3>1, Appended
    <3>3. attempts' \in {attempts, Append(attempts, attempt)}  OBVIOUS
    <3>4. attempts' \in Seq([via : Vias, ok : BOOLEAN])
      BY <3>1, <3>2, <3>3
    <3>5. Vias' = Vias  BY DEF Vias
    <3> QED  BY <3>4, <3>5 DEF RInv, Typed, Phases, Outcomes, IsList
  <2>2. Held'  BY DEF Held, Candidate
  <2>3. Ordered'  BY DEF RInv, Ordered, NeedsApproval
  <2>4. InTurn'
    <3>1. CASE error \in Caught
      <4>1. attempts' = Append(attempts, attempt)  BY <3>1
      <4>2. Len(attempts') = turn  BY <4>1 DEF RInv, Typed
      <4>3. Tried(turn - 1)  BY DEF RInv, InTurn
      <4>4. Tried(turn)'
        <5>1. /\ \A i \in DOMAIN attempts : /\ i \in DOMAIN attempts'
                                            /\ attempts'[i] = attempts[i]
              /\ turn \in DOMAIN attempts' /\ attempts'[turn] = attempt
          BY <4>1, Appended DEF RInv, Typed
        <5>2. \A i \in 1 .. turn : i \in 1 .. turn - 1 \/ i = turn
          BY DEF RInv, Typed
        <5> QED  BY <4>3, <5>1, <5>2 DEF Tried, Candidate
      <4> QED  BY <3>1, <4>2, <4>4 DEF RInv, InTurn, LastTurn
    <3>2. CASE error \notin Caught  BY <3>2 DEF RInv, InTurn
    <3> QED  BY <3>1, <3>2
  <2>5. BestFirst'  BY DEF RInv, Ordered, BestFirst
  <2> QED  BY <2>1, <2>2, <2>3, <2>4, <2>5 DEF RInv
<1> QED  BY <1>3, <1>4

LEMMA DropKeeps ==
  ASSUME RInv, Drop
  PROVE  RInv'
<1> USE DEF Drop, discovery
<1>1. Typed'  BY DEF RInv, Typed, Phases, IsList, Vias
<1>2. Held'  BY DEF RInv, Held
<1>3. Ordered'  BY DEF RInv, Ordered, NeedsApproval
<1>4. InTurn'  BY DEF RInv, Typed, InTurn, Tried
<1>5. BestFirst'  BY DEF RInv, Ordered, BestFirst
<1> QED  BY <1>1, <1>2, <1>3, <1>4, <1>5 DEF RInv

\* "Not connected" is said when every route that may be tried has been.
LEMMA GiveUpKeeps ==
  ASSUME RInv, GiveUp
  PROVE  RInv'
<1> USE DEF GiveUp, discovery
<1>1. Typed'  BY DEF RInv, Typed, Phases, Outcomes, IsList, Vias
<1>2. Held'  BY DEF RInv, Held
<1>3. Ordered'  BY DEF RInv, Ordered, NeedsApproval
<1>4. InTurn'  BY DEF RInv, InTurn
<1>5. BestFirst'
  <2>1. \A i \in DOMAIN ranked : i <= MaxAttempts => i \in 1 .. turn - 1
    BY TurnBound DEF RInv, Typed, IsList
  <2>2. Tried(turn - 1)  BY DEF RInv, InTurn
  <2> QED  BY <2>1, <2>2 DEF BestFirst, Tried
<1> QED  BY <1>1, <1>2, <1>3, <1>4, <1>5 DEF RInv

LEMMA RunKeeps ==
  ASSUME RInv, Run
  PROVE  RInv'
<1> USE DEF Run, discovery
<1>1. phase = "probe" /\ turn <= LastTurn /\ Tried(turn - 1) /\ runs = <<>>
  BY DEF RInv, InTurn, Ordered
<1>2. [via |-> Candidate, ok |-> TRUE] \in [via : Vias, ok : BOOLEAN]
  BY <1>1, CandidateVia DEF RInv
<1>3. attempts \in Seq([via : Vias, ok : BOOLEAN])  BY DEF RInv, Typed
<1>4. \/ attempts' = attempts
      \/ attempts' = Append(attempts, [via |-> Candidate, ok |-> TRUE])
  OBVIOUS
<1>5. Typed'
  <2>1. Append(attempts, [via |-> Candidate, ok |-> TRUE])
          \in Seq([via : Vias, ok : BOOLEAN])
    BY <1>2, <1>3, Appended, Zenon
  <2>2. attempts' \in Seq([via : Vias, ok : BOOLEAN])
    BY <1>3, <1>4, <2>1, Zenon
  <2>3. Vias' = Vias  BY DEF Vias
  <2> QED  BY <2>2, <2>3 DEF RInv, Typed, Phases, Outcomes, IsList
<1>6. Held'  BY <1>1 DEF RInv, Held, Candidate
<1>7. Ordered'  BY <1>1 DEF RInv, Ordered, NeedsApproval
<1>8. Tried(turn - 1)'
  <2>1. \A i \in DOMAIN attempts : /\ i \in DOMAIN attempts'
                                   /\ attempts'[i] = attempts[i]
    BY <1>2, <1>3, <1>4, Appended
  <2> QED  BY <1>1, <2>1 DEF Tried
<1>9. InTurn'  BY <1>1, <1>8 DEF InTurn, LastTurn
<1>10. BestFirst'  BY <1>8 DEF BestFirst, Tried
<1> QED  BY <1>5, <1>6, <1>7, <1>9, <1>10 DEF RInv

LEMMA CloseKeeps ==
  ASSUME RInv, Close
  PROVE  RInv'
<1> USE DEF Close, discovery
<1>1. Typed'  BY DEF RInv, Typed, Phases, IsList, Vias
<1>2. Held'  BY DEF RInv, Held
<1>3. Ordered'  BY DEF RInv, Ordered
<1>4. InTurn'  BY DEF InTurn
<1>5. BestFirst'  BY DEF RInv, BestFirst
<1> QED  BY <1>1, <1>2, <1>3, <1>4, <1>5 DEF RInv

LEMMA StutterKeeps ==
  ASSUME RInv, UNCHANGED vars
  PROVE  RInv'
BY DEF RInv, Typed, Held, Ordered, InTurn, Tried, BestFirst, Candidate, Vias,
       IsList, NeedsApproval, LastTurn, vars, discovery, remote

LEMMA NextRInv ==
  ASSUME DInv, RInv, [Next]_vars
  PROVE  RInv'
BY DiscoverKeeps, SetOutKeeps, ConnectKeeps, DropKeeps, GiveUpKeeps, RunKeeps,
   CloseKeeps, StutterKeeps DEF Next, Tool, Returned

THEOREM Invariant == Spec => []RInv
<1>1. Init => RInv  BY InitRInv
<1>2. DInv /\ RInv /\ [Next]_vars => RInv'  BY NextRInv
<1> QED  BY <1>1, <1>2, Discovered, PTL DEF Spec

(***************************************************************************)
(* What follows                                                            *)
(***************************************************************************)
\* At most one session is open on the way, and none when the tool answers, for
\* every list of candidates and every way in which they fail.
THEOREM SessionsOneByOne == Spec => []OneSession
<1>1. RInv => OneSession
  <2> SUFFICES ASSUME RInv PROVE OneSession  OBVIOUS
  <2>1. holding = {} \/ holding = {Candidate}  BY DEF RInv, Held
  <2>2. Cardinality(holding) <= 1
    <3>1. Cardinality({Candidate}) = 1  BY FS_Singleton, Zenon
    <3>2. Cardinality({}) = 0  BY FS_EmptySet, Zenon
    <3> QED  BY <2>1, <3>1, <3>2
  <2> QED  BY <2>2 DEF RInv, Held, OneSession
<1> QED  BY <1>1, Invariant, PTL

\* A route is used only after every better one has failed, and the tool gives
\* up only after all that it may try have, for every number of attempts.
THEOREM RoutesInOrder == Spec => []BestFirst
<1>1. RInv => BestFirst  BY DEF RInv
<1> QED  BY <1>1, Invariant, PTL

\* ToolCall: the command runs once at most over all the routes, and not without
\* its approval; nothing is opened before the approval, discovery included; and
\* an answer leaves nothing open but what a failed connect() of the discovery did.
LEMMA StartsCall == Init => TC!Init
BY DEF Init, DiscoveryInit, TC!Init, Ending

LEMMA StepsCall ==
  ASSUME DInv, RInv, [Next]_vars
  PROVE  [TC!Next]_(TC!vars)
<1> USE DEF TC!Next, TC!vars, Ending
<1> DEFINE allowed == request.dangerous => request.confirm
<1>1. CASE UNCHANGED vars
  BY <1>1 DEF vars, discovery, remote
<1>2. CASE Gate
  <2>1. CASE NeedsApproval(request)
    BY <1>2, <2>1 DEF Gate, TC!Return, TC!Outcomes, RInv, Held, discovery
  <2>2. CASE ~NeedsApproval(request)
    BY <1>2, <2>2 DEF Gate, TC!Connect, NeedsApproval, RInv, Typed, Held, discovery
  <2> QED  BY <2>1, <2>2
<1>0. stranded \in BOOLEAN
  BY DEF DInv, DTyped
<1>3. CASE DiscoverRoutes
  <2>1. /\ stage # "ranked" /\ stranded' \in {stranded, TRUE}
        /\ stage' = "ranked" => stranded' = stranded
    BY <1>3, DiscoverLeaves DEF DiscoverRoutes
  <2>2. /\ phase = "discover" /\ UNCHANGED remote
        /\ allowed /\ outcome = "none" /\ holding = {}
    BY <1>3 DEF DiscoverRoutes, RInv, Typed, Held, Ordered, NeedsApproval, remote
  <2>3. /\ phase = "discover" /\ phase' = "discover" /\ request' = request
        /\ holding = {} /\ holding' = {} /\ outcome' = outcome /\ runs' = runs
    BY <2>2 DEF remote
  <2> HIDE DEF Ending
  <2>4. Ending = "none" /\ Ending' = "none"
    BY <2>3, Zenon DEF Ending
  <2>5. CASE stage' # "ranked" /\ stranded' = stranded
    BY <2>1, <2>3, <2>4, <2>5
  <2>6. CASE stage' # "ranked" /\ stranded' = TRUE
    BY <1>0, <2>1, <2>2, <2>3, <2>4, <2>6 DEF TC!Abandon
  <2>7. CASE stage' = "ranked"
    BY <2>1, <2>3, <2>4, <2>7 DEF TC!Disconnect
  <2> QED
    BY <2>1, <2>5, <2>6, <2>7
<1>4. CASE TakeRoutes
  BY <1>4 DEF TakeRoutes, TC!Return, TC!Outcomes, RInv, Held, discovery
<1>5. CASE Connect
  <2>1. allowed  BY <1>5 DEF Connect, RInv, Ordered, NeedsApproval, Typed
  <2>2. CASE ConnectSucceeds
    BY <1>0, <1>5, <2>1, <2>2
      DEF Connect, ConnectSucceeds, TC!Connect, RInv, Ordered, discovery
  <2>3. ASSUME NEW error \in ConnectErrors(Candidate), ConnectRaises(error)
        PROVE  [TC!Next]_(TC!vars)
    <3>1. CASE error \in Caught
      BY <1>5, <2>1, <2>3, <3>1
        DEF Connect, ConnectRaises, TC!Connect, TC!Disconnect, RInv, Held, Ordered,
            discovery
    <3>2. CASE error \notin Caught
      BY <1>0, <1>5, <2>3, <3>2
        DEF Connect, ConnectRaises, TC!Return, TC!Outcomes, RInv, Held, Ordered,
            discovery
    <3> QED  BY <3>1, <3>2
  <2> QED  BY <1>5, <2>2, <2>3 DEF Connect
<1>6. CASE Drop
  BY <1>0, <1>6 DEF Drop, TC!Disconnect, RInv, Held, Ordered, discovery
<1>7. CASE GiveUp
  BY <1>0, <1>7 DEF GiveUp, TC!Return, TC!Outcomes, RInv, Held, Ordered, discovery
<1>8. CASE Run
  <2>1. allowed /\ runs = <<>>
    BY <1>8 DEF Run, RInv, Ordered, NeedsApproval, Typed
  <2>2. runs' = runs \/ DOMAIN runs' = {1}
    BY <1>8, <2>1 DEF Run
  <2>3. /\ phase = "probe" /\ phase' = "close" /\ holding' = holding
        /\ request' = request /\ stranded' = stranded
        /\ outcome # "escaped" /\ outcome' # "escaped"
    BY <1>8 DEF Run, discovery, RInv, Ordered
  <2>4. allowed' = allowed /\ (phase = "done") = FALSE /\ (phase = "done")' = FALSE
    BY <2>3
  <2> DEFINE isOpen == \/ phase = "discover" /\ stage # "ranked"
                       \/ holding # {} /\ outcome # "escaped"
             isLeft == stranded \/ (holding # {} /\ outcome = "escaped")
  <2>5. isOpen' = isOpen /\ isLeft' = isLeft
    BY <2>3
  <2>6. Ending = "none" /\ Ending' = "none"
    <3>1. phase # "done" /\ phase' # "done"  BY <2>3
    <3> QED  BY <3>1, Zenon
  <2>7. CASE runs' = runs
    BY <2>4, <2>5, <2>6, <2>7, Zenon
  <2>8. CASE DOMAIN runs' = {1}
    <3>1. DOMAIN runs = {}  BY <2>1
    <3>2. \E x \in DOMAIN runs' : DOMAIN runs' = {x}  BY <2>8
    <3>3. allowed /\ DOMAIN runs = {}  BY <2>1, <3>1
    <3>4. TC!Execute
      BY <2>4, <2>5, <2>6, <3>2, <3>3, Zenon DEF TC!Execute
    <3> QED  BY <3>4
  <2> QED  BY <2>2, <2>7, <2>8
<1>9. CASE Close
  BY <1>0, <1>9 DEF Close, TC!Return, TC!Outcomes, RInv, Held, Ordered, discovery
<1> QED
  BY <1>1, <1>2, <1>3, <1>4, <1>5, <1>6, <1>7, <1>8, <1>9
    DEF Next, Tool, Returned

THEOREM ImplementsToolCall == Spec => KeepsToolCall
<1>1. Init => TC!Init  BY StartsCall
<1>2. DInv /\ RInv /\ [Next]_vars => [TC!Next]_(TC!vars)  BY StepsCall
<1> QED  BY <1>1, <1>2, Invariant, Discovered, PTL DEF Spec, KeepsToolCall, TC!Spec

(***************************************************************************)
(* Types                                                                   *)
(***************************************************************************)
\* What the tool points at are routes of its list.
Bounded ==
  /\ turn <= Len(ranked) + 1
  /\ holding \subseteq Vias
  /\ \A i \in DOMAIN runs : runs[i] \in Vias

LEMMA NextBounded ==
  ASSUME DInv, RInv, Bounded, [Next]_vars
  PROVE  Bounded'
<1>1. Typed /\ Len(ranked) \in Nat /\ turn \in Nat
  BY DEF RInv, Typed, IsList
<1>2. CASE UNCHANGED vars
  BY <1>2 DEF Bounded, Vias, vars, discovery, remote
<1>3. CASE DiscoverRoutes
  <2>1. turn = 1 /\ holding = {} /\ runs = <<>>
    BY <1>3 DEF DiscoverRoutes, RInv, InTurn, Held, Ordered
  <2>2. RInv'
    BY <1>3, DiscoverKeeps
  <2>3. Len(ranked') \in Nat
    BY <2>2 DEF RInv, Typed, IsList
  <2> QED
    BY <1>3, <2>1, <2>3 DEF DiscoverRoutes, remote, Bounded
<1>4. CASE Gate \/ TakeRoutes
  BY <1>4 DEF Gate, TakeRoutes, discovery, Bounded, Vias
<1>5. CASE Connect
  <2>1. Candidate \in Vias /\ Vias' = Vias /\ turn' = turn /\ runs' = runs /\ ranked' = ranked
        /\ holding' \subseteq holding \cup {Candidate}
    BY <1>1, <1>5, CandidateVia
      DEF Connect, ConnectSucceeds, ConnectRaises, discovery, Vias
  <2> QED
    BY <2>1 DEF Bounded
<1>6. CASE Drop
  <2>1. turn <= LastTurn
    BY <1>6 DEF Drop, RInv, InTurn
  <2>2. turn <= Len(ranked)
    BY <1>1, <2>1, TurnBound DEF Typed
  <2> QED
    BY <1>1, <1>6, <2>2 DEF Drop, discovery, Bounded, Vias
<1>7. CASE GiveUp \/ Close
  BY <1>7 DEF GiveUp, Close, discovery, Bounded, Vias
<1>8. CASE Run
  <2>1. turn <= LastTurn /\ runs = <<>>
    BY <1>8 DEF Run, RInv, InTurn, Ordered
  <2>2. Candidate \in Vias /\ Vias' = Vias
    BY <1>1, <1>8, <2>1, CandidateVia DEF Run, discovery, Vias
  <2>3. \A i \in DOMAIN runs' : runs'[i] \in Vias'
    <3>1. runs' = runs \/ runs' = <<Candidate>>
      BY <1>8, <2>1 DEF Run
    <3> QED
      BY <2>1, <2>2, <3>1
  <2> QED
    BY <1>8, <2>2, <2>3 DEF Run, discovery, Bounded
<1> QED
  BY <1>2, <1>3, <1>4, <1>5, <1>6, <1>7, <1>8 DEF Next, Tool, Returned

\* Every variable keeps its type: what the tool holds, tries and runs on are
\* nodes, and no turn is past the list.
THEOREM Typing == Spec => []TypeOK
<1>1. Init => Bounded
  BY DEF Init, DiscoveryInit, Bounded
<1>2. DInv /\ RInv /\ Bounded /\ [Next]_vars => Bounded'
  BY NextBounded
<1>3. DInv /\ RInv /\ Bounded => TypeOK
  <2> SUFFICES ASSUME DInv, RInv, Bounded PROVE TypeOK
    OBVIOUS
  <2>1. Vias \subseteq Nodes
    BY DEF DInv, Listing, Vias
  <2>2. DiscoveryTypeOK
    <3>1. ASSUME NEW n \in Nodes
          PROVE  best[n] = NoRoute \/ (best[n].via = n /\ best[n].source \in Sourced)
      <4>1. Offered(n) \subseteq Candidates(n)
        BY DEF Offered, Candidates
      <4>2. best[n] = NoRoute \/ best[n] \in Offered(n)
        BY DEF DInv, BestOffered, IsBest
      <4> QED
        BY <4>1, <4>2, CandidateTypes DEF DInv, DTyped
    <3> QED
      BY <3>1 DEF DiscoveryTypeOK, DInv, DTyped, Listing
  <2>3. turn \in 1 .. Len(Sources) + 1
    <3>1. turn \in Nat \ {0} /\ turn <= Len(ranked) + 1
      BY DEF RInv, Typed, Bounded
    <3>2. Len(ranked) \in Nat /\ Len(ranked) <= Len(Sources) /\ Len(Sources) \in Nat
      BY SourcesAssumption DEF DInv, Listing
    <3> QED
      BY <3>1, <3>2
  <2>4. \A i \in DOMAIN attempts : attempts[i] \in [via : Nodes, ok : BOOLEAN]
    <3>1. attempts \in Seq([via : Vias, ok : BOOLEAN])
      BY DEF RInv, Typed
    <3>2. \A i \in DOMAIN attempts : attempts[i] \in [via : Vias, ok : BOOLEAN]
      <4>1. \A T : \A s \in Seq(T) : \A i \in DOMAIN s : s[i] \in T
        OBVIOUS
      <4> QED
        BY <3>1, <4>1, Zenon
    <3>3. [via : Vias, ok : BOOLEAN] \subseteq [via : Nodes, ok : BOOLEAN]
      BY <2>1
    <3> QED
      BY <3>2, <3>3
  <2> QED
    BY <2>1, <2>2, <2>3, <2>4 DEF TypeOK, RInv, Typed, Bounded
<1> QED
  BY <1>1, <1>2, <1>3, Invariant, Discovered, PTL DEF Spec

-----------------------------------------------------------------------------
(* The tool comes to its end.  Two measures: the questions that discovery has *)
(* still to ask, and the steps the tool has still before it, three for every  *)
(* route it may turn to.                                                      *)
Questions ==
  {<<n, "alias">> : n \in {m \in Nodes : stage = "alias" /\ meant[m] = Waiting}}
    \cup {<<n, "D">> : n \in {m \in Nodes : probing[m] = "D"}}
    \cup {<<n, "N">> : n \in {m \in Nodes : probing[m] # "done"}}

Turns == 3 * (Len(Sources) + 2 - turn)

ToGo ==
  CASE phase = "gate"     -> 3 * Len(Sources) + 8
    [] phase = "discover" -> 3 * Len(Sources) + CASE stage = "alias" -> 7
                                                  [] stage = "probe" -> 6
                                                  [] OTHER           -> 5
    [] phase = "connect"  -> Turns + 1
    [] phase = "drop"     -> Turns
    [] phase = "probe"    -> 2
    [] phase = "close"    -> 1
    [] OTHER              -> 0

Nearer ==
  \/ ToGo' < ToGo /\ Questions' \subseteq Questions
  \/ ToGo' = ToGo /\ Questions' \subseteq Questions /\ Questions' # Questions

\* An answer takes its question off the list, for good.
LEMMA ProbeNearer ==
  ASSUME DInv, NEW n \in Nodes, Probe(n)
  PROVE  /\ stage' = stage
         /\ Questions' \subseteq Questions /\ Questions' # Questions
<1>1. CASE AskAlias(n)
  <2>1. <<n, "alias">> \in Questions /\ <<n, "alias">> \notin Questions'
    <3>1. meant'[n] # Waiting /\ stage = "alias" /\ meant[n] = Waiting
      BY <1>1, TablesAssumption, CallsignsAssumption
        DEF AskAlias, DInv, DTyped, Unknown, Waiting
    <3> QED
      BY <3>1 DEF Questions
  <2> QED
    BY <1>1, <2>1 DEF AskAlias, Questions, DInv, DTyped
<1>2. CASE ProbeFlexNet(n)
  <2>1. /\ probing[n] = "D" /\ probing'[n] = "N" /\ stage = "probe" /\ stage' = stage
        /\ \A m \in Nodes : m # n => probing'[m] = probing[m]
    BY <1>2 DEF ProbeFlexNet, DInv, DTyped
  <2>2. <<n, "D">> \in Questions /\ <<n, "D">> \notin Questions'
    BY <2>1 DEF Questions
  <2>3. Questions' \subseteq Questions
    BY <2>1 DEF Questions
  <2> QED
    BY <2>1, <2>2, <2>3
<1>3. CASE ProbeNetRom(n)
  <2>1. /\ probing[n] = "N" /\ probing'[n] = "done" /\ stage = "probe" /\ stage' = stage
        /\ \A m \in Nodes : m # n => probing'[m] = probing[m]
    BY <1>3 DEF ProbeNetRom, DInv, DTyped
  <2>2. <<n, "N">> \in Questions /\ <<n, "N">> \notin Questions'
    BY <2>1 DEF Questions
  <2>3. Questions' \subseteq Questions
    BY <2>1 DEF Questions
  <2> QED
    BY <2>1, <2>2, <2>3
<1> QED
  BY <1>1, <1>2, <1>3 DEF Probe

LEMMA ToolNearer ==
  ASSUME DInv, RInv, Bounded, Tool
  PROVE  Nearer
<1>1. Len(Sources) \in Nat /\ turn \in Nat \ {0} /\ turn <= Len(Sources) + 1
  BY SourcesAssumption DEF RInv, Typed, Bounded, DInv, Listing
<1>2. UNCHANGED discovery => Questions' = Questions
  BY DEF discovery, Questions
<1>3. CASE DiscoverRoutes
  <2>1. phase = "discover" /\ phase' = "discover"
    BY <1>3 DEF DiscoverRoutes, remote
  <2>2. ASSUME NEW n \in Nodes, Probe(n)  PROVE Nearer
    BY <2>1, <2>2, ProbeNearer DEF Nearer, ToGo
  <2>3. CASE ResolveAlias \/ Rank
    <3>1. Questions' \subseteq Questions
      BY <2>3 DEF ResolveAlias, Rank, Questions
    <3>2. ToGo' < ToGo
      BY <1>1, <2>1, <2>3 DEF ResolveAlias, Rank, ToGo
    <3> QED
      BY <3>1, <3>2 DEF Nearer
  <2> QED
    BY <1>3, <2>2, <2>3 DEF DiscoverRoutes, Discover
<1> USE DEF Nearer, ToGo, Turns
<1>4. CASE Gate
  BY <1>1, <1>2, <1>4 DEF Gate, DInv, DTyped, discovery
<1>5. CASE TakeRoutes
  <2>1. turn = 1
    BY <1>5 DEF TakeRoutes, RInv, InTurn
  <2> QED
    BY <1>1, <1>2, <1>5, <2>1 DEF TakeRoutes
<1>6. CASE Connect
  BY <1>1, <1>2, <1>6 DEF Connect, ConnectSucceeds, ConnectRaises
<1>7. CASE Drop
  BY <1>1, <1>2, <1>7 DEF Drop
<1>8. CASE GiveUp \/ Run \/ Close
  BY <1>1, <1>2, <1>8 DEF GiveUp, Run, Close
<1> QED
  BY <1>3, <1>4, <1>5, <1>6, <1>7, <1>8 DEF Tool

\* For any nodes, tables and failures, every step brings the tool nearer to its
\* answer: no node is asked a question twice, no route is turned to again, and
\* three steps a node and eight are all that the tool adds to its questions.
THEOREM NoCircle ==
  Spec => [](IsFiniteSet(Questions) /\ ToGo \in Nat) /\ [][Nearer]_vars
<1>1. DInv /\ RInv /\ Bounded => IsFiniteSet(Questions) /\ ToGo \in Nat
  <2> SUFFICES ASSUME DInv, RInv, Bounded PROVE IsFiniteSet(Questions) /\ ToGo \in Nat
    OBVIOUS
  <2>1. Len(Sources) \in Nat /\ turn \in Nat \ {0} /\ turn <= Len(Sources) + 1
    BY SourcesAssumption DEF RInv, Typed, Bounded, DInv, Listing
  <2>2. ToGo \in Nat
    BY <2>1 DEF ToGo, Turns
  <2>3. IsFiniteSet(Nodes)
    <3>1. Sources \in Surjection(1 .. Len(Sources), Nodes)
      BY <2>1, SourcesAssumption DEF Surjection, Nodes
    <3>2. IsFiniteSet(1 .. Len(Sources))
      BY <2>1, FS_Interval
    <3> QED
      BY <3>1, <3>2, FS_Surjection
  <2>4. IsFiniteSet(Nodes \X {"alias", "D", "N"})
    <3>1. IsFiniteSet(({} \cup {"alias"}) \cup {"D"})
      BY FS_EmptySet, FS_AddElement
    <3>2. IsFiniteSet((({} \cup {"alias"}) \cup {"D"}) \cup {"N"})
      BY <3>1, FS_AddElement
    <3>3. (({} \cup {"alias"}) \cup {"D"}) \cup {"N"} = {"alias", "D", "N"}
      OBVIOUS
    <3> QED
      BY <2>3, <3>2, <3>3, FS_Product
  <2>5. Questions \subseteq Nodes \X {"alias", "D", "N"}
    BY DEF Questions
  <2> QED
    BY <2>2, <2>4, <2>5, FS_Subset
<1>2. DInv /\ RInv /\ Bounded /\ [Next]_vars => [Nearer]_vars
  BY ToolNearer DEF Next, Returned
<1>3. Init => Bounded
  BY DEF Init, DiscoveryInit, Bounded
<1>4. DInv /\ RInv /\ Bounded /\ [Next]_vars => Bounded'
  BY NextBounded
<1> QED
  BY <1>1, <1>2, <1>3, <1>4, Invariant, Discovered, PTL DEF Spec
=============================================================================
