----------------------------- MODULE RemoteRun -----------------------------
(* The remote_run tool: gate the command, discover the routes, connect along *)
(* the best, fall back to the next when that fails, run the command once and *)
(* close.  Discovery is the component it starts with; a chained session      *)
(* (Chain) is a connect that succeeds or raises and a run that succeeds or   *)
(* raises.                                                                   *)
EXTENDS Discovery

CONSTANTS
  MaxAttempts,  \* max_attempts
  Jumped        \* the nodes behind an SSH jump host

ASSUME RemoteRunAssumption == MaxAttempts \in 1 .. 8

VARIABLES
  request,   \* is the command classified dangerous, is it confirmed
  phase,     \* where the tool is
  turn,      \* the candidate being tried
  attempts,  \* the attempts recorded: node and success
  holding,   \* nodes with an open session of this tool
  runs,      \* nodes along whose route the command was executed
  outcome    \* how the tool ends

remote == <<request, phase, turn, attempts, holding, runs, outcome>>
vars   == <<discovery, remote>>

Phases   == {"gate", "discover", "connect", "drop", "probe", "close", "done"}
\* "escaped": connect() raised what the loop does not catch; "raised": the run
\* raised after a connect that succeeded.
Outcomes == {"none", "approval", "notFound", "output", "notConnected",
             "escaped", "raised"}

TypeOK ==
  /\ DiscoveryTypeOK
  /\ request \in [dangerous : BOOLEAN, confirm : BOOLEAN]
  /\ phase \in Phases
  /\ turn \in 1 .. Len(Sources) + 1
  /\ \A i \in DOMAIN attempts :
       attempts[i] \in [via : Nodes, ok : BOOLEAN]
  /\ holding \subseteq Nodes
  /\ \A i \in DOMAIN runs : runs[i] \in Nodes
  /\ outcome \in Outcomes

Init ==
  /\ DiscoveryInit
  /\ request \in [dangerous : BOOLEAN, confirm : BOOLEAN]
  /\ phase = "gate"
  /\ turn = 1
  /\ attempts = <<>>
  /\ holding = {}
  /\ runs = <<>>
  /\ outcome = "none"

(***************************************************************************)
(* Gate and discovery                                                      *)
(***************************************************************************)
NeedsApproval(r) == r.dangerous /\ ~r.confirm

Gate ==
  /\ phase = "gate"
  /\ IF NeedsApproval(request)
     THEN phase' = "done" /\ outcome' = "approval"
     ELSE phase' = "discover" /\ outcome' = outcome
  /\ UNCHANGED <<discovery, request, turn, attempts, holding, runs>>

DiscoverRoutes ==
  /\ phase = "discover"
  /\ Discover
  /\ UNCHANGED remote

TakeRoutes ==
  /\ phase = "discover"
  /\ stage = "ranked"
  /\ IF ranked = <<>>
     THEN phase' = "done" /\ outcome' = "notFound"
     ELSE phase' = "connect" /\ outcome' = outcome
  /\ UNCHANGED <<discovery, request, turn, attempts, holding, runs>>

(***************************************************************************)
(* Connect and fall back                                                   *)
(***************************************************************************)
\* What connect() raises: errors of the protocol and the link, a password that
\* is not found, and with a jump host asyncssh's own errors.
ConnectErrors(node) ==
  {"XnetError", "ConnectionError", "OSError", "TimeoutError", "LookupError"}
    \cup IF node \in Jumped THEN {"asyncssh.Error"} ELSE {}

Caught == {"XnetError", "ConnectionError", "OSError", "TimeoutError"}

Candidate == ranked[turn].via

Lesser(m, n) == IF m < n THEN m ELSE n

\* Variant: the last candidate is left out.
LastButOne == Lesser(MaxAttempts, Len(ranked)) - 1

\* candidates[:max_attempts]
LastTurn == Lesser(MaxAttempts, Len(ranked))

\* Connect failures may come with channels open or before there are any.
ConnectRaises(error) ==
  /\ holding' \in {holding, holding \cup {Candidate}}
  /\ runs' = runs
  /\ turn' = turn
  /\ IF error \in Caught
     THEN /\ attempts' = Append(attempts, [via |-> Candidate, ok |-> FALSE])
          /\ phase' = "drop"
          /\ outcome' = outcome
     ELSE /\ attempts' = attempts
          /\ phase' = "done"
          /\ outcome' = "escaped"

ConnectSucceeds ==
  /\ holding' = holding \cup {Candidate}
  /\ phase' = "probe"
  /\ UNCHANGED <<turn, attempts, runs, outcome>>

Connect ==
  /\ phase = "connect"
  /\ turn <= LastTurn
  /\ \/ ConnectSucceeds
     \/ \E error \in ConnectErrors(Candidate) : ConnectRaises(error)
  /\ UNCHANGED <<discovery, request>>

\* Variant: the failed session is left as it is.
NextWithoutDrop ==
  /\ phase = "drop"
  /\ turn' = turn + 1
  /\ phase' = "connect"
  /\ UNCHANGED <<discovery, request, attempts, holding, runs, outcome>>

\* disconnect() after a failed connect, then the next candidate.
Drop ==
  /\ phase = "drop"
  /\ holding' = holding \ {Candidate}
  /\ turn' = turn + 1
  /\ phase' = "connect"
  /\ UNCHANGED <<discovery, request, attempts, runs, outcome>>

\* Variant: when the routes are used up the tool starts over.
StartOver ==
  /\ phase = "connect"
  /\ turn > LastTurn
  /\ turn' = 1
  /\ attempts' = <<>>
  /\ UNCHANGED <<discovery, request, phase, holding, runs, outcome>>

GiveUp ==
  /\ phase = "connect"
  /\ turn > LastTurn
  /\ phase' = "done"
  /\ outcome' = "notConnected"
  /\ UNCHANGED <<discovery, request, turn, attempts, holding, runs>>

(***************************************************************************)
(* Run and close                                                           *)
(***************************************************************************)
\* Variant: a run that raises is retried along the next route.
RunOrFallBack ==
  /\ phase = "probe"
  /\ \E executed, raises \in BOOLEAN :
       /\ runs' = IF executed THEN Append(runs, Candidate) ELSE runs
       /\ IF raises
          THEN /\ phase' = "drop"
               /\ UNCHANGED <<attempts, outcome>>
          ELSE /\ attempts' = Append(attempts, [via |-> Candidate, ok |-> TRUE])
               /\ phase' = "close"
               /\ outcome' = "output"
  /\ UNCHANGED <<discovery, request, turn, holding>>

\* probe_family never raises; the command is executed or lost, and whichever
\* it was the session may raise.
Run ==
  /\ phase = "probe"
  /\ \E executed, raises \in BOOLEAN :
       /\ runs' = IF executed THEN Append(runs, Candidate) ELSE runs
       /\ IF raises
          THEN outcome' = "raised" /\ attempts' = attempts
          ELSE /\ attempts' = Append(attempts, [via |-> Candidate, ok |-> TRUE])
               /\ outcome' = "output"
  /\ phase' = "close"
  /\ UNCHANGED <<discovery, request, turn, holding>>

Close ==
  /\ phase = "close"
  /\ holding' = holding \ {Candidate}
  /\ phase' = "done"
  /\ UNCHANGED <<discovery, request, turn, attempts, runs, outcome>>

(***************************************************************************)
(* The specification                                                       *)
(***************************************************************************)
Tool == Gate \/ DiscoverRoutes \/ TakeRoutes \/ Connect \/ Drop \/ GiveUp
          \/ Run \/ Close

Returned == phase = "done" /\ UNCHANGED vars

Next == Tool \/ Returned

Spec == Init /\ [][Next]_vars

\* Sessions end (Chain), so every step of the tool is taken.
FairSpec == Spec /\ WF_vars(Tool)

(***************************************************************************)
(* Properties                                                              *)
(***************************************************************************)
\* The routes are those RoutePlan promises: a function of the tables, whatever
\* the order in which the nodes answer.
KeepsPlan == Promise!Safe

\* The tool as ToolCall knows it; discovery, too, opens sessions.  What a
\* failed connect() leaves belongs to none.
Ending ==
  IF phase # "done"
  THEN "none"
  ELSE CASE outcome = "escaped" -> "unconnected"
         [] outcome = "raised"  -> "error"
         [] OTHER               -> "output"

TC == INSTANCE ToolCall WITH
        allowed    <- request.dangerous => request.confirm,
        returned   <- phase = "done",
        open       <- \/ phase = "discover" /\ stage # "ranked"
                      \/ holding # {} /\ outcome # "escaped",
        left       <- stranded \/ (holding # {} /\ outcome = "escaped"),
        runs       <- DOMAIN runs,
        outcome    <- Ending

\* Falling back never repeats what an earlier attempt may have done; without
\* its approval a dangerous command opens no session, not even to discover a
\* route; and after an answer nothing is open but the channels that a failed
\* connect() of the discovery left.
KeepsToolCall == TC!Spec

\* Of the sessions the tool connects itself, not discovery's, at most one is open
\* at a time, and none when the tool answers.
OneSession ==
  /\ Cardinality(holding) <= 1
  /\ outcome \in {"output", "notConnected"} /\ phase = "done" => holding = {}

\* A route is used only after every better one among the candidates to try
\* has failed; "not connected" is said only after all of them have.
BestFirst ==
  LET failed(i) == /\ i \in DOMAIN attempts
                   /\ attempts[i] = [via |-> ranked[i].via, ok |-> FALSE]
  IN /\ outcome = "output" => \A i \in 1 .. turn - 1 : failed(i)
     /\ outcome = "notConnected" =>
          \A i \in DOMAIN ranked : i <= MaxAttempts => failed(i)

\* DESIGN.md 5.4: a connect that fails falls back to the next candidate, so no
\* connect failure ends the tool while a candidate is left to try.
FallsBack == outcome = "escaped" => turn = LastTurn

\* The tool returns, and has ranked the routes unless the gate refused it.
ToolReturns ==
  /\ <>(phase = "done")
  /\ NeedsApproval(request) \/ <>(stage = "ranked")
=============================================================================
