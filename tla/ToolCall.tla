----------------------------- MODULE ToolCall -----------------------------
(* What every tool that sends a command promises its caller: the command is  *)
(* executed once at most, and not at all where an approval is missing; until *)
(* the call is over sessions are opened and closed; and no session is open   *)
(* after it unless its task was cancelled.  A connect() that raises may      *)
(* leave the channels it had opened behind: they belong to no session.       *)
(* Session, Chain and RemoteRun implement it.                                *)
VARIABLES
  allowed,   \* the command needs no approval, or has it
  returned,  \* the call is over
  open,      \* a session of the call is open
  left,      \* channels of a connect() that raised are open
  runs,      \* the executions of the command
  outcome    \* how the call ended

vars == <<allowed, returned, open, left, runs, outcome>>

\* "unconnected": connect() raised and the call with it.
Outcomes == {"none", "output", "error", "unconnected", "cancelled"}

Init ==
  /\ allowed \in BOOLEAN
  /\ returned = FALSE
  /\ open \in BOOLEAN /\ (open => allowed)
  /\ left = FALSE
  /\ runs = {}
  /\ outcome = "none"

Connect ==
  /\ allowed /\ ~returned
  /\ open' = TRUE
  /\ UNCHANGED <<allowed, returned, left, runs, outcome>>

\* A connect() raises and the call goes on without it.
Abandon ==
  /\ allowed /\ ~returned
  /\ left' = TRUE
  /\ UNCHANGED <<allowed, returned, open, runs, outcome>>

Disconnect ==
  /\ ~returned
  /\ open' = FALSE
  /\ UNCHANGED <<allowed, returned, left, runs, outcome>>

\* A node may get to the command after a cancelled call is over.
Execute ==
  /\ allowed
  /\ runs = {}
  /\ \E x \in runs' : runs' = {x}
  /\ UNCHANGED <<allowed, returned, open, left, outcome>>

Return ==
  /\ ~returned
  /\ returned' = TRUE
  /\ outcome' \in Outcomes \ {"none"}
  /\ open' \in BOOLEAN
  /\ open' => outcome' = "cancelled"
  /\ left' \in {left, TRUE}
  /\ outcome' # "unconnected" => left' = left
  /\ UNCHANGED <<allowed, runs>>

Next == Connect \/ Abandon \/ Disconnect \/ Execute \/ Return

Spec == Init /\ [][Next]_vars
=============================================================================
