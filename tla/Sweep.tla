------------------------------- MODULE Sweep -------------------------------
(* network_topology and find_callsign: one session to every configured node  *)
(* at once, on one event loop.  A session waits for its password prompt (the *)
(* two prompts of a login are one wait), for the end of the welcome text, a  *)
(* challenge, its verdict, a reply; a password lookup (Keyring) holds the    *)
(* loop, and the deadlines of all other sessions run meanwhile.  What goes   *)
(* wrong at one node becomes that node's entry.                              *)
EXTENDS Keyring, FiniteSets

CONSTANTS
  Bpq,    \* the BPQ nodes: their commands need SYS
  Cases,  \* the calls: a tool, and the nodes that ask for a login
  Limit,  \* how long a session waits for what it has asked for
  Idle    \* how long it reads on after a piece of it, by silence alone

ASSUME SweepAssumption ==
  /\ IsFiniteSet(Nodes)
  /\ Bpq \subseteq Nodes
  /\ Calls = {1, 2}
  /\ Cases \subseteq {"network_topology", "find_callsign"} \X SUBSET Nodes
  /\ Limit \in Nat \ {0}
  /\ Idle \in 1 .. Limit

VARIABLES
  tool,     \* the tool that is called
  logins,   \* the nodes that ask for a login
  stage,    \* what the session of each node is waiting for
  call,     \* the session it is in
  left,     \* the time until that wait ends by itself
  got,      \* what it has read of it
  heard,    \* what the node has sent since, and how early it came if it is all
  ready,    \* what the event loop has for the session in this iteration
  spinning, \* the session that holds the loop with a closed stream, if any
  spun,     \* whether one has done so
  entry,    \* the node's entry in the tool's answer
  outcome   \* whether the tool has answered or raised

config   == <<tool, logins>>
sessions == <<stage, call, left, got, heard, ready, spinning, spun, entry>>
vars     == <<keyring, config, sessions, outcome>>

Stages  == {"dial", "user", "drain", "sys", "verdict", "reply", "end"}
Entries == {"none", "error", "found"}

TypeOK ==
  /\ KeyringTypeOK
  /\ <<tool, logins>> \in Cases
  /\ stage \in [Nodes -> Stages]
  /\ call \in [Nodes -> Calls]
  /\ left \in [Nodes -> 0 .. Limit]
  /\ got \in [Nodes -> {"nothing", "part", "whole"}]
  /\ heard \in [Nodes -> {"no", "part", "early", "late", "broken", "closed"}]
  /\ ready \in [Nodes -> {"no", "data", "expiry", "error", "eof"}]
  /\ \A n, m \in spinning : n = m /\ n \in Nodes
  /\ spun \in BOOLEAN
  /\ entry \in [Nodes -> Entries]
  /\ outcome \in {"none", "answered", "raised"}

Init ==
  /\ KeyringInit
  /\ \E c \in Cases : tool = c[1] /\ logins = c[2]
  /\ stage = [n \in Nodes |-> "dial"]
  /\ call = [n \in Nodes |-> 1]
  /\ left = [n \in Nodes |-> Limit]
  /\ got = [n \in Nodes |-> "nothing"]
  /\ heard = [n \in Nodes |-> "no"]
  /\ ready = [n \in Nodes |-> "no"]
  /\ spinning = {}
  /\ spun = FALSE
  /\ entry = [n \in Nodes |-> "none"]
  /\ outcome = "none"

Waiting(n) == stage[n] # "end" /\ \A l \in blocked : l.account.node # n

\* connect() has no deadline of its own.
Timed(n) == Waiting(n) /\ stage[n] # "dial"

\* The waits of _read_until_idle; the others end with the text they look for.
Idling(n) == stage[n] \in {"drain", "sys", "verdict", "reply"}

(***************************************************************************)
(* The nodes                                                               *)
(***************************************************************************)
\* How long the lookups of all other sessions may hold the loop.
Slack == (Cardinality(Nodes) - 1) * KT

Sends(n, what) ==
  /\ Waiting(n) /\ heard[n] = "no"
  /\ heard' = [heard EXCEPT ![n] = what]
  /\ UNCHANGED <<keyring, config, stage, call, left, got, ready, spinning, spun,
                 entry, outcome>>

\* An echo, or what is left of a welcome text, ahead of the answer.
NodeBegins(n) == Idling(n) /\ got[n] = "nothing" /\ Sends(n, "part")

NodeAnswers(n) ==
  /\ got[n] # "whole"
  /\ Sends(n, IF left[n] > Slack THEN "early" ELSE "late")

\* What the session raises: a connection refused or reset, a login or an
\* elevation that the node rejects.
Breaks(n) == Sends(n, "broken")

\* The node closes its end.
Closes(n) == stage[n] # "dial" /\ Sends(n, "closed")

(***************************************************************************)
(* The event loop                                                          *)
(***************************************************************************)
Expired(n)  == Timed(n) /\ left[n] = 0
Pollable(n) == Waiting(n) /\ (heard[n] # "no" \/ Expired(n))

LoopFree == blocked = {} /\ spinning = {} /\ \A n \in Nodes : ready[n] = "no"

\* What an iteration may find for a session: data and an expired timer together
\* may come out either way.
Found(n) ==
  (CASE heard[n] = "no"     -> {}
     [] heard[n] = "broken" -> {"error"}
     [] heard[n] = "closed" -> {"eof"}
     [] OTHER               -> {"data"})
    \cup IF Expired(n) THEN {"expiry"} ELSE {}

\* One iteration takes up every session there is something for.
Poll ==
  /\ LoopFree
  /\ \E n \in Nodes : Pollable(n)
  /\ ready' \in [Nodes -> {"no", "data", "expiry", "error", "eof"}]
  /\ \A n \in Nodes :
       IF Pollable(n) THEN ready'[n] \in Found(n) ELSE ready'[n] = "no"
  /\ UNCHANGED <<keyring, config, stage, call, left, got, heard, spinning, spun,
                 entry, outcome>>

(***************************************************************************)
(* A session                                                               *)
(***************************************************************************)
Sessions(n) == IF tool = "find_callsign" /\ n \in Bpq THEN 2 ELSE 1

Following(n) ==
  CASE stage[n] = "dial"    -> IF n \in logins THEN "user" ELSE "drain"
    [] stage[n] = "user"    -> "drain"
    [] stage[n] = "drain"   -> IF n \in Bpq THEN "sys" ELSE "reply"
    [] stage[n] = "sys"     -> "verdict"
    [] stage[n] = "verdict" -> "reply"
    [] stage[n] = "reply"   -> IF call[n] < Sessions(n) THEN "dial" ELSE "end"
    [] OTHER                -> "end"

\* A stream that is closed stays closed, and what is written to it may fail.
StillClosed(n, next) ==
  IF heard[n] = "closed" /\ next \notin {"dial", "end"}
  THEN {"closed", "broken"}
  ELSE {"no"}

\* The session goes on to a later wait.
MoveTo(n, next) ==
  /\ stage' = [stage EXCEPT ![n] = next]
  /\ call' = [call EXCEPT ![n] = IF next = "dial" THEN 2 ELSE @]
  /\ left' = [left EXCEPT ![n] = Limit]
  /\ got' = [got EXCEPT ![n] = "nothing"]
  /\ heard' \in {[heard EXCEPT ![n] = h] : h \in StillClosed(n, next)}
  /\ ready' = [ready EXCEPT ![n] = "no"]
  /\ spinning' = spinning \ {n}
  /\ entry' = [entry EXCEPT ![n] = IF next = "end" THEN "found" ELSE @]
  /\ UNCHANGED <<config, spun, outcome>>

Advance(n) == MoveTo(n, Following(n))

\* Variant: a timeout is caught, another error ends the sweep.
EscapesUnlessTimeout(n) ==
  outcome' = IF ready[n] = "expiry" THEN outcome ELSE "raised"

\* Every exception of _one is caught.
Caught(n) == outcome' = outcome

\* The session ends; its error is its node's entry.
Fail(n) ==
  /\ stage' = [stage EXCEPT ![n] = "end"]
  /\ left' = [left EXCEPT ![n] = Limit]
  /\ got' = [got EXCEPT ![n] = "nothing"]
  /\ heard' = [heard EXCEPT ![n] = "no"]
  /\ ready' = [ready EXCEPT ![n] = "no"]
  /\ spinning' = spinning \ {n}
  /\ entry' = [entry EXCEPT ![n] = "error"]
  /\ Caught(n)
  /\ UNCHANGED <<config, call, spun>>

Asks(n) == stage[n] \in {"user", "sys"}

LookupOf(n) == [account |-> [node |-> n, kind |-> stage[n]], call |-> call[n]]

\* A prompt: the password is looked up, and the loop stands still.
Ask(n) ==
  /\ StartLookup(LookupOf(n))
  /\ ready' = [ready EXCEPT ![n] = "no"]
  /\ spinning' = spinning \ {n}
  /\ UNCHANGED <<config, stage, call, left, got, heard, spun, entry, outcome>>

\* A piece is read: the wait ends when nothing follows for Idle, or at once if
\* it should be over.
Collect(n) ==
  /\ got' = [got EXCEPT ![n] = IF heard[n] = "part" THEN "part" ELSE "whole"]
  /\ left' \in {[left EXCEPT ![n] = t] : t \in {Idle} \cup ({left[n]} \cap {0})}
  /\ heard' = [heard EXCEPT ![n] = "no"]
  /\ ready' = [ready EXCEPT ![n] = "no"]
  /\ UNCHANGED <<config, stage, call, spinning, spun, entry, outcome>>

\* Where a coroutine that does not wait for anything does not yield (wait_for of
\* Python 3.12), the reads of a closed stream hold the loop until the wait ends;
\* where it does, a closed stream is a silent one.
Spin(n) ==
  /\ spinning' = {n}
  /\ spun' = TRUE
  /\ ready' = [ready EXCEPT ![n] = "no"]
  /\ UNCHANGED <<config, stage, call, left, got, heard, entry, outcome>>

\* A prompt, a challenge or a verdict that has not come is an error, a welcome
\* text or a reply that has not an empty one.  BPQ may call the session
\* privileged already: "Ok" without a challenge.
EndWait(n) ==
  \/ stage[n] = "user" /\ Fail(n) /\ UNCHANGED keyring
  \/ /\ stage[n] \in {"sys", "verdict"} /\ got[n] # "whole"
     /\ Fail(n) /\ UNCHANGED keyring
  \/ stage[n] = "sys" /\ got[n] = "whole" /\ Ask(n)
  \/ /\ stage[n] = "sys" /\ got[n] = "whole"
     /\ MoveTo(n, "reply") /\ UNCHANGED keyring
  \/ /\ stage[n] = "verdict" /\ got[n] = "whole"
     /\ Advance(n) /\ UNCHANGED keyring
  \/ stage[n] \in {"drain", "reply"} /\ Advance(n) /\ UNCHANGED keyring

\* The loop runs one session.
Resume(n) ==
  /\ blocked = {} /\ spinning = {}
  /\ \/ ready[n] = "error" /\ Fail(n) /\ UNCHANGED keyring
     \/ ready[n] = "expiry" /\ EndWait(n)
     \/ ready[n] = "eof" /\ Spin(n) /\ UNCHANGED keyring
     \/ ready[n] = "data" /\ stage[n] = "dial" /\ Advance(n) /\ UNCHANGED keyring
     \/ ready[n] = "data" /\ stage[n] = "user" /\ Ask(n)
     \/ ready[n] = "data" /\ Idling(n) /\ Collect(n) /\ UNCHANGED keyring

StopSpin(n) ==
  /\ n \in spinning
  /\ left[n] = 0
  /\ EndWait(n)

\* The lookup ends: the password is sent, or LookupError ends the session.
Answer(n) ==
  /\ Asks(n)
  /\ EndLookup(LookupOf(n))
  /\ IF Password(LookupOf(n)) = {} THEN Fail(n) ELSE Advance(n)

\* gather returns when the last session has ended.
Gather ==
  /\ outcome = "none"
  /\ \A n \in Nodes : stage[n] = "end"
  /\ outcome' = "answered"
  /\ UNCHANGED <<keyring, config, sessions>>

\* Time passes while the loop is held, or has nothing to do.
Tick ==
  /\ \/ /\ \E l \in blocked : ~Answered(l) /\ wait > 0
        /\ wait' = wait - 1
     \/ /\ \E n \in spinning : left[n] > 0
        /\ wait' = wait
     \/ /\ LoopFree /\ \A n \in Nodes : ~Pollable(n)
        /\ \E n \in Nodes : Timed(n)
        /\ wait' = wait
  /\ left' = [n \in Nodes |-> IF Timed(n) /\ left[n] > 0 THEN left[n] - 1
                              ELSE left[n]]
  /\ UNCHANGED <<thread, queue, blocked, sent>>
  /\ UNCHANGED <<config, stage, call, got, heard, ready, spinning, spun, entry>>
  /\ UNCHANGED outcome

KeychainThread(l) ==
  /\ KeychainAnswers(l)
  /\ UNCHANGED <<config, sessions, outcome>>

Loop == Poll \/ Gather \/ \E n \in Nodes : Resume(n) \/ StopSpin(n) \/ Answer(n)

NodeActs(n) == NodeBegins(n) \/ NodeAnswers(n) \/ Breaks(n) \/ Closes(n)

Returned == outcome # "none" /\ UNCHANGED vars

Next ==
  \/ Loop \/ Tick \/ Returned
  \/ \E n \in Nodes : NodeActs(n)
  \/ \E l \in Lookups : KeychainThread(l)

Spec == Init /\ [][Next]_vars

\* The loop runs, time passes, and the system gives up a connect in the end;
\* neither a node nor the keychain owes an answer.
FairSpec ==
  /\ Spec
  /\ WF_vars(Loop) /\ WF_vars(Tick)
  /\ \A n \in Nodes :
       WF_vars(stage[n] = "dial" /\ (NodeAnswers(n) \/ Breaks(n)))

(***************************************************************************)
(* Properties                                                              *)
(***************************************************************************)
\* However long the keychain hangs, a node loses no answer that comes with more
\* time left to the end of the read than the lookups of the other sessions take,
\* unless a closed stream has held the loop.  (Once a piece is read, the end of
\* the read is that of its silence: then a lookup may well cost the answer.)
Blameless ==
  ~spun => \A n \in Nodes : heard[n] = "early" => ready[n] # "expiry"

\* server.py:1595, one node failing must not abort the sweep: what is returned
\* has the entry of every node, and no session is left running behind it.
AnswerWhole ==
  outcome # "none" =>
    \A n \in Nodes : stage[n] = "end" /\ entry[n] # "none"

\* DESIGN.md:172, a hung keychain cannot wedge the server: the sweep answers,
\* though no node and no keychain thread ever does.
SweepAnswers == <>(outcome # "none")
=============================================================================
