------------------------------- MODULE Chain -------------------------------
(* One session of Ax25ChainedTransport: from a base node already logged in   *)
(* to (Session models the login), walk the AX.25 hops with one `C` command   *)
(* each, then work at the target and tear down.                              *)
(*                                                                           *)
(* Positions 0..Hops are the nodes of the path, 0 the base and Hops the      *)
(* target.  The terminal is at one of them at any time: what the transport   *)
(* types is read there, wherever the transport believes it is.               *)
EXTENDS Naturals, Sequences

CONSTANT Hops   \* length of connect_commands

ASSUME HopsAssumption == Hops \in Nat \ {0}

Positions == 0 .. Hops
Works     == {"user", "sys", "remote"}   \* _run_user, _run_sys, remote_run

\* How the path behaves.  punctual: replies are complete before a read gives up
\* on them; stable: no AX.25 link drops while the session lasts; named: what the
\* nodes say of a connection, and their prompts, carry their family's name.
Paths == [punctual : BOOLEAN, stable : BOOLEAN, named : BOOLEAN]

\* What a welcome text may hold: words of the connect banner, and what only
\* probe_family or only elevate_sys looks for.
Welcomes == {"motd", "signature", "connected", "challenge"}

\* A line sent; `to` is the hop of a C command.
Lines  == [verb : {"C", "version", "cmd", "elevate", "answer", "bye"},
           to : Positions]
Line(verb) == [verb |-> verb, to |-> 0]

\* A chunk: the verb it answers, the node it comes from, what its text holds.
Texts  == {"connected", "failed", "motd", "signature", "challenge", "rejected",
           "prompt", "output"}
Chunks == [of : {"C", "version", "cmd", "elevate", "answer", "bye", "drop"},
           from : Positions, text : Texts]

VARIABLES
  work,       \* what the session is for
  motdText,   \* what the nodes' welcome text holds
  path,       \* how the path behaves
  pc,         \* where the coroutine is suspended
  hop,        \* the hop being connected
  open,       \* the channels are open
  sysActive,  \* _sys_active
  buf,        \* chunks collected by the read in progress, or by the last one
  motd,       \* motd
  family,     \* the nodes the recognised family may be that of, {} if unknown
  result,     \* how the session ends
  net,        \* chunks sent and not read by the transport
  sent,       \* lines sent and not read by a node
  up,         \* the base still serves the session
  at,         \* where the terminal is
  asked,      \* the node there takes the next line for an answer
  log         \* lines executed or taken as an answer, each with its node

config == <<work, motdText, path>>
client == <<config, pc, hop, open, sysActive, buf, motd, family, result>>
nodes  == <<up, at, asked, log>>
vars   == <<client, net, sent, nodes>>

Connecting == {"hop", "banner", "drain"}
Listening  == {"banner", "drain", "version", "challenge", "verdict", "reply"}
PCs        == Connecting \cup Listening
                \cup {"connected", "ready", "exit", "bye", "closing", "done"}

TypeOK ==
  /\ work \in Works
  /\ motdText \in Welcomes
  /\ path \in Paths
  /\ pc \in PCs
  /\ hop \in 1 .. Hops
  /\ open \in BOOLEAN
  /\ sysActive \in BOOLEAN
  /\ buf \subseteq Chunks
  /\ motd \subseteq Chunks
  /\ family \subseteq Positions
  /\ result \in {"none", "output", "unconnected", "error", "cancelled"}
  /\ net \in Seq(Chunks)
  /\ sent \in Seq(Lines)
  /\ up \in BOOLEAN
  /\ at \in Positions
  /\ asked \in BOOLEAN
  /\ log \in Seq([verb : {"version", "cmd", "answer"}, node : Positions])

\* The base login is over and its banner drained.
Init ==
  /\ work \in Works
  /\ motdText \in Welcomes
  /\ motdText = "signature" => work = "remote"
  /\ motdText = "challenge" => work = "sys"
  /\ path \in Paths
  /\ path.named => work = "remote"
  /\ pc = "hop"
  /\ hop = 1
  /\ open = TRUE
  /\ sysActive = FALSE
  /\ buf = {} /\ motd = {} /\ family = {}
  /\ result = "none"
  /\ net = <<>> /\ sent = <<>>
  /\ up = TRUE /\ at = 0 /\ asked = FALSE
  /\ log = <<>>

(***************************************************************************)
(* Sending, reading and failing                                            *)
(***************************************************************************)
Holds(chunks, text) == \E c \in chunks : c.text = text

Send(line) == sent' = IF up THEN Append(sent, line) ELSE sent

\* A read may run out of time.
MayExpire == path.punctual => net = <<>> /\ (sent = <<>> \/ ~up)

\* connect() raises and disconnect() is skipped.
Unconnected ==
  /\ result' = "unconnected"
  /\ pc' = "done"
  /\ UNCHANGED <<config, hop, open, sysActive, buf, motd, family, net, sent,
                 nodes>>

\* An error that disconnect() follows.
Failed ==
  /\ result' = "error"
  /\ pc' = "exit"
  /\ UNCHANGED <<config, hop, open, sysActive, buf, motd, family, net, sent,
                 nodes>>

\* `async with` skips disconnect() where connect() raises; remote_run calls it
\* for the errors it catches.  Those of the body pass through it.
Fail == IF pc \in Connecting /\ work # "remote" THEN Unconnected ELSE Failed

\* An error of asyncssh, of a base behind a jump host: remote_run does not
\* catch it when it connects, probe_family does not swallow it.
Escape == IF pc \in Connecting THEN Unconnected ELSE Failed

(***************************************************************************)
(* connect()                                                               *)
(***************************************************************************)
SendHop ==
  /\ pc = "hop"
  /\ Send([verb |-> "C", to |-> hop])
  /\ buf' = {}
  /\ pc' = "banner"
  /\ UNCHANGED <<config, hop, open, sysActive, motd, family, result, net, nodes>>

\* CONNECTED_BANNER: a welcome text may hold the words, too.
ConnectBanner(chunk) == chunk.text = "connected"

\* CONNECT_FAILED, looked for in what arrived up to the banner.
ConnectFailed(chunks) == Holds(chunks, "failed")

ReadBanner ==
  /\ pc = "banner"
  /\ net # <<>>
  /\ IF ConnectBanner(Head(net)) /\ ConnectFailed(buf \cup {Head(net)})
     THEN Fail
     ELSE /\ buf' = buf \cup {Head(net)}
          /\ net' = Tail(net)
          /\ pc' = IF ConnectBanner(Head(net)) THEN "drain" ELSE "banner"
          /\ UNCHANGED <<config, hop, open, sysActive, motd, family, result,
                         sent, nodes>>

\* Variant: a banner that does not come is taken as read.
BannerAssumed ==
  /\ pc = "banner"
  /\ MayExpire
  /\ pc' = "drain"
  /\ UNCHANGED <<config, hop, open, sysActive, buf, motd, family, result, net,
                 sent, nodes>>

\* Variant: the wait for the banner has no end while nothing arrives.
NoBannerAfterText ==
  /\ pc = "banner"
  /\ MayExpire
  /\ buf # {}
  /\ Fail

NoBanner ==
  /\ pc = "banner"
  /\ MayExpire
  /\ Fail

\* Variant: one hop too many.
EndDrainLate ==
  /\ pc = "drain"
  /\ MayExpire
  /\ motd' = buf
  /\ IF hop <= Hops
     THEN hop' = hop + 1 /\ pc' = "hop"
     ELSE hop' = hop /\ pc' = "connected"
  /\ UNCHANGED <<config, open, sysActive, buf, family, result, net, sent, nodes>>

\* Variant: the welcome texts of all hops are kept.
EndDrainKeeping ==
  /\ pc = "drain"
  /\ MayExpire
  /\ motd' = motd \cup buf
  /\ IF hop < Hops
     THEN hop' = hop + 1 /\ pc' = "hop"
     ELSE hop' = hop /\ pc' = "connected"
  /\ UNCHANGED <<config, open, sysActive, buf, family, result, net, sent, nodes>>

\* Variant: nothing is drained.
NoDrain ==
  /\ pc = "drain"
  /\ motd' = buf
  /\ IF hop < Hops
     THEN hop' = hop + 1 /\ pc' = "hop"
     ELSE hop' = hop /\ pc' = "connected"
  /\ UNCHANGED <<config, open, sysActive, buf, family, result, net, sent, nodes>>

\* What the drain brings is kept as the welcome text and not looked at.
EndDrain ==
  /\ pc = "drain"
  /\ MayExpire
  /\ motd' = buf
  /\ IF hop < Hops
     THEN hop' = hop + 1 /\ pc' = "hop"
     ELSE hop' = hop /\ pc' = "connected"
  /\ UNCHANGED <<config, open, sysActive, buf, family, result, net, sent, nodes>>

(***************************************************************************)
(* probe_family(), elevate_sys() and run_command()                         *)
(***************************************************************************)
\* What detect_family recognises a node by.
Signatures == {"signature"} \cup IF path.named THEN {"connected", "prompt"} ELSE {}

\* detect_family: the text may mix nodes, then any of them may decide.
SignedBy(chunks) == {c.from : c \in {d \in chunks : d.text \in Signatures}}

SkipProbe ==
  /\ pc = "connected"
  /\ work # "remote"
  /\ pc' = "ready"
  /\ UNCHANGED <<config, hop, open, sysActive, buf, motd, family, result, net,
                 sent, nodes>>

ProbeMotd ==
  /\ pc = "connected"
  /\ work = "remote"
  /\ family' = SignedBy(motd)
  /\ buf' = {}
  /\ IF family' # {}
     THEN sent' = sent /\ pc' = "ready"
     ELSE Send(Line("version")) /\ pc' = "version"
  /\ UNCHANGED <<config, hop, open, sysActive, motd, result, net, nodes>>

EndVersion ==
  /\ pc = "version"
  /\ MayExpire
  /\ family' = SignedBy(buf)
  /\ pc' = "ready"
  /\ UNCHANGED <<config, hop, open, sysActive, buf, motd, result, net, sent,
                 nodes>>

\* A failed probe leaves the family unknown; a stream that has raised yields
\* nothing more.
VersionFails ==
  /\ pc = "version"
  /\ ~up
  /\ net' = <<>>
  /\ pc' = "ready"
  /\ UNCHANGED <<config, hop, open, sysActive, buf, motd, family, result, sent,
                 nodes>>

SendElevate ==
  /\ pc = "ready"
  /\ work = "sys" /\ ~sysActive
  /\ Send(Line("elevate"))
  /\ buf' = {}
  /\ pc' = "challenge"
  /\ UNCHANGED <<config, hop, open, sysActive, motd, family, result, net, nodes>>

\* A missing or short password raises, like a missing challenge.
AnswerChallenge ==
  /\ pc = "challenge"
  /\ MayExpire
  /\ \/ /\ Holds(buf, "challenge")
        /\ Send(Line("answer"))
        /\ buf' = {}
        /\ pc' = "verdict"
        /\ UNCHANGED <<config, hop, open, sysActive, motd, family, result, net,
                       nodes>>
     \/ Fail

EndElevate ==
  /\ pc = "verdict"
  /\ MayExpire
  /\ IF Holds(buf, "rejected")
     THEN Fail
     ELSE /\ sysActive' = TRUE
          /\ pc' = "ready"
          /\ UNCHANGED <<config, hop, open, buf, motd, family, result, net, sent,
                         nodes>>

RunCommand ==
  /\ pc = "ready"
  /\ work = "sys" => sysActive
  /\ Send(Line("cmd"))
  /\ buf' = {}
  /\ pc' = "reply"
  /\ UNCHANGED <<config, hop, open, sysActive, motd, family, result, net, nodes>>

ReadMore ==
  /\ pc \in Listening \ {"banner"}
  /\ net # <<>>
  /\ buf' = buf \cup {Head(net)}
  /\ net' = Tail(net)
  /\ UNCHANGED <<config, pc, hop, open, sysActive, motd, family, result, sent,
                 nodes>>

\* Variant: an empty reply makes the transport send the command again.
EndCommandWithRetry ==
  /\ pc = "reply"
  /\ MayExpire
  /\ IF buf = {} /\ up /\ Len(sent) < 2
     THEN /\ Send(Line("cmd"))
          /\ UNCHANGED <<pc, result>>
     ELSE /\ result' = "output"
          /\ pc' = "exit"
          /\ sent' = sent
  /\ UNCHANGED <<config, hop, open, sysActive, buf, motd, family, net, nodes>>

EndCommand ==
  /\ pc = "reply"
  /\ MayExpire
  /\ result' = "output"
  /\ pc' = "exit"
  /\ UNCHANGED <<config, hop, open, sysActive, buf, motd, family, net, sent,
                 nodes>>

\* A read of a dead link raises.
LinkError ==
  /\ pc \in Listening
  /\ ~up
  /\ Escape \/ (pc # "version" /\ Fail)

(***************************************************************************)
(* disconnect()                                                            *)
(***************************************************************************)
\* One BYE for the innermost link and one, from the base class, for what is
\* left; errors of either are swallowed.
SayBye ==
  /\ pc \in {"exit", "bye"}
  /\ Send(Line("bye"))
  /\ IF pc = "exit"
     THEN pc' = "bye" /\ sysActive' = sysActive
     ELSE pc' = "closing" /\ sysActive' = FALSE
  /\ UNCHANGED <<config, hop, open, buf, motd, family, result, net, nodes>>

Close ==
  /\ pc = "closing"
  /\ open' = FALSE
  /\ net' = <<>>
  /\ pc' = "done"
  /\ UNCHANGED <<config, hop, sysActive, buf, motd, family, result, sent, nodes>>

\* The task is cancelled in an await.  CancelledError passes every handler:
\* before the body disconnect() is skipped; after the first BYE the base class's
\* disconnect() is; after the second the channels close if the base is behind a
\* jump host.
Cancel ==
  /\ pc \in Listening \cup {"bye", "closing"}
  /\ result' = "cancelled"
  /\ pc' = IF pc \in Listening \ Connecting THEN "exit" ELSE "done"
  /\ open' \in IF pc = "closing" THEN {FALSE, open} ELSE {open}
  /\ UNCHANGED <<config, hop, sysActive, buf, motd, family, net, sent, nodes>>

(***************************************************************************)
(* The nodes                                                               *)
(***************************************************************************)
Reply(verb, chunks) ==
  net' = IF open
         THEN net \o [i \in DOMAIN chunks |->
                       [of |-> verb, from |-> chunks[i][1], text |-> chunks[i][2]]]
         ELSE net

Hears(verb) ==
  /\ up
  /\ sent # <<>>
  /\ Head(sent).verb = verb
  /\ sent' = Tail(sent)

NodeConnects ==
  /\ ~asked /\ Hears("C")
  /\ at' = Head(sent).to
  /\ Reply("C", << <<at, "connected">>, <<at', motdText>> >>)
  /\ UNCHANGED <<client, up, asked, log>>

\* The link cannot be set up: the node says so, or keeps trying in silence.
NodeRefuses ==
  /\ ~asked /\ Hears("C")
  /\ Reply("C", << <<at, "failed">> >>) \/ net' = net
  /\ UNCHANGED <<client, nodes>>

NodeExecutes ==
  \E verb \in {"version", "cmd"} :
    /\ ~asked /\ Hears(verb)
    /\ log' = Append(log, [verb |-> verb, node |-> at])
    /\ IF verb = "version"
       THEN Reply(verb, << <<at, "signature">>, <<at, "prompt">> >>)
       ELSE Reply(verb, << <<at, "output">>, <<at, "prompt">> >>)
    /\ UNCHANGED <<client, up, at, asked>>

NodeChallenges ==
  /\ ~asked /\ Hears("elevate")
  /\ \/ asked' = TRUE /\ Reply("elevate", << <<at, "challenge">> >>)
     \/ asked' = FALSE /\ Reply("elevate", << <<at, "output">> >>)
  /\ UNCHANGED <<client, up, at, log>>

\* An answer nobody asked for is executed like any text.
NodeTakesAnswer ==
  /\ Hears("answer")
  /\ asked' = FALSE
  /\ log' = Append(log, [verb |-> "answer", node |-> at])
  /\ \E text \in {"prompt", "rejected"} : Reply("answer", << <<at, text>> >>)
  /\ UNCHANGED <<client, up, at>>

\* A node that waits for an answer takes any other line for a wrong one.
NodeMistakes ==
  \E verb \in {"version", "cmd", "elevate", "bye", "C"} :
    /\ asked /\ Hears(verb)
    /\ asked' = FALSE
    /\ Reply(verb, << <<at, "rejected">> >>)
    /\ UNCHANGED <<client, up, at, log>>

NodeHangsUp ==
  /\ ~asked /\ Hears("bye")
  /\ IF at = 0
     THEN up' = FALSE /\ at' = at /\ net' = net
     ELSE up' = up /\ at' = at - 1 /\ Reply("bye", << <<at - 1, "failed">> >>)
  /\ UNCHANGED <<client, asked, log>>

\* A link of the path is lost: the node before it says so and has the terminal.
HopDrops ==
  /\ ~path.stable
  /\ up /\ at > 0
  /\ at' \in 0 .. at - 1
  /\ asked' = FALSE
  /\ Reply("drop", << <<at', "failed">> >>)
  /\ UNCHANGED <<client, sent, up, log>>

\* The telnet connection to the base is lost.
LinkDies ==
  /\ up
  /\ up' = FALSE
  /\ sent' = <<>>
  /\ net' \in {net, <<>>}
  /\ UNCHANGED <<client, at, asked, log>>

(***************************************************************************)
(* The specification                                                       *)
(***************************************************************************)
Connect    == SendHop \/ ReadBanner \/ NoBanner \/ EndDrain
Work       == SkipProbe \/ ProbeMotd \/ EndVersion \/ VersionFails
                \/ SendElevate \/ AnswerChallenge \/ EndElevate \/ RunCommand \/ ReadMore
                \/ EndCommand
Disconnect == SayBye \/ Close
Transport  == Connect \/ Work \/ Disconnect

Nodes == NodeConnects \/ NodeRefuses \/ NodeExecutes \/ NodeChallenges
           \/ NodeTakesAnswer \/ NodeMistakes \/ NodeHangsUp \/ HopDrops
           \/ LinkDies

Returned == pc = "done" /\ UNCHANGED vars

Next == Transport \/ LinkError \/ Cancel \/ Nodes \/ Returned

Spec == Init /\ [][Next]_vars

\* Every await of the transport ends; of the nodes nothing is assumed.
FairSpec == Spec /\ WF_vars(Transport)

(***************************************************************************)
(* Properties                                                              *)
(***************************************************************************)
\* The words of the connect banner cannot come from a late welcome text.
BannersTold == path.punctual \/ motdText # "connected"

\* While the links hold, a command is executed, and the answer made of the
\* target's sys password taken, by the target and by no node on the way, although
\* the transport only infers where it is from banners.
RunsAtTarget ==
  path.stable /\ BannersTold => \A i \in DOMAIN log : log[i].node = Hops

\* Where the links hold and replies are complete in time, the family a remote
\* session reports is that of the target, never that of the base or of a hop the
\* path has passed.  The text kept begins with the last hop's connect line, so
\* where such lines name a family it may be that of the node that connected.
FamilyOfTarget ==
  path.stable /\ path.punctual =>
    family \subseteq {Hops} \cup IF path.named THEN {Hops - 1} ELSE {}

\* The output of the command is the command's, free of banners, welcome texts
\* and the version probe.
OutputIsOwn ==
  path.punctual /\ result = "output" => \A c \in buf : c.of \in {"cmd", "drop"}

\* The session as ToolCall knows it.
TC == INSTANCE ToolCall WITH
        allowed    <- TRUE,
        returned   <- pc = "done",
        open       <- result # "unconnected" /\ (open \/ sysActive),
        left       <- result = "unconnected" /\ open,
        runs       <- {i \in DOMAIN log : log[i].verb = "cmd"},
        outcome    <- IF pc = "done" THEN result ELSE "none"

\* On the whole path the command is executed once at most, and a session that
\* connected and is not cancelled ends closed, whatever the two BYEs meet.
KeepsToolCall == TC!Spec

\* DESIGN.md 5.3: failure markers raise, so a session that goes on to work has
\* read none while it connected.
FailureMarkersRaise ==
  BannersTold /\ pc \in {"connected", "ready"} => ~Holds(motd, "failed")

\* The session ends, whatever the nodes and the links do.  (Nodes that are not
\* punctual cover everything that those which are may do.)
SessionEnds == ~path.punctual => <>(pc = "done")
=============================================================================
