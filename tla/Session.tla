------------------------------ MODULE Session ------------------------------
(* One tool call on a node with a telnet console: the life of one            *)
(* XnetTransport or BpqTransport inside `async with open_transport(...)`:    *)
(* connect and log in, elevate if the tool needs the sysop prompt, run one   *)
(* command or capture a window, send BYE and close.                          *)
(*                                                                           *)
(* The node and the byte stream are the environment.  A chunk is what one    *)
(* read returns; it carries the line it answers and what its text is.  The   *)
(* patterns of the code are loose, so free text may match one as well.       *)
EXTENDS Sequences

Kinds == {"xnet", "bpq"}
Tools == {"user", "sys", "capture"}

\* Patterns searched in all that a read has collected: LOGIN_FAILED, the
\* challenge, BPQ_OK_REPLY and the markers of a refused elevation.
Patterns == {"loginFailed", "challenge", "ok", "rejected"}

\* What a call is made against.  ssh: the node is behind a jump host; login:
\* login_required; silent: the node gives no sign of a wrong SYS answer;
\* punctual: the node has always said all it has to say about a line before an
\* idle window or a deadline passes; words: the patterns its free text happens
\* to match, like a welcome with five numbers or an "ok" in it; told: only its
\* welcome text does, not its prompt or what it says to a word it does not know.
Calls == [kind : Kinds, tool : Tools, ssh : BOOLEAN, login : BOOLEAN,
          silent : BOOLEAN, punctual : BOOLEAN, words : SUBSET Patterns,
          told : BOOLEAN]

\* Lines the transport sends.
Lines == {"user", "password", "elevate", "answer", "cmd", "bye"}

\* What a chunk of the node's text is.
Texts == {"loginPrompt", "passwordPrompt", "loginFailed", "banner", "prompt",
          "challenge", "ok", "rejected", "output"}

Chunks == [of : Lines \cup {"connect"}, text : Texts]

\* A line executed, and the prompt at which it was.
Executions == [line : Lines, mode : {"user", "sys"}]

Channels(c) == IF c.ssh THEN {"ssh", "tcp"} ELSE {"tcp"}

VARIABLES
  call,       \* the call being made, one of Calls
  pc,         \* where the coroutine is suspended
  chan,       \* open channels: "ssh" (_ssh) and "tcp" (_writer)
  sysActive,  \* _sys_active
  buf,        \* chunks collected by the read in progress, or by the last one
  result,     \* how the call ends
  net,        \* chunks the node has sent and the transport has not read
  sent,       \* lines the node has not read
  mode,       \* what the node takes the next line for
  log         \* commands the node has executed, each with the mode it was in

client == <<call, pc, chan, sysActive, buf, result>>
node   == <<mode, log>>
vars   == <<call, pc, chan, sysActive, buf, result, net, sent, mode, log>>

Connecting == {"start", "dial", "login", "password", "banner"}
Prompting  == {"login", "password"}
Listening  == {"banner", "challenge", "verdict", "reply", "window"}
PCs        == Connecting \cup {"ready", "challenge", "verdict", "reply",
                               "window", "exit", "closing", "done"}

\* "unconnected": connect() raised, so __aexit__ does not run; "error": the
\* body raised; "cancelled": the tool call's task was cancelled.
Results == {"none", "output", "unconnected", "error", "cancelled"}
Modes   == {"off", "login", "password", "user", "challenge", "sys"}

TypeOK ==
  /\ call \in Calls
  /\ pc \in PCs
  /\ chan \subseteq Channels(call)
  /\ sysActive \in BOOLEAN
  /\ buf \subseteq Chunks
  /\ result \in Results
  /\ net \in Seq(Chunks)
  /\ sent \in Seq(Lines)
  /\ mode \in Modes
  /\ log \in Seq(Executions)

Elevates == call.tool \in {"sys", "capture"}

\* The patterns that the methods of this call search.
Searched ==
  (IF call.login THEN {"loginFailed"} ELSE {})
    \cup (IF Elevates THEN {"challenge", "rejected"} ELSE {})
    \cup (IF Elevates /\ call.kind = "bpq" THEN {"ok"} ELSE {})

\* A BPQ node must say Ok: there a silent refusal is no case of its own.
Init ==
  /\ call \in Calls
  /\ call.kind = "bpq" => ~call.silent
  /\ call.words \subseteq Searched
  /\ call.words = {} => call.told
  /\ pc = "start"
  /\ chan = {}
  /\ sysActive = FALSE
  /\ buf = {}
  /\ result = "none"
  /\ net = <<>>
  /\ sent = <<>>
  /\ mode = "off"
  /\ log = <<>>

(***************************************************************************)
(* Sending, reading and failing                                            *)
(***************************************************************************)
Up == mode # "off"

FreeTexts == {"banner"} \cup IF call.told THEN {} ELSE {"prompt", "output"}

\* A pattern is found in text that is meant, or in free text that matches it.
Finds(chunks, pattern) ==
  \E c \in chunks :
    c.text = pattern \/ (c.text \in FreeTexts /\ pattern \in call.words)

\* _send_line: what is written to a dead link is lost.
Send(line) == sent' = IF Up THEN Append(sent, line) ELSE sent

\* An exception leaves connect() without __aexit__, the body through it.
Raise(how) ==
  IF pc \in Connecting
  THEN /\ pc' = "done"
       /\ result' = IF how = "error" THEN "unconnected" ELSE how
  ELSE /\ pc' = "exit"
       /\ result' = how

Fail ==
  /\ Raise("error")
  /\ UNCHANGED <<call, chan, sysActive, buf, net, sent, node>>

\* A read may run out of time.
MayExpire == call.punctual => net = <<>> /\ (sent = <<>> \/ ~Up)

\* _read_until_idle returns: an idle gap after the first chunk, or max_wait_s.
IdleGap  == buf # {} /\ MayExpire
Deadline == MayExpire
\* Variant: the read waits for a first chunk without a deadline.
ReadOverAtGap == IdleGap

ReadOver == IdleGap \/ Deadline

(***************************************************************************)
(* connect()                                                               *)
(***************************************************************************)
\* Variant: the jump host is opened for a node without one.
OpenSshAlways ==
  /\ pc = "start"
  /\ chan' = {"ssh"}
  /\ pc' = "dial"
  /\ UNCHANGED <<call, sysActive, buf, result, net, sent, node>>

\* The jump host answers, or asyncssh.connect raises.
OpenSsh ==
  /\ pc = "start"
  /\ IF call.ssh
     THEN \/ /\ chan' = {"ssh"}
             /\ pc' = "dial"
             /\ UNCHANGED <<call, sysActive, buf, result, net, sent, node>>
          \/ Fail
     ELSE /\ pc' = "dial"
          /\ UNCHANGED <<call, chan, sysActive, buf, result, net, sent, node>>

\* open_connection succeeds and the node greets, or it raises.
OpenTelnet ==
  /\ pc = "dial"
  /\ \/ /\ chan' = chan \cup {"tcp"}
        /\ IF call.login
           THEN /\ pc' = "login"
                /\ mode' = "login"
                /\ net' = <<[of |-> "connect", text |-> "banner"],
                            [of |-> "connect", text |-> "loginPrompt"]>>
           ELSE /\ pc' = "banner"
                /\ mode' = "user"
                /\ net' = <<[of |-> "connect", text |-> "banner"],
                            [of |-> "connect", text |-> "prompt"]>>
        /\ UNCHANGED <<call, sysActive, buf, result, sent, log>>
     \/ Fail

\* _read_until keeps what does not match yet.
ReadPastPrompt ==
  /\ pc \in Prompting
  /\ net # <<>>
  /\ Head(net).text # (IF pc = "login" THEN "loginPrompt" ELSE "passwordPrompt")
  /\ buf' = buf \cup {Head(net)}
  /\ net' = Tail(net)
  /\ UNCHANGED <<call, pc, chan, sysActive, result, sent, node>>

SendUser ==
  /\ pc = "login"
  /\ net # <<>>
  /\ Head(net).text = "loginPrompt"
  /\ net' = Tail(net)
  /\ Send("user")
  /\ buf' = {}
  /\ pc' = "password"
  /\ UNCHANGED <<call, chan, sysActive, result, node>>

\* Variant: the banner after the password is not drained.
PasswordWithoutDrain ==
  /\ pc = "password"
  /\ net # <<>>
  /\ Head(net).text = "passwordPrompt"
  /\ net' = Tail(net)
  /\ Send("password")
  /\ buf' = {}
  /\ pc' = "ready"
  /\ UNCHANGED <<call, chan, sysActive, result, node>>

\* The password may be missing from keyring and file (LookupError).
SendPassword ==
  /\ pc = "password"
  /\ net # <<>>
  /\ Head(net).text = "passwordPrompt"
  /\ \/ /\ net' = Tail(net)
        /\ Send("password")
        /\ buf' = {}
        /\ pc' = "banner"
        /\ UNCHANGED <<call, chan, sysActive, result, node>>
     \/ Fail

NoPrompt ==
  /\ pc \in Prompting
  /\ MayExpire
  /\ Fail

\* Variant: the failure markers are not looked for.
RefusalIgnored(chunks) == FALSE

LoginRefused(chunks) == call.login /\ Finds(chunks, "loginFailed")

EndLogin ==
  /\ pc = "banner"
  /\ ReadOver
  /\ IF LoginRefused(buf)
     THEN Fail
     ELSE /\ pc' = "ready"
          /\ UNCHANGED <<call, chan, sysActive, buf, result, net, sent, node>>

(***************************************************************************)
(* elevate_sys()                                                           *)
(***************************************************************************)
SendElevate ==
  /\ pc = "ready"
  /\ Elevates /\ ~sysActive
  /\ Send("elevate")
  /\ buf' = {}
  /\ pc' = "challenge"
  /\ UNCHANGED <<call, chan, sysActive, result, net, node>>

\* Variant: whatever comes back is taken for a challenge.
AnyReply(chunks) == chunks # {}

\* What the transport reads as a challenge.
Challenged(chunks) == Finds(chunks, "challenge")

\* No password, or a position past its end, raises.
AnswerChallenge ==
  /\ pc = "challenge"
  /\ ReadOver
  /\ Challenged(buf)
  /\ \/ /\ Send("answer")
        /\ buf' = {}
        /\ pc' = "verdict"
        /\ UNCHANGED <<call, chan, sysActive, result, net, node>>
     \/ Fail

\* BPQ says Ok to a session it trusts; anything else raises.
NoChallenge ==
  /\ pc = "challenge"
  /\ ReadOver
  /\ ~Challenged(buf)
  /\ IF call.kind = "bpq" /\ Finds(buf, "ok")
     THEN /\ sysActive' = TRUE
          /\ pc' = "ready"
          /\ UNCHANGED <<call, chan, buf, result, net, sent, node>>
     ELSE Fail

\* Variant: no Ok is asked for.
AcceptedUnlessRejected(kind, chunks) == ~Finds(chunks, "rejected")

\* BPQ wants an Ok and no refusal, (X)Net only looks for a refusal.
Accepted(kind, chunks) ==
  /\ ~Finds(chunks, "rejected")
  /\ kind = "bpq" => Finds(chunks, "ok")

EndElevate ==
  /\ pc = "verdict"
  /\ ReadOver
  /\ IF Accepted(call.kind, buf)
     THEN /\ sysActive' = TRUE
          /\ pc' = "ready"
          /\ UNCHANGED <<call, chan, buf, result, net, sent, node>>
     ELSE Fail

(***************************************************************************)
(* run_command(), capture() and the reads they share with the login        *)
(***************************************************************************)
RunCommand ==
  /\ pc = "ready"
  /\ Elevates => sysActive
  /\ Send("cmd")
  /\ buf' = {}
  /\ pc' = IF call.tool = "capture" THEN "window" ELSE "reply"
  /\ UNCHANGED <<call, chan, sysActive, result, net, node>>

ReadMore ==
  /\ pc \in Listening
  /\ net # <<>>
  /\ buf' = buf \cup {Head(net)}
  /\ net' = Tail(net)
  /\ UNCHANGED <<call, pc, chan, sysActive, result, sent, node>>

EndCommand ==
  /\ pc = "reply"
  /\ ReadOver
  /\ result' = "output"
  /\ pc' = "exit"
  /\ UNCHANGED <<call, chan, sysActive, buf, net, sent, node>>

\* The window of capture() is over, whatever has arrived.
EndCapture ==
  /\ pc = "window"
  /\ result' = "output"
  /\ pc' = "exit"
  /\ UNCHANGED <<call, chan, sysActive, buf, net, sent, node>>

\* A read or a drain of a dead link may raise ConnectionError.
LinkError ==
  /\ pc \in Prompting \cup Listening
  /\ ~Up
  /\ Fail

(***************************************************************************)
(* disconnect()                                                            *)
(***************************************************************************)
SayBye ==
  /\ pc = "exit"
  /\ Send("bye")
  /\ pc' = "closing"
  /\ UNCHANGED <<call, chan, sysActive, buf, result, net, node>>

\* Variant: a failed BYE ends disconnect() early.
CloseUnlessByeFails ==
  /\ pc = "closing"
  /\ chan' = IF Up THEN {} ELSE chan
  /\ sysActive' = FALSE
  /\ net' = <<>>
  /\ pc' = "done"
  /\ UNCHANGED <<call, buf, result, sent, node>>

\* Two seconds for BYE, an exception of it swallowed, then both channels.
Close ==
  /\ pc = "closing"
  /\ chan' = {}
  /\ sysActive' = FALSE
  /\ net' = <<>>
  /\ pc' = "done"
  /\ UNCHANGED <<call, buf, result, sent, node>>

\* The task is cancelled in an await: CancelledError passes every handler, and
\* in disconnect() skips writer.close(); the SSH connection closes in finally,
\* which takes a tunnelled channel with it.
Cancel ==
  \/ /\ pc \in Prompting \cup Listening \cup {"start", "dial"}
     /\ Raise("cancelled")
     /\ UNCHANGED <<call, chan, sysActive, buf, net, sent, node>>
  \/ /\ pc = "closing"
     /\ result' = "cancelled"
     /\ chan' = IF call.ssh THEN {} ELSE chan
     /\ sysActive' = FALSE
     /\ pc' = "done"
     /\ UNCHANGED <<call, buf, net, sent, node>>

(***************************************************************************)
(* The node                                                                *)
(***************************************************************************)
Reply(line, texts) ==
  net' = IF "tcp" \in chan
         THEN net \o [i \in DOMAIN texts |-> [of |-> line, text |-> texts[i]]]
         ELSE net

Hears(line) ==
  /\ Up
  /\ sent # <<>>
  /\ Head(sent) = line
  /\ sent' = Tail(sent)

\* At the login prompt any line is a user name.
NodeAsksPassword ==
  \E line \in Lines :
    /\ mode = "login"
    /\ Hears(line)
    /\ mode' = "password"
    /\ Reply(line, <<"passwordPrompt">>)
    /\ UNCHANGED <<client, log>>

NodeChecksPassword ==
  \E line \in Lines :
    /\ mode = "password"
    /\ Hears(line)
    /\ \/ /\ line = "password"
          /\ mode' = "user"
          /\ Reply(line, <<"banner", "prompt">>)
       \/ /\ mode' = "login"
          /\ Reply(line, <<"loginFailed", "loginPrompt">>)
    /\ UNCHANGED <<client, log>>

\* The node challenges, or (BPQ) trusts the session, or does not know the word.
NodeChallenges ==
  /\ mode \in {"user", "sys"}
  /\ Hears("elevate")
  /\ \/ mode' = "challenge" /\ Reply("elevate", <<"challenge">>)
     \/ /\ call.kind = "bpq"
        /\ mode' = "sys"
        /\ Reply("elevate", <<"ok">>)
     \/ mode' = mode /\ Reply("elevate", <<"output">>)
  /\ UNCHANGED <<client, log>>

\* Any line is an answer now; a wrong one returns to the user prompt.
NodeChecksAnswer ==
  \E line \in Lines :
    /\ mode = "challenge"
    /\ Hears(line)
    /\ \/ /\ line = "answer"
          /\ mode' = "sys"
          /\ Reply(line, <<IF call.kind = "bpq" THEN "ok" ELSE "prompt">>)
       \/ /\ mode' = "user"
          /\ Reply(line, <<IF call.silent THEN "prompt" ELSE "rejected">>)
    /\ UNCHANGED <<client, log>>

\* Everything else typed at a prompt is a command, the reply comes in bursts.
NodeExecutes ==
  \E line \in Lines \ {"elevate", "bye"} :
    /\ mode \in {"user", "sys"}
    /\ Hears(line)
    /\ log' = Append(log, [line |-> line, mode |-> mode])
    /\ Reply(line, <<"output", "prompt">>)
    /\ UNCHANGED <<client, mode>>

NodeHangsUp ==
  /\ mode \in {"user", "sys"}
  /\ Hears("bye")
  /\ mode' = "off"
  /\ UNCHANGED <<client, net, log>>

\* The link dies: lines in flight are lost, chunks in flight may be.
LinkDies ==
  /\ Up
  /\ mode' = "off"
  /\ sent' = <<>>
  /\ net' \in {net, <<>>}
  /\ UNCHANGED <<client, log>>

(***************************************************************************)
(* The specification                                                       *)
(***************************************************************************)
Connect    == OpenSsh \/ OpenTelnet \/ ReadPastPrompt \/ SendUser
                \/ SendPassword \/ NoPrompt \/ EndLogin
Elevate    == SendElevate \/ AnswerChallenge \/ NoChallenge \/ EndElevate
Run        == RunCommand \/ ReadMore \/ EndCommand \/ EndCapture
Disconnect == SayBye \/ Close
Transport  == Connect \/ Elevate \/ Run \/ Disconnect

Node == NodeAsksPassword \/ NodeChecksPassword \/ NodeChallenges
          \/ NodeChecksAnswer \/ NodeExecutes \/ NodeHangsUp \/ LinkDies

Returned == pc = "done" /\ UNCHANGED vars

Next == Transport \/ LinkError \/ Cancel \/ Node \/ Returned

Spec == Init /\ [][Next]_vars

\* Every await of the transport ends: the reads and BYE have deadlines and a
\* dial ends with the operating system's or asyncssh's.  Of the node nothing.
FairSpec == Spec /\ WF_vars(Transport)

(***************************************************************************)
(* Properties                                                              *)
(***************************************************************************)

\* What run_command or capture returns is the node's reply to this command and
\* holds nothing of the banner, the login or the elevation before it.  Needs a
\* punctual node: idle windows cannot tell a pause from the end of a reply.
OutputIsOwn ==
  call.punctual /\ result = "output" => \A c \in buf : c.of = "cmd"

\* Text returned as output comes from a node that executed the command, not
\* from one that took it for a user name, a password or an answer.  As above,
\* the node must be punctual.
OutputMeansRun ==
  call.punctual /\ result = "output" /\ buf # {} => \E i \in DOMAIN log : log[i].line = "cmd"

\* No free text an elevation may read is taken for what the pattern means: none
\* matches, or it is the welcome text of a node that has said it in time.
Unmistaken(pattern) ==
  pattern \notin call.words \/ (call.punctual /\ call.told)

\* Whose word on the elevation can be relied on.  A BPQ node must say Ok, so
\* nothing that is late or lost matters unless other text may hold an "ok";
\* (X)Net must reject aloud and in time, and not be answered for a challenge
\* that is none.
Trusted ==
  IF call.kind = "bpq"
  THEN Unmistaken("ok")
  ELSE call.punctual /\ ~call.silent /\ Unmistaken("challenge")

\* A tool that elevates has its command executed at the sysop prompt only, of
\* every node that can be relied on.
RunsElevated ==
  Elevates /\ Trusted =>
    \A i \in DOMAIN log : log[i].line = "cmd" => log[i].mode = "sys"

\* The user password is never executed, and so echoed or logged, as a command;
\* nor is an answer made of the sys password, unless late or free text can be
\* mistaken for a challenge.
NoSecretRun ==
  \A i \in DOMAIN log :
    /\ log[i].line # "password"
    /\ Unmistaken("challenge") => log[i].line # "answer"

\* The call as ToolCall knows it.
CommandRuns == {i \in DOMAIN log : log[i].line = "cmd"}

TC == INSTANCE ToolCall WITH
        allowed    <- TRUE,
        returned   <- pc = "done",
        open       <- result # "unconnected" /\ (chan # {} \/ sysActive),
        left       <- result = "unconnected" /\ chan # {},
        runs       <- CommandRuns,
        outcome    <- IF pc = "done" THEN result ELSE "none"

\* Whatever is lost, late or cancelled, the command is executed once at most,
\* and a call that got past connect() ends with its channels closed and SYS
\* dropped, even when BYE fails.
KeepsToolCall == TC!Spec

\* DESIGN.md 2.3: each tool call tears its transport down (`async with`).
ClosedOnReturn == pc = "done" => chan = {}

\* Every tool call returns, whatever the node does or fails to do.  (Of a node
\* that is punctual nothing says that it answers at all; one that is not covers
\* everything it may do.)
CallReturns == ~call.punctual => <>(pc = "done")
=============================================================================
