--------------------------- MODULE SessionProofs ---------------------------
(* For every call and every behaviour of node and link: a call that went     *)
(* through its body leaves nothing open, the node executes the command at    *)
(* most once, and no password is executed as a command; where the node is    *)
(* punctual, or says Ok and nothing that only looks like it, what the        *)
(* transport concludes from its text is so.                                  *)
EXTENDS Session, Naturals, SequenceTheorems, TLAPS

\* Under every loss, delay and cancellation the node executes the command at
\* most once: nothing in the transport sends it again.
AtMostOnce ==
  \A i, j \in DOMAIN log :
    log[i].line = "cmd" /\ log[j].line = "cmd" => i = j

\* Once connect() has succeeded, a call that returns or raises leaves no open
\* channel and no elevated transport behind, even when BYE fails.
ClosedAfterBody ==
  pc = "done" /\ result \in {"output", "error"} => chan = {} /\ ~sysActive

Holds(chunks, text) == \E c \in chunks : c.text = text

InNet(text) == \E i \in DOMAIN net : net[i].text = text
InSent(line) == \E i \in DOMAIN sent : sent[i] = line
Executed(line) == \E i \in DOMAIN log : log[i].line = line

\* Lines wait only for a node that is up, and BYE is the last of them.
Waiting ==
  /\ ~Up => sent = <<>>
  /\ \A i \in DOMAIN sent :
       sent[i] = "bye" => i = Len(sent) /\ pc \in {"closing", "done"}

\* The command is sent once: before, it is nowhere; after, in flight or executed.
Once ==
  /\ InSent("cmd") \/ Executed("cmd") =>
       pc \in {"reply", "window", "exit", "closing", "done"}
  /\ Executed("cmd") => ~InSent("cmd")
  /\ \A i, j \in DOMAIN sent : sent[i] = "cmd" /\ sent[j] = "cmd" => i = j
  /\ AtMostOnce

\* A password in flight is the next line the node reads, and the node waits for it.
Awaited ==
  \A i \in DOMAIN sent : sent[i] = "password" => i = 1 /\ mode = "password"

PasswordKept == \A i \in DOMAIN log : log[i].line # "password"

\* Up to the password, transport and node proceed in lockstep.
Lockstep ==
  /\ pc \in {"start", "dial"} => mode = "off" /\ sent = <<>> /\ net = <<>>
  /\ pc = "login" => ~InNet("passwordPrompt") /\ (Up => mode = "login" /\ sent = <<>>)
  /\ pc = "password" /\ Up =>
       \/ mode = "login" /\ sent = <<"user">> /\ ~InNet("passwordPrompt")
       \/ mode = "password" /\ sent = <<>>

\* Where the node has sent a challenge it waits for the answer: the transport
\* elevates once, and says nothing until it has read something.
Elevating ==
  /\ pc \in Connecting => ~sysActive
  /\ pc \in Connecting \cup {"ready"} /\ ~sysActive =>
       ~InSent("elevate") /\ ~InNet("challenge")
  /\ pc = "challenge" /\ Up =>
       \/ /\ sent # <<>> /\ sent[Len(sent)] = "elevate"
          /\ \A i \in DOMAIN sent : sent[i] = "elevate" => i = Len(sent)
          /\ ~InNet("challenge") /\ ~Holds(buf, "challenge")
       \/ /\ sent = <<>>
          /\ InNet("challenge") \/ Holds(buf, "challenge") => mode = "challenge"

Inv == TypeOK /\ Waiting /\ Once /\ Awaited /\ Lockstep /\ Elevating
             /\ PasswordKept /\ ClosedAfterBody

-----------------------------------------------------------------------------
(* Typing.                                                                   *)
LEMMA InitType == Init => TypeOK
<1> SUFFICES ASSUME Init PROVE TypeOK
  OBVIOUS
<1>1. call \in Calls
  BY DEF Init
<1>2. net \in Seq(Chunks) /\ sent \in Seq(Lines) /\ log \in Seq(Executions)
  BY DEF Init
<1> QED
  BY <1>1, <1>2 DEF Init, TypeOK, PCs, Connecting, Results, Modes

LEMMA SendType ==
  ASSUME TypeOK, NEW line \in Lines, Send(line)
  PROVE  sent' \in Seq(Lines)
  BY DEF TypeOK, Send

LEMMA ReplyType ==
  ASSUME TypeOK, NEW line \in Lines, NEW texts \in Seq(Texts), Reply(line, texts)
  PROVE  net' \in Seq(Chunks)
<1> DEFINE chunks == [i \in DOMAIN texts |-> [of |-> line, text |-> texts[i]]]
<1>1. chunks \in Seq(Chunks)
  <2>1. \A i \in DOMAIN texts : [of |-> line, text |-> texts[i]] \in Chunks
    BY DEF Chunks
  <2>2. DOMAIN texts = 1 .. Len(texts) /\ Len(texts) \in Nat
    OBVIOUS
  <2> QED
    BY <2>1, <2>2
<1>2. net \in Seq(Chunks)
  BY DEF TypeOK
<1> HIDE DEF chunks
<1>3. net \o chunks \in Seq(Chunks)
  BY <1>1, <1>2
<1> QED
  BY <1>2, <1>3 DEF Reply, chunks

LEMMA HearsType ==
  ASSUME TypeOK, NEW line, Hears(line)
  PROVE  sent' \in Seq(Lines) /\ line \in Lines
  BY DEF TypeOK, Hears

LEMMA FailType == TypeOK /\ Fail => TypeOK'
  BY DEF TypeOK, Fail, Raise, PCs, Connecting, Results, node

LEMMA TransportType == TypeOK /\ (Transport \/ LinkError \/ Cancel) => TypeOK'
<1> SUFFICES ASSUME TypeOK, Transport \/ LinkError \/ Cancel PROVE TypeOK'
  OBVIOUS
<1> USE DEF node, PCs, Results
<1>1. CASE Fail
  BY <1>1, FailType
<1>2. CASE OpenSsh /\ ~Fail
  BY <1>2 DEF TypeOK, OpenSsh, Connecting, Channels
<1>3. CASE OpenTelnet /\ ~Fail
  <2>1. net' \in Seq(Chunks)
    <3>1. \A text \in Texts : [of |-> "connect", text |-> text] \in Chunks
      BY DEF Chunks
    <3>2. PICK text \in Texts : net' = << [of |-> "connect", text |-> "banner"],
                                          [of |-> "connect", text |-> text] >>
      BY <1>3 DEF OpenTelnet, Texts
    <3>3. "banner" \in Texts
      BY DEF Texts
    <3> QED
      BY <3>1, <3>2, <3>3
  <2>2. chan' \subseteq Channels(call)
    BY <1>3 DEF TypeOK, OpenTelnet, Channels
  <2> QED
    BY <1>3, <2>1, <2>2 DEF TypeOK, OpenTelnet, Connecting, Modes
<1>4. CASE ReadPastPrompt \/ ReadMore
  <2>1. Head(net) \in Chunks /\ Tail(net) \in Seq(Chunks)
    BY <1>4 DEF TypeOK, ReadPastPrompt, ReadMore
  <2> QED
    BY <1>4, <2>1 DEF TypeOK, ReadPastPrompt, ReadMore
<1>5. CASE SendUser
  BY <1>5, SendType DEF TypeOK, SendUser, Connecting, Lines
<1>6. CASE SendPassword /\ ~Fail
  <2>1. /\ net # <<>> /\ net' = Tail(net) /\ Send("password")
        /\ buf' = {} /\ pc' = "banner"
        /\ UNCHANGED <<call, chan, sysActive, result, node>>
    BY <1>6 DEF SendPassword
  <2>2. sent' \in Seq(Lines) /\ net' \in Seq(Chunks)
    BY <2>1, SendType DEF TypeOK, Lines
  <2> QED
    BY <2>1, <2>2 DEF TypeOK, Connecting
<1>7. CASE EndLogin /\ ~Fail
  BY <1>7 DEF TypeOK, EndLogin
<1>8. CASE SendElevate
  BY <1>8, SendType DEF TypeOK, SendElevate, Lines
<1>9. CASE AnswerChallenge /\ ~Fail
  BY <1>9, SendType DEF TypeOK, AnswerChallenge, Lines
<1>10. CASE (NoChallenge \/ EndElevate) /\ ~Fail
  BY <1>10 DEF TypeOK, NoChallenge, EndElevate
<1>11. CASE RunCommand
  BY <1>11, SendType DEF TypeOK, RunCommand, Lines
<1>12. CASE EndCommand \/ EndCapture
  BY <1>12 DEF TypeOK, EndCommand, EndCapture
<1>13. CASE SayBye
  BY <1>13, SendType DEF TypeOK, SayBye, Lines
<1>14. CASE Close
  <2>1. net' \in Seq(Chunks)
    <3>1. <<>> \in Seq(Chunks)
      OBVIOUS
    <3> QED
      BY <1>14, <3>1 DEF Close
  <2> QED
    BY <1>14, <2>1 DEF TypeOK, Close
<1>15. CASE Cancel
  BY <1>15 DEF TypeOK, Cancel, Raise, Connecting
<1> QED
  BY <1>1, <1>2, <1>3, <1>4, <1>5, <1>6, <1>7, <1>8, <1>9, <1>10, <1>11, <1>12,
     <1>13, <1>14, <1>15
     DEF Transport, Connect, Elevate, Run, Disconnect, NoPrompt, LinkError

(* What the node does, as far as the proofs are concerned: it hears a line,  *)
(* answers, and may execute it.                                              *)
Contains(texts, text) == \E i \in DOMAIN texts : texts[i] = text

\* Where the line leaves the node, and what the answer lets the transport know.
Telling(line, texts) ==
  /\ Reply(line, texts) \/ line = "bye"
  /\ mode = "password" =>
       \/ mode' = "user"
       \/ mode' = "login" /\ Contains(texts, "loginFailed")
  /\ mode = "challenge" =>
       \/ mode' = "sys"
       \/ mode' = "user" /\ (call.silent \/ Contains(texts, "rejected"))
  /\ mode \in {"user", "sys"} =>
       \/ mode' = mode
       \/ line = "elevate" /\ mode' = "challenge" /\ Contains(texts, "challenge")
       \/ line = "elevate" /\ mode' = "sys"
       \/ line = "bye" /\ mode' = "off"
  /\ mode \in {"user", "sys"} /\ line = "cmd" =>
       log' = Append(log, [line |-> line, mode |-> mode])
  /\ Contains(texts, "ok") => line \in {"elevate", "answer"} /\ mode' = "sys"
  /\ Contains(texts, "banner") => mode = "password"

Hearing(line, texts) ==
  /\ Hears(line)
  /\ UNCHANGED client
  /\ Reply(line, texts) \/ net' = net
  /\ mode' \in Modes
  /\ mode' = "off" => line = "bye"
  /\ mode = "login" => mode' = "password"
  /\ \A i \in DOMAIN texts :
       texts[i] = "challenge" => line = "elevate" /\ mode' = "challenge"
  /\ \/ log' = log
     \/ mode \in {"user", "sys"} /\ log' = Append(log, [line |-> line, mode |-> mode])
  /\ Telling(line, texts)

Answered == \E line \in Lines, texts \in Seq(Texts) : Hearing(line, texts)

LEMMA NodeAnswers == TypeOK /\ Node => Answered \/ LinkDies
<1> SUFFICES ASSUME TypeOK, Node PROVE Answered \/ LinkDies
  OBVIOUS
<1> USE DEF Modes
<1>0. \A t, u \in Texts : <<t>> \in Seq(Texts) /\ <<t, u>> \in Seq(Texts)
  OBVIOUS
<1>1. CASE NodeAsksPassword
  <2>1. PICK line \in Lines : /\ mode = "login"
                              /\ Hears(line) /\ Reply(line, <<"passwordPrompt">>)
                              /\ mode' = "password" /\ UNCHANGED <<client, log>>
    BY <1>1 DEF NodeAsksPassword
  <2>2. Hearing(line, <<"passwordPrompt">>)
    BY <2>1 DEF Hearing, Telling, Contains
  <2> QED
    BY <1>0, <2>2 DEF Answered, Texts
<1>2. CASE NodeChecksPassword
  <2>1. PICK line \in Lines, texts \in {<<"banner", "prompt">>,
                                        <<"loginFailed", "loginPrompt">>} :
          /\ mode = "password"
          /\ Hears(line) /\ Reply(line, texts)
          /\ mode' \in {"user", "login"} /\ UNCHANGED <<client, log>>
          /\ mode' = "user" \/ texts = <<"loginFailed", "loginPrompt">>
    BY <1>2 DEF NodeChecksPassword
  <2>2. Telling(line, texts)
    <3>1. Contains(<<"loginFailed", "loginPrompt">>, "loginFailed")
      BY DEF Contains
    <3>2. ~Contains(texts, "ok")
      BY <2>1 DEF Contains
    <3> QED
      BY <2>1, <3>1, <3>2 DEF Telling
  <2>3. Hearing(line, texts)
    BY <2>1, <2>2 DEF Hearing
  <2>4. texts \in Seq(Texts)
    BY <1>0, <2>1 DEF Texts
  <2> QED
    BY <2>3, <2>4 DEF Answered
<1>3. CASE NodeChallenges
  <2>1. PICK text \in {"challenge", "ok", "output"} :
          /\ mode \in {"user", "sys"}
          /\ Hears("elevate") /\ Reply("elevate", <<text>>)
          /\ mode' \in {"challenge", "sys", mode} /\ UNCHANGED <<client, log>>
          /\ text = "challenge" <=> mode' = "challenge"
          /\ text = "ok" => mode' = "sys"
    BY <1>3 DEF NodeChallenges
  <2>2. Telling("elevate", <<text>>)
    <3>1. \A other : Contains(<<text>>, other) <=> other = text
      BY DEF Contains
    <3> QED
      BY <2>1, <3>1 DEF Telling, TypeOK
  <2>3. Hearing("elevate", <<text>>)
    BY <2>1, <2>2 DEF Hearing, TypeOK
  <2>4. <<text>> \in Seq(Texts) /\ "elevate" \in Lines
    BY <1>0 DEF Texts, Lines
  <2> QED
    BY <2>3, <2>4 DEF Answered
<1>4. CASE NodeChecksAnswer
  <2>1. PICK line \in Lines, text \in {"ok", "prompt", "rejected"} :
          /\ mode = "challenge"
          /\ Hears(line) /\ Reply(line, <<text>>)
          /\ mode' \in {"user", "sys"} /\ UNCHANGED <<client, log>>
          /\ mode' = "user" => call.silent \/ text = "rejected"
          /\ text = "ok" => line = "answer" /\ mode' = "sys"
    BY <1>4 DEF NodeChecksAnswer
  <2>2. Telling(line, <<text>>)
    <3>1. \A other : Contains(<<text>>, other) <=> other = text
      BY DEF Contains
    <3> QED
      BY <2>1, <3>1 DEF Telling
  <2>3. Hearing(line, <<text>>)
    BY <2>1, <2>2 DEF Hearing
  <2>4. <<text>> \in Seq(Texts)
    BY <1>0 DEF Texts
  <2> QED
    BY <2>3, <2>4 DEF Answered
<1>5. CASE NodeExecutes
  <2>1. PICK line \in Lines :
          /\ mode \in {"user", "sys"}
          /\ Hears(line) /\ Reply(line, <<"output", "prompt">>)
          /\ log' = Append(log, [line |-> line, mode |-> mode])
          /\ UNCHANGED <<client, mode>>
    BY <1>5 DEF NodeExecutes
  <2>2. Hearing(line, <<"output", "prompt">>)
    BY <2>1 DEF Hearing, Telling, Contains
  <2> QED
    BY <1>0, <2>2 DEF Answered, Texts
<1>6. CASE NodeHangsUp
  <2>1. Hearing("bye", <<>>)
    BY <1>6 DEF NodeHangsUp, Hearing, Telling, Contains
  <2>2. <<>> \in Seq(Texts) /\ "bye" \in Lines
    BY DEF Lines
  <2> QED
    BY <2>1, <2>2 DEF Answered
<1> QED
  BY <1>1, <1>2, <1>3, <1>4, <1>5, <1>6 DEF Node

LEMMA NodeType == TypeOK /\ (Answered \/ LinkDies) => TypeOK'
<1> SUFFICES ASSUME TypeOK, Answered \/ LinkDies PROVE TypeOK'
  OBVIOUS
<1> USE DEF client
<1>1. CASE Answered
  <2>1. PICK line \in Lines, texts \in Seq(Texts) : Hearing(line, texts)
    BY <1>1 DEF Answered
  <2>2. net' \in Seq(Chunks)
    BY <2>1, ReplyType DEF Hearing, TypeOK
  <2>3. sent' \in Seq(Lines)
    BY <2>1, HearsType DEF Hearing
  <2>4. log' \in Seq(Executions)
    <3> DEFINE e == [line |-> line, mode |-> mode]
    <3>1. mode \in {"user", "sys"} => e \in Executions
      BY DEF Executions
    <3>2. log \in Seq(Executions) /\ (log' = log \/ (e \in Executions /\ log' = Append(log, e)))
      BY <2>1, <3>1 DEF Hearing, TypeOK
    <3> HIDE DEF e
    <3> QED
      BY <3>2
  <2> QED
    BY <2>1, <2>2, <2>3, <2>4 DEF Hearing, TypeOK
<1>2. CASE LinkDies
  <2>1. <<>> \in Seq(Chunks) /\ <<>> \in Seq(Lines)
    OBVIOUS
  <2>2. net' \in Seq(Chunks) /\ sent' \in Seq(Lines)
    BY <1>2, <2>1 DEF TypeOK, LinkDies
  <2> QED
    BY <1>2, <2>2 DEF TypeOK, LinkDies, Modes
<1> QED
  BY <1>1, <1>2

LEMMA NextType == TypeOK /\ [Next]_vars => TypeOK'
<1>1. TypeOK /\ UNCHANGED vars => TypeOK'
  BY DEF TypeOK, vars
<1> QED
  BY <1>1, TransportType, NodeAnswers, NodeType DEF Next, Returned

-----------------------------------------------------------------------------
(* Steps by their effect on the lines and chunks in flight.                  *)

LEMMA Said ==
  ASSUME TypeOK, NEW line \in Lines, Send(line)
  PROVE  /\ ~Up => sent' = sent
         /\ Up => /\ Len(sent') = Len(sent) + 1 /\ sent' # <<>>
                  /\ sent'[Len(sent')] = line
                  /\ \A i \in DOMAIN sent' : i = Len(sent') \/ i \in DOMAIN sent
         /\ \A i \in DOMAIN sent : i \in DOMAIN sent' /\ sent'[i] = sent[i]
         /\ \A other : InSent(other)' => other = line \/ InSent(other)
<1>1. CASE Up
  <2>1. sent' = Append(sent, line) /\ sent \in Seq(Lines)
    BY <1>1 DEF Send, TypeOK
  <2>2. /\ Len(sent') = Len(sent) + 1 /\ sent' # <<>>
        /\ sent'[Len(sent')] = line
        /\ \A i \in DOMAIN sent' : i = Len(sent') \/ i \in DOMAIN sent
        /\ \A i \in DOMAIN sent : i \in DOMAIN sent' /\ sent'[i] = sent[i]
    BY <2>1
  <2> QED
    BY <1>1, <2>2 DEF InSent
<1>2. CASE ~Up
  BY <1>2 DEF Send, InSent
<1> QED
  BY <1>1, <1>2

LEMMA Heard ==
  ASSUME TypeOK, NEW line, Hears(line)
  PROVE  /\ Up /\ sent # <<>> /\ sent[1] = line /\ 1 \in DOMAIN sent
         /\ Len(sent) \in Nat /\ Len(sent') = Len(sent) - 1
         /\ Len(sent) = 1 => sent' = <<>>
         /\ \A i \in DOMAIN sent' :
              i \in Nat /\ i >= 1 /\ i + 1 \in DOMAIN sent /\ sent'[i] = sent[i + 1]
         /\ \A other : InSent(other)' => InSent(other)
<1>1. Up /\ sent \in Seq(Lines) /\ sent # <<>> /\ sent' = Tail(sent) /\ Head(sent) = line
  BY DEF Hears, TypeOK
<1>2. /\ sent[1] = line /\ 1 \in DOMAIN sent
      /\ Len(sent) \in Nat /\ Len(sent') = Len(sent) - 1
      /\ Len(sent) = 1 => sent' = <<>>
      /\ \A i \in DOMAIN sent' :
           i \in Nat /\ i >= 1 /\ i + 1 \in DOMAIN sent /\ sent'[i] = sent[i + 1]
  BY <1>1
<1> QED
  BY <1>1, <1>2 DEF InSent

LEMMA Read ==
  ASSUME TypeOK, net' \in {net, <<>>} \/ (net # <<>> /\ net' = Tail(net)), NEW text
  PROVE  InNet(text)' => InNet(text)
<1>1. CASE net' \in {net, <<>>}
  BY <1>1 DEF InNet
<1>2. CASE net # <<>> /\ net' = Tail(net)
  <2>1. \A i \in DOMAIN net' : i + 1 \in DOMAIN net /\ net'[i] = net[i + 1]
    BY <1>2 DEF TypeOK
  <2> QED
    BY <2>1 DEF InNet
<1> QED
  BY <1>1, <1>2

LEMMA Concatenated ==
  ASSUME NEW S, NEW s \in Seq(S), NEW t \in Seq(S), NEW i \in DOMAIN (s \o t)
  PROVE  \/ i \in DOMAIN s /\ (s \o t)[i] = s[i]
         \/ \E j \in DOMAIN t : (s \o t)[i] = t[j]
<1>1. /\ Len(s) \in Nat /\ Len(t) \in Nat /\ i \in 1 .. Len(s) + Len(t)
      /\ DOMAIN s = 1 .. Len(s) /\ DOMAIN t = 1 .. Len(t)
  OBVIOUS
<1>2. (s \o t)[i] = IF i <= Len(s) THEN s[i] ELSE t[i - Len(s)]
  BY <1>1, ConcatProperties
<1>3. CASE i <= Len(s)
  BY <1>1, <1>2, <1>3
<1>4. CASE ~(i <= Len(s))
  <2>1. i - Len(s) \in 1 .. Len(t)
    BY <1>1, <1>4
  <2> QED
    BY <1>1, <1>2, <1>4, <2>1
<1> QED
  BY <1>3, <1>4

LEMMA Replied ==
  ASSUME TypeOK, NEW line \in Lines, NEW texts \in Seq(Texts),
         Reply(line, texts) \/ net' = net, NEW text
  PROVE  InNet(text)' => InNet(text) \/ \E i \in DOMAIN texts : texts[i] = text
<1> DEFINE chunks == [i \in DOMAIN texts |-> [of |-> line, text |-> texts[i]]]
<1>1. CASE net' = net
  BY <1>1 DEF InNet
<1>2. CASE net' = net \o chunks
  <2>1. chunks \in Seq(Chunks)
    <3>1. \A i \in DOMAIN texts : [of |-> line, text |-> texts[i]] \in Chunks
      BY DEF Chunks
    <3>2. DOMAIN texts = 1 .. Len(texts) /\ Len(texts) \in Nat
      OBVIOUS
    <3> QED
      BY <3>1, <3>2
  <2>2. \A i \in DOMAIN chunks : i \in DOMAIN texts /\ chunks[i].text = texts[i]
    OBVIOUS
  <2> HIDE DEF chunks
  <2>3. \A i \in DOMAIN net' : \/ i \in DOMAIN net /\ net'[i] = net[i]
                               \/ \E j \in DOMAIN chunks : net'[i] = chunks[j]
    BY <1>2, <2>1, Concatenated DEF TypeOK
  <2> QED
    BY <2>2, <2>3 DEF InNet
<1> QED
  BY <1>1, <1>2 DEF Reply

Late == {"reply", "window", "exit", "closing", "done"}

\* The steps of the transport that say nothing, a failing step among them.
Silence ==
  \/ OpenSsh \/ ReadPastPrompt \/ NoPrompt \/ EndLogin \/ NoChallenge
  \/ EndElevate \/ ReadMore \/ EndCommand \/ EndCapture \/ LinkError \/ Close
  \/ Cancel
  \/ Fail /\ pc \in {"dial", "password", "challenge"}

LEMMA SilenceKeeps ==
  ASSUME TypeOK, Silence
  PROVE  /\ UNCHANGED <<sent, mode, log>>
         /\ net' \in {net, <<>>} \/ (net # <<>> /\ net' = Tail(net))
         /\ pc \in Late => pc' \in Late
         /\ pc \in {"closing", "done"} => pc' \in {"closing", "done"}
         /\ pc' \in {"start", "dial"} => pc \in {"start", "dial"} /\ net' = net
         /\ pc' \in {"login", "password"} => pc' = pc
         /\ pc' \in Connecting => pc \in Connecting /\ sysActive' = sysActive
         /\ pc' = "ready" /\ ~sysActive' => pc \in Connecting /\ ~sysActive
         /\ pc' = "challenge" => ReadMore
<1> USE DEF Late, Connecting, Prompting, Listening, node
<1>1. CASE OpenSsh
  BY <1>1 DEF OpenSsh, Fail, Raise
<1>2. CASE ReadPastPrompt
  BY <1>2 DEF ReadPastPrompt
<1>3. CASE NoPrompt
  BY <1>3 DEF NoPrompt, Fail, Raise
<1>4. CASE EndLogin
  BY <1>4 DEF EndLogin, Fail, Raise
<1>5. CASE NoChallenge
  BY <1>5 DEF NoChallenge, Fail, Raise
<1>6. CASE EndElevate
  BY <1>6 DEF EndElevate, Fail, Raise
<1>7. CASE ReadMore
  BY <1>7 DEF ReadMore
<1>8. CASE EndCommand \/ EndCapture
  BY <1>8 DEF EndCommand, EndCapture
<1>9. CASE LinkError
  BY <1>9 DEF LinkError, Fail, Raise
<1>10. CASE Close
  BY <1>10 DEF Close
<1>11. CASE Cancel
  BY <1>11 DEF Cancel, Raise
<1>12. CASE Fail /\ pc \in {"dial", "password", "challenge"}
  BY <1>12 DEF Fail, Raise
<1> QED
  BY <1>1, <1>2, <1>3, <1>4, <1>5, <1>6, <1>7, <1>8, <1>9, <1>10, <1>11, <1>12
     DEF Silence

\* The steps that say a line.
Speaks(line) ==
  \/ line = "user" /\ SendUser
  \/ line = "password" /\ SendPassword /\ ~Fail
  \/ line = "elevate" /\ SendElevate
  \/ line = "answer" /\ AnswerChallenge /\ ~Fail
  \/ line = "cmd" /\ RunCommand
  \/ line = "bye" /\ SayBye

LEMMA SpeaksOnCue ==
  ASSUME TypeOK, NEW line \in Lines, Speaks(line)
  PROVE  /\ Send(line)
         /\ UNCHANGED <<mode, log, sysActive>>
         /\ net' \in {net, <<>>} \/ (net # <<>> /\ net' = Tail(net))
         /\ line = "user" => pc = "login" /\ pc' = "password"
         /\ line = "password" =>
              pc = "password" /\ pc' = "banner" /\ InNet("passwordPrompt")
         /\ line = "elevate" =>
              pc = "ready" /\ ~sysActive /\ pc' = "challenge" /\ buf' = {}
         /\ line = "answer" =>
              pc = "challenge" /\ pc' = "verdict" /\ Challenged(buf)
         /\ line = "cmd" => pc = "ready" /\ pc' \in {"reply", "window"}
         /\ line = "bye" => pc = "exit" /\ pc' = "closing"
<1> USE DEF node
<1>1. CASE line = "user" /\ SendUser
  BY <1>1 DEF SendUser
<1>2. CASE line = "password" /\ SendPassword /\ ~Fail
  <2>1. net # <<>> /\ Head(net).text = "passwordPrompt"
    BY <1>2 DEF SendPassword
  <2>2. 1 \in DOMAIN net /\ net[1].text = "passwordPrompt"
    BY <2>1 DEF TypeOK
  <2> QED
    BY <1>2, <2>2 DEF SendPassword, InNet
<1>3. CASE line = "elevate" /\ SendElevate
  BY <1>3 DEF SendElevate
<1>4. CASE line = "answer" /\ AnswerChallenge /\ ~Fail
  BY <1>4 DEF AnswerChallenge
<1>5. CASE line = "cmd" /\ RunCommand
  BY <1>5 DEF RunCommand
<1>6. CASE line = "bye" /\ SayBye
  BY <1>6 DEF SayBye
<1> QED
  BY <1>1, <1>2, <1>3, <1>4, <1>5, <1>6 DEF Speaks

\* The telnet connection is set up.
Dials == OpenTelnet /\ ~Fail

LEMMA DialsFresh ==
  ASSUME TypeOK, Dials
  PROVE  /\ UNCHANGED <<sent, log, sysActive>>
         /\ pc = "dial" /\ pc' \in {"login", "banner"}
         /\ mode' # "off" /\ (pc' = "login" => mode' = "login")
         /\ ~InNet("passwordPrompt")' /\ ~InNet("challenge")'
<1>1. /\ UNCHANGED <<sent, log, sysActive>>
      /\ pc = "dial" /\ pc' \in {"login", "banner"}
      /\ mode' # "off" /\ (pc' = "login" => mode' = "login")
  BY DEF Dials, OpenTelnet
<1>2. PICK text \in {"loginPrompt", "prompt"} :
        net' = << [of |-> "connect", text |-> "banner"],
                  [of |-> "connect", text |-> text] >>
  BY DEF Dials, OpenTelnet
<1>3. \A i \in DOMAIN net' : net'[i].text \in {"banner", "loginPrompt", "prompt"}
  BY <1>2
<1> QED
  BY <1>1, <1>3 DEF InNet

\* Every step is of one of these kinds.
LEMMA StepKinds ==
  TypeOK /\ Next =>
    \/ Silence \/ Dials \/ Answered \/ LinkDies \/ UNCHANGED vars
    \/ \E line \in Lines : Speaks(line)
<1> SUFFICES ASSUME TypeOK, Next
             PROVE  \/ Silence \/ Dials \/ Answered \/ LinkDies \/ UNCHANGED vars
                    \/ \E line \in Lines : Speaks(line)
  OBVIOUS
<1>1. CASE SendUser \/ SendElevate \/ RunCommand \/ SayBye
  BY <1>1 DEF Speaks, Lines
<1>2. CASE SendPassword
  <2>1. pc = "password"
    BY <1>2 DEF SendPassword
  <2> QED
    BY <1>2, <2>1 DEF Speaks, Lines, Silence
<1>3. CASE AnswerChallenge
  <2>1. pc = "challenge"
    BY <1>3 DEF AnswerChallenge
  <2> QED
    BY <1>3, <2>1 DEF Speaks, Lines, Silence
<1>4. CASE OpenTelnet
  <2>1. pc = "dial"
    BY <1>4 DEF OpenTelnet
  <2> QED
    BY <1>4, <2>1 DEF Dials, Silence
<1>5. CASE Node
  BY <1>5, NodeAnswers
<1> QED
  BY <1>1, <1>2, <1>3, <1>4, <1>5
     DEF Next, Transport, Connect, Elevate, Run, Disconnect, Silence, Returned

-----------------------------------------------------------------------------
(* The invariant, part by part.                                              *)

LEMMA InitInv == Init => Inv
<1> SUFFICES ASSUME Init PROVE Inv
  OBVIOUS
<1>1. TypeOK
  BY InitType
<1>2. Waiting /\ Once /\ Awaited /\ Lockstep /\ PasswordKept /\ ClosedAfterBody
  BY DEF Init, Waiting, Once, Awaited, Lockstep, PasswordKept, ClosedAfterBody,
         Up, InSent, InNet, Executed, AtMostOnce
<1>3. Elevating
  BY DEF Init, Elevating, Up, InSent, InNet, Connecting
<1> QED
  BY <1>1, <1>2, <1>3 DEF Inv

LEMMA WaitingStep == Inv /\ Next => Waiting'
<1> SUFFICES ASSUME Inv, Next PROVE Waiting'
  OBVIOUS
<1>0. TypeOK /\ Waiting /\ Lockstep
  BY DEF Inv
<1>1. CASE Silence
  BY <1>0, <1>1, SilenceKeeps DEF Waiting, Up
<1>2. CASE Dials
  BY <1>0, <1>2, DialsFresh DEF Waiting, Lockstep, Up
<1>3. ASSUME NEW line \in Lines, Speaks(line) PROVE Waiting'
  <2>1. Send(line) /\ mode' = mode /\ (line = "bye" <=> pc = "exit")
        /\ pc \notin {"closing", "done"} /\ (pc = "exit" => pc' = "closing")
    BY <1>0, <1>3, SpeaksOnCue DEF Lines
  <2>2. \A i \in DOMAIN sent : sent[i] # "bye"
    BY <1>0, <2>1 DEF Waiting
  <2> QED
    BY <1>0, <2>1, <2>2, Said DEF Waiting, Up
<1>4. CASE Answered
  <2>1. PICK line \in Lines, texts \in Seq(Texts) : Hearing(line, texts)
    BY <1>4 DEF Answered
  <2>2. Hears(line) /\ pc' = pc /\ (mode' = "off" => line = "bye")
    BY <2>1 DEF Hearing, client
  <2>3. ~Up' => sent' = <<>>
    BY <1>0, <2>2, Heard DEF Waiting, Up
  <2>4. ASSUME NEW i \in DOMAIN sent', sent'[i] = "bye"
        PROVE  i = Len(sent') /\ pc' \in {"closing", "done"}
    <3>1. i + 1 = Len(sent) /\ pc \in {"closing", "done"}
      BY <1>0, <2>2, <2>4, Heard DEF Waiting
    <3> QED
      BY <1>0, <2>2, <3>1, Heard
  <2> QED
    BY <2>3, <2>4 DEF Waiting
<1>5. CASE LinkDies
  BY <1>5 DEF LinkDies, Waiting
<1>6. CASE UNCHANGED vars
  BY <1>0, <1>6 DEF vars, Waiting, Up
<1> QED
  BY <1>0, <1>1, <1>2, <1>3, <1>4, <1>5, <1>6, StepKinds

LEMMA OnceStep == Inv /\ Next => Once'
<1> SUFFICES ASSUME Inv, Next PROVE Once'
  OBVIOUS
<1>0. TypeOK /\ Once
  BY DEF Inv
<1> USE DEF Late
<1>1. CASE Silence
  BY <1>0, <1>1, SilenceKeeps DEF Once, InSent, Executed, AtMostOnce
<1>2. CASE Dials
  BY <1>0, <1>2, DialsFresh DEF Once, InSent, Executed, AtMostOnce
<1>3. ASSUME NEW line \in Lines, Speaks(line) PROVE Once'
  <2>1. /\ Send(line) /\ log' = log
        /\ pc \in {"login", "password", "challenge", "ready", "exit"}
        /\ pc = "exit" => pc' = "closing"
        /\ line = "cmd" => pc = "ready" /\ pc' \in {"reply", "window"}
    BY <1>0, <1>3, SpeaksOnCue DEF Lines
  <2>2. Executed("cmd")' <=> Executed("cmd")
    BY <2>1 DEF Executed
  <2>3. CASE line = "cmd"
    <3>1. ~InSent("cmd") /\ ~Executed("cmd")
      BY <1>0, <2>1, <2>3 DEF Once
    <3>2. \A i, j \in DOMAIN sent' : sent'[i] = "cmd" /\ sent'[j] = "cmd" => i = j
      BY <1>0, <2>1, <3>1, Said DEF InSent
    <3> QED
      BY <1>0, <2>1, <2>2, <2>3, <3>1, <3>2 DEF Once, AtMostOnce
  <2>4. CASE line # "cmd"
    <3>1. InSent("cmd")' => InSent("cmd")
      BY <1>0, <2>1, <2>4, Said
    <3>2. \A i, j \in DOMAIN sent' : sent'[i] = "cmd" /\ sent'[j] = "cmd" => i = j
      BY <1>0, <2>1, <2>4, Said DEF Once
    <3> QED
      BY <1>0, <2>1, <2>2, <3>1, <3>2 DEF Once, AtMostOnce
  <2> QED
    BY <2>3, <2>4
<1>4. CASE Answered
  <2>1. PICK line \in Lines, texts \in Seq(Texts) : Hearing(line, texts)
    BY <1>4 DEF Answered
  <2>2. /\ Hears(line) /\ pc' = pc
        /\ \/ log' = log
           \/ mode \in {"user", "sys"}
              /\ log' = Append(log, [line |-> line, mode |-> mode])
    BY <2>1 DEF Hearing, client
  <2>3. InSent(line) /\ (InSent("cmd")' => InSent("cmd"))
    BY <1>0, <2>2, Heard DEF InSent
  <2>4. \A i, j \in DOMAIN sent' : sent'[i] = "cmd" /\ sent'[j] = "cmd" => i = j
    <3>1. \A i, j \in DOMAIN sent' : sent'[i] = "cmd" /\ sent'[j] = "cmd" => i + 1 = j + 1
      BY <1>0, <2>2, Heard DEF Once
    <3> QED
      BY <1>0, <2>2, <3>1, Heard
  <2>5. line = "cmd" => ~InSent("cmd")'
    <3> SUFFICES ASSUME line = "cmd", NEW i \in DOMAIN sent', sent'[i] = "cmd" PROVE FALSE
      BY DEF InSent
    <3>1. i >= 1 /\ i \in Nat /\ i + 1 \in DOMAIN sent /\ sent[i + 1] = "cmd"
          /\ sent[1] = "cmd" /\ 1 \in DOMAIN sent
      BY <1>0, <2>2, Heard
    <3>2. i + 1 = 1
      BY <1>0, <3>1 DEF Once
    <3> QED
      BY <3>1, <3>2
  <2>6. CASE log' = log
    BY <1>0, <2>2, <2>3, <2>4, <2>6 DEF Once, Executed, AtMostOnce
  <2>7. CASE log' = Append(log, [line |-> line, mode |-> mode])
    <3>1. /\ \A i \in DOMAIN log : i \in DOMAIN log' /\ log'[i] = log[i]
          /\ log'[Len(log')].line = line
          /\ \A i \in DOMAIN log' : i \in DOMAIN log \/ i = Len(log')
      BY <1>0, <2>7 DEF TypeOK
    <3>2. CASE line = "cmd"
      <4>1. ~Executed("cmd") /\ pc \in Late
        BY <1>0, <2>3, <3>2 DEF Once
      <4>2. AtMostOnce'
        BY <3>1, <4>1 DEF AtMostOnce, Executed
      <4> QED
        BY <2>2, <2>4, <2>5, <3>2, <4>1, <4>2 DEF Once
    <3>3. CASE line # "cmd"
      <4>1. Executed("cmd")' => Executed("cmd")
        BY <3>1, <3>3 DEF Executed
      <4>2. AtMostOnce'
        BY <1>0, <3>1, <3>3 DEF Once, AtMostOnce
      <4> QED
        BY <1>0, <2>2, <2>3, <2>4, <4>1, <4>2 DEF Once
    <3> QED
      BY <3>2, <3>3
  <2> QED
    BY <2>2, <2>6, <2>7
<1>5. CASE LinkDies
  <2>1. sent' = <<>> /\ UNCHANGED <<pc, log>>
    BY <1>5 DEF LinkDies, client
  <2> QED
    BY <1>0, <2>1 DEF Once, InSent, Executed, AtMostOnce
<1>6. CASE UNCHANGED vars
  BY <1>0, <1>6 DEF vars, Once, InSent, Executed, AtMostOnce
<1> QED
  BY <1>0, <1>1, <1>2, <1>3, <1>4, <1>5, <1>6, StepKinds

LEMMA AwaitedStep == Inv /\ Next => Awaited'
<1> SUFFICES ASSUME Inv, Next PROVE Awaited'
  OBVIOUS
<1>0. TypeOK /\ Awaited /\ Waiting /\ Lockstep /\ Elevating
  BY DEF Inv
<1>1. CASE Silence
  BY <1>0, <1>1, SilenceKeeps DEF Awaited
<1>2. CASE Dials
  <2>1. sent' = <<>>
    BY <1>0, <1>2, DialsFresh DEF Lockstep
  <2> QED
    BY <2>1 DEF Awaited
<1>3. ASSUME NEW line \in Lines, Speaks(line) PROVE Awaited'
  <2>1. Send(line) /\ mode' = mode
    BY <1>0, <1>3, SpeaksOnCue
  <2>2. CASE ~Up
    BY <1>0, <2>1, <2>2, Said DEF Awaited
  <2>3. CASE Up /\ line = "password"
    <3>1. sent = <<>> /\ mode = "password"
      BY <1>0, <1>3, <2>3, SpeaksOnCue DEF Lockstep
    <3>2. Len(sent') = 1 /\ \A i \in DOMAIN sent' : i = 1
      BY <1>0, <2>1, <2>3, <3>1, Said
    <3>3. sent'[1] = "password"
      BY <1>0, <2>1, <2>3, <3>2, Said
    <3> QED
      BY <2>1, <3>1, <3>2, <3>3 DEF Awaited
  <2>4. CASE Up /\ line # "password"
    BY <1>0, <2>1, <2>4, Said DEF Awaited
  <2> QED
    BY <2>2, <2>3, <2>4
<1>4. CASE Answered
  <2>1. PICK line \in Lines, texts \in Seq(Texts) : Hears(line)
    BY <1>4 DEF Answered, Hearing
  <2>2. \A i \in DOMAIN sent' : sent'[i] # "password"
    <3> TAKE i \in DOMAIN sent'
    <3>1. i \in Nat /\ i >= 1 /\ i + 1 \in DOMAIN sent /\ sent'[i] = sent[i + 1]
      BY <1>0, <2>1, Heard
    <3> QED
      BY <1>0, <3>1 DEF Awaited
  <2> QED
    BY <2>2 DEF Awaited
<1>5. CASE LinkDies
  BY <1>5 DEF LinkDies, Awaited
<1>6. CASE UNCHANGED vars
  BY <1>0, <1>6 DEF vars, Awaited
<1> QED
  BY <1>0, <1>1, <1>2, <1>3, <1>4, <1>5, <1>6, StepKinds

LEMMA LockstepStep == Inv /\ Next => Lockstep'
<1> SUFFICES ASSUME Inv, Next PROVE Lockstep'
  OBVIOUS
<1>0. TypeOK /\ Lockstep /\ Waiting
  BY DEF Inv
<1>1. CASE Silence
  <2>1. InNet("passwordPrompt")' => InNet("passwordPrompt")
    BY <1>0, <1>1, SilenceKeeps, Read
  <2> QED
    BY <1>0, <1>1, <2>1, SilenceKeeps DEF Lockstep, Up
<1>2. CASE Dials
  <2>1. sent' = <<>>
    BY <1>0, <1>2, DialsFresh DEF Lockstep
  <2> QED
    BY <1>0, <1>2, <2>1, DialsFresh DEF Lockstep
<1>3. ASSUME NEW line \in Lines, Speaks(line) PROVE Lockstep'
  <2>1. CASE line = "user"
    <3>1. /\ Send("user") /\ mode' = mode /\ pc = "login" /\ pc' = "password"
          /\ net' \in {net, <<>>} \/ (net # <<>> /\ net' = Tail(net))
      BY <1>0, <1>3, <2>1, SpeaksOnCue
    <3>2. ~InNet("passwordPrompt")'
      BY <1>0, <3>1, Read DEF Lockstep
    <3>3. Up => mode = "login" /\ sent' = <<"user">>
      BY <1>0, <3>1 DEF Lockstep, Send
    <3> QED
      BY <3>1, <3>2, <3>3 DEF Lockstep, Up
  <2>2. CASE line # "user"
    <3>1. pc' \notin {"start", "dial", "login", "password"}
      BY <1>0, <1>3, <2>2, SpeaksOnCue DEF Lines
    <3> QED
      BY <3>1 DEF Lockstep
  <2> QED
    BY <2>1, <2>2
<1>4. CASE Answered
  <2>1. PICK line \in Lines, texts \in Seq(Texts) : Hearing(line, texts)
    BY <1>4 DEF Answered
  <2>2. Hears(line) /\ pc' = pc /\ (mode = "login" => mode' = "password")
    BY <2>1 DEF Hearing, client
  <2>3. Up /\ sent # <<>>
    BY <1>0, <2>2, Heard
  <2>4. pc \notin {"start", "dial", "login"}
    BY <1>0, <2>3 DEF Lockstep, Up
  <2>5. pc = "password" => mode' = "password" /\ sent' = <<>>
    <3> SUFFICES ASSUME pc = "password" PROVE mode' = "password" /\ sent' = <<>>
      OBVIOUS
    <3>1. mode = "login" /\ sent = <<"user">>
      BY <1>0, <2>3 DEF Lockstep
    <3> QED
      BY <1>0, <2>2, <3>1, Heard
  <2> QED
    BY <2>2, <2>4, <2>5 DEF Lockstep
<1>5. CASE LinkDies
  <2>1. Up /\ ~Up' /\ pc' = pc /\ net' \in {net, <<>>}
    BY <1>5 DEF LinkDies, client, Up
  <2>2. InNet("passwordPrompt")' => InNet("passwordPrompt")
    BY <1>0, <2>1, Read
  <2> QED
    BY <1>0, <2>1, <2>2 DEF Lockstep, Up
<1>6. CASE UNCHANGED vars
  BY <1>0, <1>6 DEF vars, Lockstep, InNet, Up
<1> QED
  BY <1>0, <1>1, <1>2, <1>3, <1>4, <1>5, <1>6, StepKinds

LEMMA ElevatingStep == Inv /\ Next => Elevating'
<1> SUFFICES ASSUME Inv, Next PROVE Elevating'
  OBVIOUS
<1>0. TypeOK /\ Elevating /\ Waiting /\ Lockstep
  BY DEF Inv
<1>1. CASE Silence /\ ~ReadMore
  <2>1. InNet("challenge")' => InNet("challenge")
    BY <1>0, <1>1, SilenceKeeps, Read
  <2>2. InSent("elevate")' => InSent("elevate")
    BY <1>0, <1>1, SilenceKeeps DEF InSent
  <2>3. pc' # "challenge"
    BY <1>0, <1>1, SilenceKeeps
  <2> QED
    BY <1>0, <1>1, <2>1, <2>2, <2>3, SilenceKeeps DEF Elevating
<1>2. CASE ReadMore
  <2>1. /\ net # <<>> /\ net' = Tail(net) /\ buf' = buf \cup {Head(net)}
        /\ UNCHANGED <<pc, sysActive, sent, mode>>
    BY <1>2 DEF ReadMore, node
  <2>2. InNet("challenge")' => InNet("challenge")
    BY <1>0, <2>1, Read
  <2>3. Holds(buf, "challenge")' => Holds(buf, "challenge") \/ InNet("challenge")
    <3>1. 1 \in DOMAIN net /\ Head(net) = net[1]
      BY <1>0, <2>1 DEF TypeOK
    <3> QED
      BY <2>1, <3>1 DEF Holds, InNet
  <2> QED
    BY <1>0, <2>1, <2>2, <2>3 DEF Elevating, InSent, Up
<1>3. CASE Dials
  <2>1. sent' = <<>>
    BY <1>0, <1>3, DialsFresh DEF Lockstep
  <2>2. pc \in Connecting /\ pc' \in Connecting \ {"challenge"}
    BY <1>0, <1>3, DialsFresh DEF Connecting
  <2> QED
    BY <1>0, <1>3, <2>1, <2>2, DialsFresh DEF Elevating, InSent
<1>4. ASSUME NEW line \in Lines, Speaks(line) PROVE Elevating'
  <2>1. /\ Send(line) /\ UNCHANGED <<mode, sysActive>>
        /\ net' \in {net, <<>>} \/ (net # <<>> /\ net' = Tail(net))
    BY <1>0, <1>4, SpeaksOnCue
  <2>2. InNet("challenge")' => InNet("challenge")
    BY <1>0, <2>1, Read
  <2>3. CASE line \in {"user", "password"}
    <3>1. pc \in Connecting /\ pc' \in Connecting \ {"challenge"}
      BY <1>0, <1>4, <2>3, SpeaksOnCue DEF Connecting
    <3>2. InSent("elevate")' => InSent("elevate")
      BY <1>0, <2>1, <2>3, Said
    <3> QED
      BY <1>0, <2>1, <2>2, <3>1, <3>2 DEF Elevating
  <2>4. CASE line = "elevate"
    <3>1. pc = "ready" /\ ~sysActive /\ pc' = "challenge" /\ buf' = {}
      BY <1>0, <1>4, <2>4, SpeaksOnCue
    <3>2. ~InSent("elevate") /\ ~InNet("challenge")
      BY <1>0, <3>1 DEF Elevating
    <3>3. ~InNet("challenge")' /\ ~Holds(buf, "challenge")'
      BY <2>2, <3>1, <3>2 DEF Holds
    <3>4. Up => /\ sent' # <<>> /\ sent'[Len(sent')] = "elevate"
                /\ \A i \in DOMAIN sent' : sent'[i] = "elevate" => i = Len(sent')
      BY <1>0, <2>1, <2>4, <3>2, Said DEF InSent
    <3> QED
      BY <2>1, <3>1, <3>3, <3>4 DEF Elevating, Connecting, Up
  <2>5. CASE line \in {"answer", "cmd", "bye"}
    <3>1. pc' \notin Connecting \cup {"ready", "challenge"}
      BY <1>0, <1>4, <2>5, SpeaksOnCue DEF Connecting
    <3> QED
      BY <3>1 DEF Elevating
  <2> QED
    BY <2>3, <2>4, <2>5 DEF Lines
<1>5. CASE Answered
  <2>1. PICK line \in Lines, texts \in Seq(Texts) : Hearing(line, texts)
    BY <1>5 DEF Answered
  <2>2. Hears(line) /\ UNCHANGED <<pc, sysActive, buf>>
    BY <2>1 DEF Hearing, client
  <2>3. InSent(line) /\ (InSent("elevate")' => InSent("elevate")) /\ Up /\ sent # <<>>
    BY <1>0, <2>2, Heard DEF InSent
  <2>4. InNet("challenge")' =>
          InNet("challenge") \/ (line = "elevate" /\ mode' = "challenge")
    BY <1>0, <2>1, Replied DEF Hearing
  <2>5. pc \in Connecting \cup {"ready"} /\ ~sysActive =>
          ~InSent("elevate")' /\ ~InNet("challenge")'
    BY <1>0, <2>3, <2>4 DEF Elevating
  <2>6. ASSUME pc = "challenge"
        PROVE  \/ /\ sent' # <<>> /\ sent'[Len(sent')] = "elevate"
                  /\ \A i \in DOMAIN sent' : sent'[i] = "elevate" => i = Len(sent')
                  /\ ~InNet("challenge")' /\ ~Holds(buf, "challenge")'
               \/ /\ sent' = <<>>
                  /\ InNet("challenge")' \/ Holds(buf, "challenge")' =>
                       mode' = "challenge"
    <3>1. /\ sent[Len(sent)] = "elevate"
          /\ \A i \in DOMAIN sent : sent[i] = "elevate" => i = Len(sent)
          /\ ~InNet("challenge") /\ ~Holds(buf, "challenge")
      BY <1>0, <2>3, <2>6 DEF Elevating
    <3>2. ~Holds(buf, "challenge")'
      BY <2>2, <3>1 DEF Holds
    <3>3. CASE Len(sent) = 1
      BY <1>0, <2>2, <2>4, <3>1, <3>2, <3>3, Heard
    <3>4. CASE Len(sent) # 1
      <4>1. line # "elevate"
        BY <1>0, <2>2, <3>1, <3>4, Heard
      <4>2. /\ sent' \in Seq(Lines) /\ Len(sent) \in Nat /\ Len(sent') = Len(sent) - 1
            /\ Len(sent') >= 1
        <5>1. sent' \in Seq(Lines)
          BY <1>0, <2>2, HearsType
        <5>2. Len(sent) \in Nat /\ Len(sent') = Len(sent) - 1
          BY <1>0, <2>2, Heard
        <5>3. Len(sent) # 0
          BY <1>0, <2>3 DEF TypeOK
        <5> QED
          BY <3>4, <5>1, <5>2, <5>3
      <4>3. sent' # <<>> /\ sent'[Len(sent')] = "elevate"
        BY <1>0, <2>2, <3>1, <4>2, Heard
      <4>4. \A i \in DOMAIN sent' : sent'[i] = "elevate" => i = Len(sent')
        <5> TAKE i \in DOMAIN sent'
        <5>1. i \in Nat /\ i + 1 \in DOMAIN sent /\ sent'[i] = sent[i + 1]
          BY <1>0, <2>2, Heard
        <5>2. sent[i + 1] = "elevate" => i + 1 = Len(sent)
          BY <3>1, <5>1
        <5> QED
          BY <4>2, <5>1, <5>2
      <4> QED
        BY <2>4, <3>1, <3>2, <4>1, <4>3, <4>4
    <3> QED
      BY <3>3, <3>4
  <2> QED
    BY <1>0, <2>2, <2>5, <2>6 DEF Elevating
<1>6. CASE LinkDies
  <2>1. ~Up' /\ sent' = <<>> /\ UNCHANGED <<pc, sysActive>> /\ net' \in {net, <<>>}
    BY <1>6 DEF LinkDies, client, Up
  <2>2. InNet("challenge")' => InNet("challenge")
    BY <1>0, <2>1, Read
  <2> QED
    BY <1>0, <2>1, <2>2 DEF Elevating, InSent
<1>7. CASE UNCHANGED vars
  BY <1>0, <1>7 DEF vars, Elevating, InSent, InNet, Holds, Up
<1> QED
  BY <1>0, <1>1, <1>2, <1>3, <1>4, <1>5, <1>6, <1>7, StepKinds

LEMMA PasswordStep == Inv /\ Next => PasswordKept'
<1> SUFFICES ASSUME Inv, Next PROVE PasswordKept'
  OBVIOUS
<1>0. TypeOK /\ Awaited /\ PasswordKept
  BY DEF Inv
<1>1. CASE log' = log
  BY <1>0, <1>1 DEF PasswordKept
<1>2. CASE Answered
  <2>1. PICK line \in Lines, texts \in Seq(Texts) : Hearing(line, texts)
    BY <1>2 DEF Answered
  <2>2. CASE mode \in {"user", "sys"}
             /\ log' = Append(log, [line |-> line, mode |-> mode])
    <3>1. sent[1] = line /\ 1 \in DOMAIN sent
      BY <1>0, <2>1, Heard DEF Hearing
    <3>2. line # "password"
      BY <1>0, <2>2, <3>1 DEF Awaited
    <3>3. \A i \in DOMAIN log' : \/ i \in DOMAIN log /\ log'[i] = log[i]
                                 \/ log'[i].line = line
      BY <1>0, <2>2 DEF TypeOK
    <3> QED
      BY <1>0, <3>2, <3>3 DEF PasswordKept
  <2> QED
    BY <1>1, <2>1, <2>2 DEF Hearing
<1> QED
  BY <1>0, <1>1, <1>2, StepKinds, SilenceKeeps, DialsFresh, SpeaksOnCue
     DEF LinkDies, vars

\* A call is done once both channels are closed, unless connect() raised or the
\* task was cancelled.
LEMMA ClosedStep == Inv /\ Next => ClosedAfterBody'
<1> SUFFICES ASSUME Inv, Next PROVE ClosedAfterBody'
  OBVIOUS
<1>0. TypeOK /\ ClosedAfterBody
  BY DEF Inv
<1> USE DEF ClosedAfterBody, Connecting
<1>1. CASE Fail
  BY <1>0, <1>1 DEF Fail, Raise
<1>2. CASE Close
  BY <1>2 DEF Close
<1>3. CASE Cancel
  BY <1>0, <1>3 DEF Cancel, Raise, Prompting, Listening
<1>4. CASE Node \/ Returned
  BY <1>0, <1>4, NodeAnswers DEF Returned, vars, Answered, Hearing, LinkDies, client
<1>5. CASE Transport /\ ~Fail /\ ~Close
  <2>1. pc' # "done"
    BY <1>5 DEF Transport, Connect, Elevate, Run, Disconnect, OpenSsh, OpenTelnet,
       ReadPastPrompt, SendUser, SendPassword, NoPrompt, EndLogin, SendElevate,
       AnswerChallenge, NoChallenge, EndElevate, RunCommand, ReadMore, EndCommand,
       EndCapture, SayBye, Prompting, Listening
  <2> QED
    BY <2>1
<1> QED
  BY <1>1, <1>2, <1>3, <1>4, <1>5 DEF Next, LinkError

LEMMA SpecInv == Spec => []Inv
<1>1. Inv /\ Next => Inv'
  <2>1. TypeOK /\ Next => TypeOK'
    BY NextType
  <2> QED
    BY <2>1, WaitingStep, OnceStep, AwaitedStep, LockstepStep, ElevatingStep,
       PasswordStep, ClosedStep DEF Inv
<1>2. Inv /\ UNCHANGED vars => Inv'
  <2> SUFFICES ASSUME Inv, UNCHANGED vars PROVE Inv'
    OBVIOUS
  <2>1. TypeOK' /\ PasswordKept' /\ ClosedAfterBody'
    BY NextType DEF Inv, vars, PasswordKept, ClosedAfterBody
  <2>2. Waiting' /\ Once' /\ Awaited'
    BY DEF Inv, vars, Waiting, Once, Awaited, Up, InSent, Executed, AtMostOnce
  <2>3. Lockstep' /\ Elevating'
    BY DEF Inv, vars, Lockstep, Elevating, Up, InSent, InNet, Holds
  <2> QED
    BY <2>1, <2>2, <2>3 DEF Inv
<1> QED
  BY <1>1, <1>2, InitInv, PTL DEF Spec

-----------------------------------------------------------------------------
\* The variables of a session keep their types.
THEOREM Typing == Spec => []TypeOK
<1>1. Inv => TypeOK
  BY DEF Inv
<1> QED
  BY <1>1, SpecInv, PTL

\* Whatever is lost, late or cancelled, the node executes the command of a tool
\* call at most once.
THEOREM ExecutedOnce == Spec => []AtMostOnce
<1>1. Inv => AtMostOnce
  BY DEF Inv, Once
<1> QED
  BY <1>1, SpecInv, PTL

\* A call that got through connect() and is not cancelled leaves no channel open.
THEOREM Closed == Spec => []ClosedAfterBody
<1>1. Inv => ClosedAfterBody
  BY DEF Inv
<1> QED
  BY <1>1, SpecInv, PTL

-----------------------------------------------------------------------------
(* What the transport may conclude from what it has read.                    *)

Told(text) == InNet(text) \/ Holds(buf, text)

\* The telnet connection of a session under way is open, so replies arrive.
Linked == pc \notin {"start", "dial", "done"} => "tcp" \in chan

\* When the drain of the banner begins the password has been sent to a node
\* that waits for it; one that refuses says so.
LoggingIn ==
  /\ pc \in Prompting => call.login
  /\ pc = "banner" /\ Up =>
       \/ mode = "password" /\ sent = <<"password">> /\ call.login
       \/ mode = "user" /\ sent = <<>>
       \/ mode = "login" /\ sent = <<>> /\ call.login /\ Told("loginFailed")

\* Between two lines to a punctual node nothing is in flight, so the node is
\* where its last words say.
Settled ==
  call.punctual =>
    /\ pc = "ready" => net = <<>> /\ sent = <<>> /\ (Up => mode \in {"user", "sys"})
    /\ pc = "challenge" /\ Up =>
         \/ sent = <<"elevate">> /\ mode \in {"user", "sys"}
         \/ sent = <<>> /\ mode \in {"user", "sys"}
         \/ sent = <<>> /\ mode = "challenge" /\ Told("challenge")
    /\ pc = "verdict" /\ Up =>
         \/ sent = <<"answer">> /\ mode = "challenge"
         \/ sent = <<>> /\ mode = "sys"
         \/ sent = <<>> /\ mode = "user" /\ (call.silent \/ Told("rejected"))
         \/ /\ ~Unmistaken("challenge")
            /\ sent \in {<<>>, <<"answer">>} /\ mode \in {"user", "sys"}
    /\ pc \in {"challenge", "verdict"} => ~Told("banner")

\* What a punctual node says while its reply is read is the reply of a node
\* that took the line for a command, and what is returned is that.
Replying ==
  call.punctual =>
    /\ pc \in {"reply", "window"} =>
         /\ \A i \in DOMAIN sent : sent[i] = "cmd"
         /\ \A i \in DOMAIN net : net[i].of = "cmd"
         /\ \A c \in buf : c.of = "cmd"
         /\ Up => mode \in {"user", "sys"}
         /\ net # <<>> \/ buf # {} => Executed("cmd")
    /\ result = "output" =>
         /\ pc \in {"exit", "closing", "done"}
         /\ \A c \in buf : c.of = "cmd"
         /\ buf # {} => Executed("cmd")

Reading == Linked /\ LoggingIn /\ Settled /\ Replying

LEMMA LinkedStep == Inv /\ Linked /\ [Next]_vars => Linked'
<1> SUFFICES ASSUME Inv, Linked, [Next]_vars PROVE Linked'
  OBVIOUS
<1> USE DEF Linked
<1>1. CASE Connect
  BY <1>1 DEF Connect, OpenSsh, OpenTelnet, ReadPastPrompt, SendUser,
       SendPassword, NoPrompt, EndLogin, Fail, Raise, Connecting, Prompting
<1>2. CASE Elevate
  BY <1>2 DEF Elevate, SendElevate, AnswerChallenge, NoChallenge, EndElevate,
       Fail, Raise, Connecting
<1>3. CASE Run
  BY <1>3 DEF Run, RunCommand, ReadMore, EndCommand, EndCapture, Listening
<1>4. CASE Disconnect \/ Cancel \/ LinkError
  BY <1>4 DEF Disconnect, SayBye, Close, Cancel, LinkError, Fail, Raise,
       Connecting, Prompting, Listening
<1>5. CASE Node
  BY <1>5, NodeAnswers DEF Inv, Answered, Hearing, LinkDies, client
<1>6. CASE UNCHANGED vars
  BY <1>6 DEF vars
<1> QED
  BY <1>1, <1>2, <1>3, <1>4, <1>5, <1>6 DEF Next, Transport, Returned

\* A read moves a chunk from the line to the buffer: nothing told is lost.
LEMMA ReadTells ==
  ASSUME TypeOK, net # <<>>, net' = Tail(net), buf' = buf \cup {Head(net)}, NEW text
  PROVE  Told(text)' <=> Told(text)
<1>1. /\ 1 \in DOMAIN net /\ Head(net) = net[1]
      /\ \A i \in DOMAIN net' : i + 1 \in DOMAIN net /\ net'[i] = net[i + 1]
      /\ \A i \in DOMAIN net : i = 1 \/ (i - 1 \in DOMAIN net' /\ net'[i - 1] = net[i])
  BY DEF TypeOK
<1>2. InNet(text) => InNet(text)' \/ Head(net).text = text
  BY <1>1 DEF InNet
<1>3. InNet(text)' => InNet(text)
  BY <1>1 DEF InNet
<1>4. Head(net).text = text => InNet(text)
  BY <1>1 DEF InNet
<1>5. Holds(buf, text)' <=> Holds(buf, text) \/ Head(net).text = text
  BY DEF Holds
<1> QED
  BY <1>2, <1>3, <1>4, <1>5 DEF Told

\* What the node says over an open connection is on its way.
LEMMA Heralded ==
  ASSUME TypeOK, NEW line \in Lines, NEW texts \in Seq(Texts),
         Reply(line, texts), "tcp" \in chan, NEW text, Contains(texts, text)
  PROVE  InNet(text)'
<1> DEFINE chunks == [i \in DOMAIN texts |-> [of |-> line, text |-> texts[i]]]
<1>1. net' = net \o chunks
  BY DEF Reply
<1>2. chunks \in Seq(Chunks) /\ net \in Seq(Chunks)
  <2>1. \A i \in DOMAIN texts : [of |-> line, text |-> texts[i]] \in Chunks
    BY DEF Chunks
  <2>2. DOMAIN texts = 1 .. Len(texts) /\ Len(texts) \in Nat
    OBVIOUS
  <2> QED
    BY <2>1, <2>2 DEF TypeOK
<1>3. PICK i \in DOMAIN texts : texts[i] = text
  BY DEF Contains
<1>4. i \in DOMAIN chunks /\ chunks[i].text = text
  BY <1>3
<1> HIDE DEF chunks
<1>5. Len(net) + i \in DOMAIN net' /\ net'[Len(net) + i] = chunks[i]
  <2>1. /\ Len(net) \in Nat /\ Len(chunks) \in Nat /\ DOMAIN chunks = 1 .. Len(chunks)
    BY <1>2
  <2>2. i \in 1 .. Len(chunks)
    BY <1>4, <2>1
  <2>3. Len(net \o chunks) = Len(net) + Len(chunks)
        /\ (net \o chunks)[Len(net) + i] = chunks[i]
        /\ DOMAIN (net \o chunks) = 1 .. Len(net) + Len(chunks)
    BY <1>2, <2>1, <2>2, ConcatProperties
  <2> QED
    BY <1>1, <2>1, <2>2, <2>3
<1> QED
  BY <1>4, <1>5 DEF InNet

\* Every chunk in flight answers a line of an earlier one or this one.
LEMMA RepliedOf ==
  ASSUME TypeOK, NEW line \in Lines, NEW texts \in Seq(Texts),
         Reply(line, texts) \/ net' = net
  PROVE  \A i \in DOMAIN net' :
           net'[i].of = line \/ (i \in DOMAIN net /\ net'[i] = net[i])
<1> DEFINE chunks == [i \in DOMAIN texts |-> [of |-> line, text |-> texts[i]]]
<1>1. CASE net' = net
  BY <1>1
<1>2. CASE net' = net \o chunks
  <2>1. chunks \in Seq(Chunks)
    <3>1. \A i \in DOMAIN texts : [of |-> line, text |-> texts[i]] \in Chunks
      BY DEF Chunks
    <3>2. DOMAIN texts = 1 .. Len(texts) /\ Len(texts) \in Nat
      OBVIOUS
    <3> QED
      BY <3>1, <3>2
  <2>2. \A i \in DOMAIN chunks : chunks[i].of = line
    OBVIOUS
  <2> HIDE DEF chunks
  <2>3. \A i \in DOMAIN net' : \/ i \in DOMAIN net /\ net'[i] = net[i]
                               \/ \E j \in DOMAIN chunks : net'[i] = chunks[j]
    BY <1>2, <2>1, Concatenated DEF TypeOK
  <2> QED
    BY <2>2, <2>3
<1> QED
  BY <1>1, <1>2 DEF Reply

\* When a read of a punctual node's reply is over, nothing is in flight.
LEMMA Quiet ==
  ASSUME TypeOK, Waiting, MayExpire, call.punctual
  PROVE  net = <<>> /\ sent = <<>>
BY DEF MayExpire, Waiting

\* What has been told stays told while the node speaks.
LEMMA HearingTells ==
  ASSUME TypeOK, NEW line \in Lines, NEW texts \in Seq(Texts), Hearing(line, texts),
         NEW text
  PROVE  Told(text) => Told(text)'
<1>1. buf' = buf
  BY DEF Hearing, client
<1>2. InNet(text) => InNet(text)'
  <2>1. CASE net' = net
    BY <2>1 DEF InNet
  <2>2. CASE Reply(line, texts)
    <3> DEFINE chunks == [i \in DOMAIN texts |-> [of |-> line, text |-> texts[i]]]
    <3>1. chunks \in Seq(Chunks) /\ net \in Seq(Chunks)
      <4>1. \A i \in DOMAIN texts : [of |-> line, text |-> texts[i]] \in Chunks
        BY DEF Chunks
      <4>2. DOMAIN texts = 1 .. Len(texts) /\ Len(texts) \in Nat
        OBVIOUS
      <4> QED
        BY <4>1, <4>2 DEF TypeOK
    <3>2. net' = net \o chunks \/ net' = net
      BY <2>2 DEF Reply
    <3> HIDE DEF chunks
    <3>3. \A i \in DOMAIN net : i \in DOMAIN (net \o chunks) /\ (net \o chunks)[i] = net[i]
      BY <3>1, ConcatProperties
    <3> QED
      BY <3>2, <3>3 DEF InNet
  <2> QED
    BY <2>1, <2>2 DEF Hearing
<1> QED
  BY <1>1, <1>2 DEF Told, Holds

LEMMA LoggingInStep == Inv /\ Reading /\ Next => LoggingIn'
<1> SUFFICES ASSUME Inv, Reading, Next PROVE LoggingIn'
  OBVIOUS
<1>0. TypeOK /\ Lockstep /\ Waiting /\ LoggingIn /\ Linked
  BY DEF Inv, Reading
<1>1. CASE ReadMore
  <2>1. /\ net # <<>> /\ net' = Tail(net) /\ buf' = buf \cup {Head(net)}
        /\ UNCHANGED <<call, pc, sent, mode>>
    BY <1>1 DEF ReadMore, node
  <2>2. Told("loginFailed")' <=> Told("loginFailed")
    BY <1>0, <2>1, ReadTells
  <2> QED
    BY <1>0, <2>1, <2>2 DEF LoggingIn, Up, Prompting
<1>2. CASE OpenTelnet /\ ~Fail
  <2>1. /\ sent' = <<>> /\ (pc' = "banner" => mode' = "user")
        /\ pc' \in Prompting => call'.login
    BY <1>0, <1>2 DEF OpenTelnet, Lockstep, Prompting
  <2> QED
    BY <2>1 DEF LoggingIn
<1>3. CASE SendPassword /\ ~Fail
  <2>1. InNet("passwordPrompt") /\ pc = "password"
    BY <1>0, <1>3, SpeaksOnCue DEF Speaks, Lines
  <2>2. Up => mode = "password" /\ sent = <<>> /\ call.login
    <3>1. Up => mode = "password" /\ sent = <<>>
      BY <1>0, <2>1 DEF Lockstep
    <3> QED
      BY <1>0, <2>1, <3>1 DEF LoggingIn, Prompting
  <2>3. Send("password") /\ pc' = "banner" /\ UNCHANGED <<call, mode>>
    BY <1>3 DEF SendPassword, node
  <2>4. Up => sent' = <<"password">>
    BY <2>2, <2>3 DEF Send
  <2> QED
    BY <2>2, <2>3, <2>4 DEF LoggingIn, Up, Prompting
<1>4. CASE Fail
  BY <1>4 DEF Fail, Raise, LoggingIn, Prompting
<1>5. CASE Cancel
  BY <1>5 DEF Cancel, Raise, LoggingIn, Prompting
<1>6. CASE Transport /\ ~Fail /\ ~ReadMore /\ ~OpenTelnet /\ ~SendPassword
  <2>1. pc' # "banner" /\ (pc' \in Prompting => pc \in Prompting /\ call' = call)
    BY <1>6 DEF Transport, Connect, Elevate, Run, Disconnect, OpenSsh,
       ReadPastPrompt, SendUser, NoPrompt, EndLogin, SendElevate,
       AnswerChallenge, NoChallenge, EndElevate, RunCommand, EndCommand,
       EndCapture, SayBye, Close, Prompting
  <2> QED
    BY <1>0, <2>1 DEF LoggingIn
<1>7. CASE Answered
  <2>1. PICK line \in Lines, texts \in Seq(Texts) : Hearing(line, texts)
    BY <1>7 DEF Answered
  <2>2. /\ Hears(line) /\ UNCHANGED <<call, pc, chan, buf>> /\ Telling(line, texts)
        /\ mode = "login" => mode' = "password"
    BY <2>1 DEF Hearing, client
  <2>3. Up /\ sent # <<>> /\ sent[1] = line /\ (Len(sent) = 1 => sent' = <<>>)
    BY <1>0, <2>2, Heard
  <2>4. ASSUME pc = "banner" PROVE LoggingIn'
    <3>1. mode = "password" /\ sent = <<"password">> /\ call.login
      BY <1>0, <2>3, <2>4 DEF LoggingIn
    <3>2. sent' = <<>> /\ line # "bye"
      BY <2>3, <3>1
    <3>3. mode' = "login" => InNet("loginFailed")'
      BY <1>0, <2>2, <2>4, <3>1, <3>2, Heralded DEF Telling, Linked
    <3> QED
      BY <2>2, <2>4, <3>1, <3>2, <3>3 DEF LoggingIn, Telling, Told, Prompting
  <2> QED
    BY <1>0, <2>2, <2>4 DEF LoggingIn
<1>8. CASE LinkDies
  BY <1>0, <1>8 DEF LinkDies, LoggingIn, Up, client
<1>9. CASE UNCHANGED vars
  BY <1>0, <1>9 DEF vars, LoggingIn, Told, InNet, Holds, Up
<1> QED
  BY <1>0, <1>1, <1>2, <1>3, <1>4, <1>5, <1>6, <1>7, <1>8, <1>9, NodeAnswers
     DEF Next, LinkError, Returned

\* Of a pattern that no free text can be mistaken for, what is found is meant.
LEMMA Meant ==
  ASSUME Settled, pc \in {"challenge", "verdict"}, NEW pattern,
         Unmistaken(pattern), Finds(buf, pattern)
  PROVE  Holds(buf, pattern)
<1>1. CASE pattern \notin call.words
  BY <1>1 DEF Finds, Holds
<1>2. CASE call.punctual /\ call.told
  <2>1. \A c \in buf : c.text # "banner"
    BY <1>2 DEF Settled, Told, Holds
  <2> QED
    BY <1>2, <2>1 DEF Finds, Holds, FreeTexts
<1> QED
  BY <1>1, <1>2 DEF Unmistaken

LEMMA SettledStep == Inv /\ Reading /\ Next => Settled'
<1> SUFFICES ASSUME Inv, Reading, Next, call'.punctual PROVE Settled'
  BY DEF Settled
<1>0. TypeOK /\ Waiting /\ Elevating /\ LoggingIn /\ Settled /\ Linked
  BY DEF Inv, Reading
<1> USE DEF Up
<1>1. CASE ReadMore
  <2>1. /\ net # <<>> /\ net' = Tail(net) /\ buf' = buf \cup {Head(net)}
        /\ UNCHANGED <<call, pc, sent, mode>> /\ pc # "ready"
    BY <1>1 DEF ReadMore, node, Listening
  <2>2. \A text : Told(text)' <=> Told(text)
    BY <1>0, <2>1, ReadTells
  <2> QED
    BY <1>0, <2>1, <2>2 DEF Settled, Unmistaken
<1>2. CASE (EndLogin \/ NoChallenge \/ EndElevate) /\ ~Fail
  <2>1. /\ pc \in {"banner", "challenge", "verdict"} /\ pc' = "ready"
        /\ MayExpire
        /\ UNCHANGED <<call, buf, net, sent, mode>>
    BY <1>2 DEF EndLogin, NoChallenge, EndElevate, node, ReadOver, IdleGap, Deadline
  <2>2. net = <<>> /\ sent = <<>>
    BY <1>0, <2>1, Quiet
  <2>3. \A text : Told(text) => Holds(buf, text)
    BY <2>2 DEF Told, InNet
  <2>4. CASE EndLogin /\ Up
    <3>1. ~(call.login /\ Holds(buf, "loginFailed"))
      BY <1>2, <2>4 DEF EndLogin, LoginRefused, Finds, Holds
    <3> QED
      BY <1>0, <2>1, <2>2, <2>3, <2>4, <3>1 DEF Settled, LoggingIn, EndLogin
  <2>5. CASE NoChallenge /\ Up
    <3>1. ~Holds(buf, "challenge") /\ pc = "challenge"
      BY <2>5 DEF NoChallenge, Challenged, Finds, Holds
    <3> QED
      BY <1>0, <2>1, <2>2, <2>3, <2>5, <3>1 DEF Settled
  <2>6. CASE EndElevate /\ Up
    BY <1>0, <2>1, <2>2, <2>6 DEF Settled, EndElevate
  <2>7. CASE ~Up
    BY <2>1, <2>2, <2>7 DEF Settled
  <2> QED
    BY <1>2, <2>4, <2>5, <2>6, <2>7
<1>3. CASE SendElevate
  <2>1. /\ pc = "ready" /\ pc' = "challenge" /\ Send("elevate")
        /\ UNCHANGED <<call, mode>>
    BY <1>3 DEF SendElevate, node
  <2>2. sent = <<>> /\ (Up => mode \in {"user", "sys"})
    BY <1>0, <2>1 DEF Settled
  <2>3. Up => sent' = <<"elevate">>
    BY <2>1, <2>2 DEF Send
  <2>4. ~Told("banner")'
    <3>1. net' = <<>> /\ buf' = {}
      BY <1>0, <1>3, <2>1 DEF SendElevate, Settled
    <3> QED
      BY <3>1 DEF Told, InNet, Holds
  <2> QED
    BY <2>1, <2>2, <2>3, <2>4 DEF Settled
<1>4. CASE AnswerChallenge /\ ~Fail
  <2>1. /\ pc = "challenge" /\ pc' = "verdict" /\ Send("answer")
        /\ UNCHANGED <<call, net, mode>> /\ MayExpire /\ Finds(buf, "challenge")
        /\ buf' = {}
    BY <1>4 DEF AnswerChallenge, node, ReadOver, IdleGap, Deadline, Challenged
  <2>2. net = <<>> /\ sent = <<>>
    BY <1>0, <2>1, Quiet
  <2>3. Up => sent' = <<"answer">>
    BY <2>1, <2>2 DEF Send
  <2>4. Up => \/ mode = "challenge"
              \/ ~Unmistaken("challenge") /\ mode \in {"user", "sys"}
    <3>1. CASE Unmistaken("challenge")
      <4>1. Holds(buf, "challenge")
        BY <1>0, <2>1, <3>1, Meant
      <4> QED
        BY <1>0, <2>1, <2>2, <4>1 DEF Elevating
    <3>2. CASE ~Unmistaken("challenge")
      BY <1>0, <2>1, <3>2 DEF Settled
    <3> QED
      BY <3>1, <3>2
  <2>5. ~Told("banner")' /\ (Unmistaken("challenge")' <=> Unmistaken("challenge"))
    BY <2>1, <2>2 DEF Told, InNet, Holds, Unmistaken
  <2> QED
    BY <2>1, <2>3, <2>4, <2>5 DEF Settled
<1>5. CASE Fail
  BY <1>5 DEF Fail, Raise, Settled
<1>6. CASE Cancel
  BY <1>6 DEF Cancel, Raise, Settled
<1>7. CASE Transport /\ ~Fail /\ ~ReadMore /\ ~EndLogin /\ ~NoChallenge
             /\ ~EndElevate /\ ~SendElevate /\ ~AnswerChallenge
  <2>1. pc' \notin {"ready", "challenge", "verdict"}
    BY <1>7 DEF Transport, Connect, Elevate, Run, Disconnect, OpenSsh, OpenTelnet,
       ReadPastPrompt, SendUser, SendPassword, NoPrompt, RunCommand, EndCommand,
       EndCapture, SayBye, Close, Prompting
  <2> QED
    BY <2>1 DEF Settled
<1>8. CASE Answered
  <2>1. PICK line \in Lines, texts \in Seq(Texts) : Hearing(line, texts)
    BY <1>8 DEF Answered
  <2>2. /\ Hears(line) /\ UNCHANGED <<call, pc, chan, buf>> /\ Telling(line, texts)
    BY <2>1 DEF Hearing, client
  <2>3. Up /\ sent # <<>> /\ sent[1] = line /\ (Len(sent) = 1 => sent' = <<>>)
    BY <1>0, <2>2, Heard
  <2>4. pc # "ready"
    BY <1>0, <2>2, <2>3 DEF Settled
  <2>5. \A text : Told(text) => Told(text)'
    BY <1>0, <2>1, HearingTells
  <2>6. \A text : Contains(texts, text) /\ line # "bye" /\ pc \in {"challenge", "verdict"}
                    => Told(text)'
    BY <1>0, <2>2, Heralded DEF Telling, Linked, Told
  <2>0. pc \in {"challenge", "verdict"} => ~Told("banner")'
    <3> SUFFICES ASSUME pc \in {"challenge", "verdict"} PROVE ~Told("banner")'
      OBVIOUS
    <3>1. ~Told("banner") /\ mode # "password"
      BY <1>0, <2>2, <2>3 DEF Settled
    <3>2. ~Contains(texts, "banner")
      BY <2>2, <3>1 DEF Telling
    <3>3. ~InNet("banner")'
      BY <1>0, <2>1, <3>1, <3>2, Replied DEF Hearing, Told, Contains
    <3> QED
      BY <2>2, <3>1, <3>3 DEF Told, Holds
  <2>7. CASE pc = "challenge"
    <3>1. sent = <<"elevate">> /\ mode \in {"user", "sys"}
      BY <1>0, <2>2, <2>3, <2>7 DEF Settled
    <3>2. sent' = <<>> /\ line = "elevate"
      BY <2>3, <3>1
    <3>3. \/ mode' \in {"user", "sys"}
          \/ mode' = "challenge" /\ Contains(texts, "challenge")
      BY <2>2, <3>1, <3>2 DEF Telling
    <3> QED
      BY <2>0, <2>2, <2>6, <2>7, <3>2, <3>3 DEF Settled
  <2>8. CASE pc = "verdict"
    <3>1. /\ sent = <<"answer">>
          /\ \/ mode = "challenge"
             \/ ~Unmistaken("challenge") /\ mode \in {"user", "sys"}
      BY <1>0, <2>2, <2>3, <2>8 DEF Settled
    <3>2. sent' = <<>> /\ line = "answer"
      BY <2>3, <3>1
    <3>3. \/ mode' = "sys"
          \/ mode' = "user" /\ (call.silent \/ Contains(texts, "rejected"))
          \/ ~Unmistaken("challenge") /\ mode' \in {"user", "sys"}
      BY <2>2, <3>1, <3>2 DEF Telling
    <3>4. Unmistaken("challenge")' <=> Unmistaken("challenge")
      BY <2>2 DEF Unmistaken
    <3> QED
      BY <2>0, <2>2, <2>6, <2>8, <3>2, <3>3, <3>4 DEF Settled
  <2> QED
    BY <2>2, <2>4, <2>7, <2>8 DEF Settled
<1>9. CASE LinkDies
  <2>1. /\ UNCHANGED <<call, pc, buf>> /\ sent' = <<>> /\ mode' = "off"
        /\ net' \in {net, <<>>}
    BY <1>9 DEF LinkDies, client
  <2>2. Told("banner")' => Told("banner")
    BY <1>0, <2>1, Read DEF Told, Holds
  <2> QED
    BY <1>0, <2>1, <2>2 DEF Settled, InNet
<1>10. CASE UNCHANGED vars
  BY <1>0, <1>10 DEF vars, Settled, Told, InNet, Holds, Unmistaken
<1> QED
  BY <1>0, <1>1, <1>2, <1>3, <1>4, <1>5, <1>6, <1>7, <1>8, <1>9, <1>10, NodeAnswers
     DEF Next, LinkError, Returned

LEMMA ReplyingStep == Inv /\ Reading /\ Next => Replying'
<1> SUFFICES ASSUME Inv, Reading, Next, call'.punctual PROVE Replying'
  BY DEF Replying
<1>0. TypeOK /\ Settled /\ Replying
  BY DEF Inv, Reading
<1> USE DEF Up
<1>1. CASE ReadMore
  <2>1. /\ net # <<>> /\ net' = Tail(net) /\ buf' = buf \cup {Head(net)}
        /\ UNCHANGED <<call, pc, result, sent, mode, log>> /\ pc \in Listening
    BY <1>1 DEF ReadMore, node
  <2>2. /\ 1 \in DOMAIN net /\ Head(net) = net[1]
        /\ \A i \in DOMAIN net' : i + 1 \in DOMAIN net /\ net'[i] = net[i + 1]
    BY <1>0, <2>1 DEF TypeOK
  <2>3. result # "output"
    BY <1>0, <2>1 DEF Replying, Listening
  <2>4. ASSUME pc \in {"reply", "window"}
        PROVE  /\ \A i \in DOMAIN net' : net'[i].of = "cmd"
               /\ \A c \in buf' : c.of = "cmd"
               /\ Executed("cmd")'
    BY <1>0, <2>1, <2>2, <2>4 DEF Replying, Executed
  <2> QED
    BY <1>0, <2>1, <2>3, <2>4 DEF Replying
<1>2. CASE RunCommand
  <2>1. /\ pc = "ready" /\ pc' \in {"reply", "window"} /\ Send("cmd") /\ buf' = {}
        /\ UNCHANGED <<call, result, net, mode, log>>
    BY <1>2 DEF RunCommand, node
  <2>2. net = <<>> /\ sent = <<>> /\ (Up => mode \in {"user", "sys"})
    BY <1>0, <2>1 DEF Settled
  <2>3. \A i \in DOMAIN sent' : sent'[i] = "cmd"
    BY <2>1, <2>2 DEF Send
  <2>4. result # "output"
    BY <1>0, <2>1 DEF Replying
  <2> QED
    BY <2>1, <2>2, <2>3, <2>4 DEF Replying
<1>3. CASE EndCommand \/ EndCapture
  BY <1>0, <1>3 DEF EndCommand, EndCapture, Replying, node, Executed
<1>4. CASE Fail
  BY <1>4 DEF Fail, Raise, Replying
<1>5. CASE Cancel
  BY <1>5 DEF Cancel, Raise, Replying
<1>6. CASE SayBye \/ Close
  BY <1>0, <1>6 DEF SayBye, Close, Replying, node, Executed
<1>7. CASE (Connect \/ Elevate) /\ ~Fail
  <2>1. /\ pc \in Connecting \cup {"ready", "challenge", "verdict"}
        /\ pc' \notin {"reply", "window"} /\ UNCHANGED <<call, result>>
    BY <1>7 DEF Connect, Elevate, OpenSsh, OpenTelnet, ReadPastPrompt, SendUser,
       SendPassword, NoPrompt, EndLogin, SendElevate, AnswerChallenge,
       NoChallenge, EndElevate, Connecting, Prompting
  <2> QED
    BY <1>0, <2>1 DEF Replying, Connecting
<1>8. CASE Answered
  <2>1. PICK line \in Lines, texts \in Seq(Texts) : Hearing(line, texts)
    BY <1>8 DEF Answered
  <2>2. /\ Hears(line) /\ UNCHANGED <<call, pc, buf, result>> /\ Telling(line, texts)
        /\ Reply(line, texts) \/ net' = net
    BY <2>1 DEF Hearing, client
  <2>3. Executed("cmd") => Executed("cmd")'
    <3>1. log' = log \/ log' = Append(log, [line |-> line, mode |-> mode])
      BY <2>1 DEF Hearing
    <3>2. CASE log' = log
      BY <3>2 DEF Executed
    <3>3. CASE log' = Append(log, [line |-> line, mode |-> mode])
      <4>1. \A i \in DOMAIN log : i \in DOMAIN log' /\ log'[i] = log[i]
        BY <1>0, <3>3 DEF TypeOK
      <4> QED
        BY <4>1 DEF Executed
    <3> QED
      BY <3>1, <3>2, <3>3
  <2>4. Up /\ sent # <<>> /\ sent[1] = line /\ 1 \in DOMAIN sent
        /\ \A i \in DOMAIN sent' : i + 1 \in DOMAIN sent /\ sent'[i] = sent[i + 1]
    BY <1>0, <2>2, Heard
  <2>5. ASSUME pc \in {"reply", "window"}
        PROVE  /\ \A i \in DOMAIN sent' : sent'[i] = "cmd"
               /\ \A i \in DOMAIN net' : net'[i].of = "cmd"
               /\ mode' \in {"user", "sys"}
               /\ Executed("cmd")'
    <3>1. line = "cmd" /\ mode \in {"user", "sys"}
      BY <1>0, <2>2, <2>4, <2>5 DEF Replying
    <3>2. \A i \in DOMAIN net' : net'[i].of = "cmd"
      BY <1>0, <2>2, <2>5, <3>1, RepliedOf DEF Replying
    <3>3. mode' = mode /\ log' = Append(log, [line |-> line, mode |-> mode])
      BY <2>2, <3>1 DEF Telling
    <3>4. Executed("cmd")'
      BY <1>0, <3>1, <3>3 DEF Executed, TypeOK
    <3> QED
      BY <1>0, <2>2, <2>4, <2>5, <3>1, <3>2, <3>3, <3>4 DEF Replying
  <2> QED
    BY <1>0, <2>2, <2>3, <2>5 DEF Replying
<1>9. CASE LinkDies
  <2>1. /\ UNCHANGED <<call, pc, buf, result, log>> /\ sent' = <<>>
        /\ ~Up' /\ net' \in {net, <<>>}
    BY <1>9 DEF LinkDies, client
  <2> QED
    BY <1>0, <2>1 DEF Replying, Executed
<1>10. CASE UNCHANGED vars
  BY <1>0, <1>10 DEF vars, Replying, Executed
<1> QED
  BY <1>0, <1>1, <1>2, <1>3, <1>4, <1>5, <1>6, <1>7, <1>8, <1>9, <1>10, NodeAnswers
     DEF Next, LinkError, Returned, Transport, Run, Disconnect

LEMMA ReadingInv == Spec => []Reading
<1>1. Init => Reading
  BY DEF Init, Reading, Linked, LoggingIn, Settled, Replying, Prompting
<1>2. Inv /\ Reading /\ [Next]_vars => Reading'
  <2> SUFFICES ASSUME Inv, Reading, [Next]_vars PROVE Reading'
    OBVIOUS
  <2>1. CASE Next
    BY <2>1, LinkedStep, LoggingInStep, SettledStep, ReplyingStep DEF Reading
  <2>2. CASE UNCHANGED vars
    BY <2>2 DEF Reading, vars, Linked, LoggingIn, Settled, Replying, Told, InNet,
       Holds, Executed, Up, Unmistaken
  <2> QED
    BY <2>1, <2>2
<1> QED
  BY <1>1, <1>2, SpecInv, PTL DEF Spec

\* What run_command or capture returns of a punctual node is the node's reply to
\* this command alone: the reads before it left nothing behind.
THEOREM OwnOutput == Spec => []OutputIsOwn
<1>1. Reading => OutputIsOwn
  BY DEF Reading, Replying, OutputIsOwn
<1> QED
  BY <1>1, ReadingInv, PTL

\* A text returned of a punctual node means the node took the line for a command
\* and executed it: no user name, password or answer was mistaken for it.
THEOREM TextMeansRun == Spec => []OutputMeansRun
<1>1. Reading => OutputMeansRun
  BY DEF Reading, Replying, OutputMeansRun, Executed
<1> QED
  BY <1>1, ReadingInv, PTL

-----------------------------------------------------------------------------
(* Where an answer is taken.                                                 *)

\* An answer in flight is the next line the node reads, and the node waits for
\* it: what was taken for a challenge was one.
Answering ==
  Unmistaken("challenge") =>
    /\ \A i \in DOMAIN sent : sent[i] = "answer" => i = 1 /\ mode = "challenge"
    /\ \A i \in DOMAIN log : log[i].line # "answer"

LEMMA CallKept == TypeOK /\ Next => UNCHANGED call
<1> SUFFICES ASSUME TypeOK, Next PROVE UNCHANGED call
  OBVIOUS
<1>1. CASE Transport
  BY <1>1 DEF Transport, Connect, Elevate, Run, Disconnect, OpenSsh, OpenTelnet,
     ReadPastPrompt, SendUser, SendPassword, NoPrompt, EndLogin, SendElevate,
     AnswerChallenge, NoChallenge, EndElevate, RunCommand, ReadMore, EndCommand,
     EndCapture, SayBye, Close, Fail
<1>2. CASE LinkError \/ Cancel \/ Returned
  BY <1>2 DEF LinkError, Cancel, Fail, Returned, vars
<1>3. CASE Node
  BY <1>3, NodeAnswers DEF Answered, Hearing, LinkDies, client
<1> QED
  BY <1>1, <1>2, <1>3 DEF Next

LEMMA AnsweringStep == Inv /\ Reading /\ Answering /\ Next => Answering'
<1> SUFFICES ASSUME Inv, Reading, Answering, Next, Unmistaken("challenge")'
             PROVE  Answering'
  BY DEF Answering
<1>0. TypeOK /\ Waiting /\ Elevating /\ Lockstep /\ Settled
  BY DEF Inv, Reading
<1>a. Unmistaken("challenge")
  BY <1>0, CallKept DEF Unmistaken
<1>b. /\ \A i \in DOMAIN sent : sent[i] = "answer" => i = 1 /\ mode = "challenge"
      /\ \A i \in DOMAIN log : log[i].line # "answer"
  BY <1>a DEF Answering
<1>1. CASE Silence
  BY <1>0, <1>1, <1>b, SilenceKeeps DEF Answering
<1>2. CASE Dials
  <2>1. sent' = <<>> /\ log' = log
    BY <1>0, <1>2, DialsFresh DEF Lockstep
  <2> QED
    BY <1>b, <2>1 DEF Answering
<1>3. ASSUME NEW line \in Lines, Speaks(line) PROVE Answering'
  <2>1. Send(line) /\ UNCHANGED <<mode, log>>
    BY <1>0, <1>3, SpeaksOnCue
  <2>2. CASE ~Up
    BY <1>0, <1>b, <2>1, <2>2, Said DEF Answering
  <2>3. CASE Up /\ line = "answer"
    <3>1. pc = "challenge" /\ Finds(buf, "challenge")
      BY <1>0, <1>3, <2>3, SpeaksOnCue DEF Challenged
    <3>2. Holds(buf, "challenge")
      BY <1>0, <1>a, <3>1, Meant
    <3>3. sent = <<>> /\ mode = "challenge"
      BY <1>0, <2>3, <3>1, <3>2 DEF Elevating
    <3>4. Len(sent') = 1 /\ \A i \in DOMAIN sent' : i = 1
      BY <1>0, <2>1, <2>3, <3>3, Said
    <3> QED
      BY <1>b, <2>1, <3>3, <3>4 DEF Answering
  <2>4. CASE Up /\ line # "answer"
    BY <1>0, <1>b, <2>1, <2>4, Said DEF Answering
  <2> QED
    BY <2>2, <2>3, <2>4
<1>4. CASE Answered
  <2>1. PICK line \in Lines, texts \in Seq(Texts) : Hearing(line, texts)
    BY <1>4 DEF Answered
  <2>2. Hears(line)
    BY <2>1 DEF Hearing
  <2>3. sent[1] = line /\ 1 \in DOMAIN sent
    BY <1>0, <2>2, Heard
  <2>4. \A i \in DOMAIN sent' : sent'[i] # "answer"
    <3> TAKE i \in DOMAIN sent'
    <3>1. i \in Nat /\ i >= 1 /\ i + 1 \in DOMAIN sent /\ sent'[i] = sent[i + 1]
      BY <1>0, <2>2, Heard
    <3> QED
      BY <1>b, <3>1
  <2>5. \A i \in DOMAIN log' : log'[i].line # "answer"
    <3>1. CASE log' = log
      BY <1>b, <3>1
    <3>2. CASE mode \in {"user", "sys"}
               /\ log' = Append(log, [line |-> line, mode |-> mode])
      <4>1. line # "answer"
        BY <1>b, <2>3, <3>2
      <4>2. \A i \in DOMAIN log' : \/ i \in DOMAIN log /\ log'[i] = log[i]
                                   \/ log'[i].line = line
        BY <1>0, <3>2 DEF TypeOK
      <4> QED
        BY <1>b, <4>1, <4>2
    <3> QED
      BY <2>1, <3>1, <3>2 DEF Hearing
  <2> QED
    BY <2>4, <2>5 DEF Answering
<1>5. CASE LinkDies
  BY <1>5, <1>b DEF LinkDies, Answering
<1>6. CASE UNCHANGED vars
  BY <1>6, <1>b DEF vars, Answering
<1> QED
  BY <1>0, <1>1, <1>2, <1>3, <1>4, <1>5, <1>6, StepKinds

LEMMA AnsweringInv == Spec => []Answering
<1>1. Init => Answering
  BY DEF Init, Answering
<1>2. Inv /\ Reading /\ Answering /\ [Next]_vars => Answering'
  <2>1. Answering /\ UNCHANGED vars => Answering'
    BY DEF Answering, vars, Unmistaken
  <2> QED
    BY <2>1, AnsweringStep
<1> QED
  BY <1>1, <1>2, SpecInv, ReadingInv, PTL DEF Spec

\* No node executes, echoes or logs a password as a command, whatever its text
\* looks like; nor the answer to a challenge, where no late or free text can be
\* mistaken for a challenge.
THEOREM SecretsKept == Spec => []NoSecretRun
<1>1. Inv /\ Answering => NoSecretRun
  BY DEF Inv, PasswordKept, Answering, NoSecretRun
<1> QED
  BY <1>1, SpecInv, AnsweringInv, PTL

-----------------------------------------------------------------------------
(* Where an elevated command runs.                                           *)

\* The elevation is asked for once, and answered before anything else is said.
AskedOnce ==
  /\ pc \in Connecting \cup {"ready"} /\ ~sysActive => ~InSent("answer")
  /\ \A i, j \in DOMAIN sent : sent[i] = "elevate" /\ sent[j] = "elevate" => i = j
  /\ \A i, j \in DOMAIN sent : sent[i] = "elevate" /\ sent[j] = "answer" => i < j

AtSysop == mode \in {"sys", "off"} /\ ~InSent("elevate")

\* BPQ says Ok to a session at its sysop prompt, and to no other.
OkMeant ==
  call.kind = "bpq" =>
    /\ Told("ok") => AtSysop
    /\ pc \in Connecting \cup {"ready"} /\ ~sysActive => ~Told("ok")

\* From the elevation to the execution of the command the node stays at the
\* sysop prompt, unless it hangs up.
Elevation ==
  Elevates /\ Trusted =>
    /\ sysActive \/ InSent("cmd") => AtSysop
    /\ \A i \in DOMAIN log : log[i].line = "cmd" => log[i].mode = "sys"

Sysop == AskedOnce /\ OkMeant /\ Elevation

\* What has just been sent comes after all that was sent before.
LEMMA SaidLast ==
  ASSUME TypeOK, NEW line \in Lines, Send(line), NEW i \in DOMAIN sent',
         NEW j \in DOMAIN sent'
  PROVE  \/ i \in DOMAIN sent /\ sent'[i] = sent[i] /\ j \in DOMAIN sent
            /\ sent'[j] = sent[j]
         \/ sent'[i] = line /\ j \in DOMAIN sent /\ sent'[j] = sent[j]
         \/ i < j /\ sent'[j] = line
         \/ i = j
<1>1. CASE Up
  <2>1. sent' = Append(sent, line) /\ sent \in Seq(Lines)
    BY <1>1 DEF Send, TypeOK
  <2> QED
    BY <2>1
<1>2. CASE ~Up
  BY <1>2 DEF Send
<1> QED
  BY <1>1, <1>2

LEMMA AskedOnceStep == Inv /\ AskedOnce /\ Next => AskedOnce'
<1> SUFFICES ASSUME Inv, AskedOnce, Next PROVE AskedOnce'
  OBVIOUS
<1>0. TypeOK /\ Elevating /\ Waiting /\ Lockstep
  BY DEF Inv
<1>1. CASE Silence
  <2>1. UNCHANGED sent
    BY <1>0, <1>1, SilenceKeeps
  <2>2. pc' \in Connecting \cup {"ready"} /\ ~sysActive' =>
          pc \in Connecting \cup {"ready"} /\ ~sysActive
    BY <1>0, <1>1, SilenceKeeps DEF Connecting
  <2> QED
    BY <2>1, <2>2 DEF AskedOnce, InSent
<1>2. CASE Dials
  <2>1. sent' = <<>>
    BY <1>0, <1>2, DialsFresh DEF Lockstep
  <2> QED
    BY <2>1 DEF AskedOnce, InSent
<1>3. ASSUME NEW line \in Lines, Speaks(line) PROVE AskedOnce'
  <2>1. Send(line) /\ UNCHANGED <<mode, sysActive>>
    BY <1>0, <1>3, SpeaksOnCue
  <2>2. \A other : InSent(other)' => other = line \/ InSent(other)
    BY <1>0, <2>1, Said
  <2>3. CASE line \in {"user", "password"}
    <3>1. pc \in Connecting
      BY <1>0, <1>3, <2>3, SpeaksOnCue DEF Connecting
    <3>2. \A i, j \in DOMAIN sent' : sent'[i] = "elevate" /\ sent'[j] = "elevate" => i = j
      BY <1>0, <2>1, <2>3, Said DEF AskedOnce
    <3>3. ~InSent("answer") /\ ~sysActive
      BY <1>0, <3>1 DEF Elevating, AskedOnce
    <3>4. ~InSent("answer")'
      BY <2>2, <2>3, <3>3
    <3> QED
      BY <3>2, <3>4 DEF AskedOnce, InSent
  <2>4. CASE line = "elevate"
    <3>1. pc = "ready" /\ ~sysActive
      BY <1>0, <1>3, <2>4, SpeaksOnCue
    <3>2. ~InSent("answer") /\ ~InSent("elevate")
      BY <1>0, <3>1 DEF Elevating, AskedOnce
    <3>3. ~InSent("answer")'
      BY <2>2, <2>4, <3>2
    <3>4. \A i, j \in DOMAIN sent' : sent'[i] = "elevate" /\ sent'[j] = "elevate" => i = j
      BY <1>0, <2>1, <3>2, Said DEF InSent
    <3> QED
      BY <3>3, <3>4 DEF AskedOnce, InSent
  <2>5. CASE line = "answer"
    <3>1. pc' = "verdict"
      BY <1>0, <1>3, <2>5, SpeaksOnCue
    <3>2. \A i, j \in DOMAIN sent' : sent'[i] = "elevate" /\ sent'[j] = "elevate" => i = j
      BY <1>0, <2>1, <2>5, Said DEF AskedOnce
    <3>3. \A i, j \in DOMAIN sent' : sent'[i] = "elevate" /\ sent'[j] = "answer" => i < j
      BY <1>0, <2>1, <2>5, SaidLast DEF AskedOnce
    <3> QED
      BY <3>1, <3>2, <3>3 DEF AskedOnce, Connecting
  <2>6. CASE line \in {"cmd", "bye"}
    <3>1. pc' \notin Connecting \cup {"ready"}
      BY <1>0, <1>3, <2>6, SpeaksOnCue DEF Connecting
    <3>2. \A i, j \in DOMAIN sent' : sent'[i] = "elevate" /\ sent'[j] = "elevate" => i = j
      BY <1>0, <2>1, <2>6, Said DEF AskedOnce
    <3>3. \A i, j \in DOMAIN sent' : sent'[i] = "elevate" /\ sent'[j] = "answer" => i < j
      BY <1>0, <2>1, <2>6, SaidLast DEF AskedOnce
    <3> QED
      BY <3>1, <3>2, <3>3 DEF AskedOnce
  <2> QED
    BY <2>3, <2>4, <2>5, <2>6 DEF Lines
<1>4. CASE Answered
  <2>1. PICK line \in Lines : Hears(line) /\ UNCHANGED <<pc, sysActive>>
    BY <1>4 DEF Answered, Hearing, client
  <2>2. /\ \A other : InSent(other)' => InSent(other)
        /\ \A i \in DOMAIN sent' : i + 1 \in DOMAIN sent /\ sent'[i] = sent[i + 1]
        /\ \A i \in DOMAIN sent' : i \in Nat
    BY <1>0, <2>1, Heard
  <2>3. \A i, j \in DOMAIN sent' : sent'[i] = "elevate" /\ sent'[j] = "elevate" => i = j
    <3> TAKE i, j \in DOMAIN sent'
    <3>1. sent'[i] = "elevate" /\ sent'[j] = "elevate" => i + 1 = j + 1
      BY <2>2 DEF AskedOnce
    <3> QED
      BY <2>2, <3>1
  <2>4. \A i, j \in DOMAIN sent' : sent'[i] = "elevate" /\ sent'[j] = "answer" => i < j
    <3> TAKE i, j \in DOMAIN sent'
    <3>1. sent'[i] = "elevate" /\ sent'[j] = "answer" => i + 1 < j + 1
      BY <2>2 DEF AskedOnce
    <3> QED
      BY <2>2, <3>1
  <2> QED
    BY <2>1, <2>2, <2>3, <2>4 DEF AskedOnce
<1>5. CASE LinkDies
  BY <1>5 DEF LinkDies, AskedOnce, InSent
<1>6. CASE UNCHANGED vars
  BY <1>6 DEF vars, AskedOnce, InSent
<1> QED
  BY <1>0, <1>1, <1>2, <1>3, <1>4, <1>5, <1>6, StepKinds

\* The elevation waits once at most and before its answer, so where either has
\* been heard it no longer waits.
LEMMA ElevateHeard ==
  ASSUME TypeOK, AskedOnce, NEW line \in {"elevate", "answer"}, Hears(line)
  PROVE  ~InSent("elevate")'
<1>1. /\ sent[1] = line /\ 1 \in DOMAIN sent
      /\ \A i \in DOMAIN sent' :
           i \in Nat /\ i >= 1 /\ i + 1 \in DOMAIN sent /\ sent'[i] = sent[i + 1]
  BY Heard
<1> SUFFICES ASSUME NEW i \in DOMAIN sent', sent'[i] = "elevate" PROVE FALSE
  BY DEF InSent
<1>2. i + 1 = 1 \/ i + 1 < 1
  BY <1>1 DEF AskedOnce
<1> QED
  BY <1>1, <1>2

\* Nothing but the end of the session takes the node from the sysop prompt.
LEMMA SysopKept ==
  ASSUME TypeOK, AtSysop, Answered
  PROVE  AtSysop'
<1>1. PICK line \in Lines, texts \in Seq(Texts) : Hearing(line, texts)
  BY DEF Answered
<1>2. Hears(line) /\ Telling(line, texts)
  BY <1>1 DEF Hearing
<1>3. InSent(line) /\ (InSent("elevate")' => InSent("elevate")) /\ Up
  BY <1>2, Heard DEF InSent
<1> QED
  BY <1>2, <1>3 DEF AtSysop, Telling, Up

LEMMA OkMeantStep == Inv /\ Sysop /\ Next => OkMeant'
<1> SUFFICES ASSUME Inv, Sysop, Next, call'.kind = "bpq" PROVE OkMeant'
  BY DEF OkMeant
<1>0. TypeOK /\ Elevating /\ Waiting /\ Lockstep /\ AskedOnce /\ OkMeant
  BY DEF Inv, Sysop
<1>1. CASE Silence
  <2>1. UNCHANGED <<call, sent, mode>>
    <3>1. UNCHANGED <<sent, mode>>
      BY <1>0, <1>1, SilenceKeeps
    <3>2. UNCHANGED call
      BY <1>1 DEF Silence, OpenSsh, ReadPastPrompt, NoPrompt, EndLogin, NoChallenge,
         EndElevate, ReadMore, EndCommand, EndCapture, LinkError, Close, Cancel, Fail
    <3> QED
      BY <3>1, <3>2
  <2>2. Told("ok")' => Told("ok")
    <3>1. CASE ReadMore \/ ReadPastPrompt
      BY <1>0, <3>1, ReadTells DEF ReadMore, ReadPastPrompt
    <3>2. CASE ~ReadMore /\ ~ReadPastPrompt
      <4>1. buf' = buf
        BY <1>1, <3>2 DEF Silence, OpenSsh, NoPrompt, EndLogin, NoChallenge,
           EndElevate, EndCommand, EndCapture, LinkError, Close, Cancel, Fail
      <4>2. InNet("ok")' => InNet("ok")
        BY <1>0, <1>1, SilenceKeeps, Read
      <4> QED
        BY <4>1, <4>2 DEF Told, Holds
    <3> QED
      BY <3>1, <3>2
  <2>3. pc' \in Connecting \cup {"ready"} /\ ~sysActive' =>
          pc \in Connecting \cup {"ready"} /\ ~sysActive
    BY <1>0, <1>1, SilenceKeeps DEF Connecting
  <2> QED
    BY <1>0, <2>1, <2>2, <2>3 DEF OkMeant, AtSysop, InSent
<1>2. CASE Dials
  <2>1. PICK text \in {"loginPrompt", "prompt"} :
          net' = << [of |-> "connect", text |-> "banner"],
                    [of |-> "connect", text |-> text] >>
    BY <1>2 DEF Dials, OpenTelnet
  <2>2. ~InNet("ok")'
    BY <2>1 DEF InNet
  <2>3. UNCHANGED <<call, buf>> /\ pc \in Connecting
    BY <1>2 DEF Dials, OpenTelnet, Connecting
  <2>4. ~Told("ok")'
    BY <1>0, <2>2, <2>3 DEF OkMeant, Told, Holds, Elevating
  <2> QED
    BY <2>4 DEF OkMeant
<1>3. ASSUME NEW line \in Lines, Speaks(line) PROVE OkMeant'
  <2>1. /\ Send(line) /\ UNCHANGED <<mode, sysActive>>
        /\ net' \in {net, <<>>} \/ (net # <<>> /\ net' = Tail(net))
    BY <1>0, <1>3, SpeaksOnCue
  <2>2. UNCHANGED call /\ (buf' = buf \/ buf' = {})
    BY <1>3 DEF Speaks, SendUser, SendPassword, SendElevate, AnswerChallenge,
       RunCommand, SayBye
  <2>3. Told("ok")' => Told("ok")
    <3>1. InNet("ok")' => InNet("ok")
      BY <1>0, <2>1, Read
    <3> QED
      BY <2>2, <3>1 DEF Told, Holds
  <2>4. InSent("elevate")' => InSent("elevate") \/ line = "elevate"
    BY <1>0, <2>1, Said
  <2>5. line = "elevate" => pc = "ready" /\ ~sysActive
    BY <1>0, <1>3, SpeaksOnCue
  <2>6. pc' \in Connecting \cup {"ready"} => pc \in Connecting \cup {"ready"}
    BY <1>0, <1>3, SpeaksOnCue DEF Lines, Connecting
  <2> QED
    BY <1>0, <2>1, <2>2, <2>3, <2>4, <2>5, <2>6 DEF OkMeant, AtSysop
<1>4. CASE Answered
  <2>1. PICK line \in Lines, texts \in Seq(Texts) : Hearing(line, texts)
    BY <1>4 DEF Answered
  <2>2. /\ Hears(line) /\ UNCHANGED <<call, pc, sysActive, buf>>
        /\ Telling(line, texts)
        /\ Reply(line, texts) \/ net' = net
    BY <2>1 DEF Hearing, client
  <2>3. Told("ok")' => Told("ok") \/ Contains(texts, "ok")
    BY <1>0, <2>2, Replied DEF Told, Holds, Contains
  <2>4. InSent(line) /\ \A other : InSent(other)' => InSent(other)
    BY <1>0, <2>2, Heard DEF InSent
  <2>5. Contains(texts, "ok") =>
          mode' = "sys" /\ ~InSent("elevate")' /\ (InSent("elevate") \/ InSent("answer"))
    <3> SUFFICES ASSUME Contains(texts, "ok")
                 PROVE  mode' = "sys" /\ ~InSent("elevate")'
                        /\ (InSent("elevate") \/ InSent("answer"))
      OBVIOUS
    <3>1. line \in {"elevate", "answer"} /\ mode' = "sys"
      BY <2>2 DEF Telling
    <3>2. ~InSent("elevate")'
      BY <1>0, <2>2, <3>1, ElevateHeard
    <3> QED
      BY <2>4, <3>1, <3>2
  <2>6. Told("ok") => AtSysop'
    BY <1>0, <1>4, <2>2, SysopKept DEF OkMeant
  <2>7. Told("ok")' => AtSysop'
    BY <2>3, <2>5, <2>6 DEF AtSysop
  <2>8. pc \in Connecting \cup {"ready"} /\ ~sysActive => ~Told("ok")'
    BY <1>0, <2>2, <2>3, <2>5 DEF OkMeant, AskedOnce, Elevating
  <2> QED
    BY <2>2, <2>7, <2>8 DEF OkMeant
<1>5. CASE LinkDies
  <2>1. /\ UNCHANGED <<call, pc, sysActive, buf>> /\ sent' = <<>> /\ mode' = "off"
        /\ net' \in {net, <<>>}
    BY <1>5 DEF LinkDies, client
  <2>2. Told("ok")' => Told("ok")
    BY <1>0, <2>1, Read DEF Told, Holds
  <2> QED
    BY <1>0, <2>1, <2>2 DEF OkMeant, AtSysop, InSent
<1>6. CASE UNCHANGED vars
  BY <1>0, <1>6 DEF vars, OkMeant, AtSysop, InSent, Told, InNet, Holds
<1> QED
  BY <1>0, <1>1, <1>2, <1>3, <1>4, <1>5, <1>6, StepKinds

\* An elevation that succeeds does so at the sysop prompt.
LEMMA ElevatedAtSysop ==
  ASSUME Inv, Reading, Sysop, Trusted, NoChallenge \/ EndElevate, ~Fail
  PROVE  AtSysop
<1>0. TypeOK /\ Waiting /\ OkMeant /\ Settled
  BY DEF Inv, Sysop, Reading
<1>1. CASE call.kind = "bpq"
  <2>1. Finds(buf, "ok") /\ pc \in {"challenge", "verdict"}
    BY <1>1 DEF NoChallenge, EndElevate, Accepted
  <2>2. Holds(buf, "ok")
    BY <1>0, <1>1, <2>1, Meant DEF Trusted
  <2> QED
    BY <1>0, <1>1, <2>2 DEF OkMeant, Told
<1>2. CASE call.kind # "bpq"
  <2>1. /\ EndElevate /\ call.punctual /\ ~call.silent /\ Unmistaken("challenge")
        /\ pc = "verdict" /\ MayExpire /\ ~Finds(buf, "rejected")
    BY <1>2 DEF Trusted, NoChallenge, EndElevate, Accepted, ReadOver, IdleGap, Deadline
  <2>2. net = <<>> /\ sent = <<>>
    BY <1>0, <2>1, Quiet
  <2>3. ~Told("rejected")
    BY <2>1, <2>2 DEF Told, InNet, Finds, Holds
  <2>4. Up => mode = "sys"
    BY <1>0, <2>1, <2>2, <2>3 DEF Settled
  <2> QED
    BY <2>2, <2>4 DEF AtSysop, InSent, Up
<1> QED
  BY <1>1, <1>2

LEMMA ElevationStep == Inv /\ Reading /\ Sysop /\ Next => Elevation'
<1> SUFFICES ASSUME Inv, Reading, Sysop, Next, (Elevates /\ Trusted)' PROVE Elevation'
  BY DEF Elevation
<1>0. TypeOK /\ Once /\ Elevation
  BY DEF Inv, Sysop
<1>1. UNCHANGED call
  BY <1>0, CallKept
<1>2. Elevates /\ Trusted
  BY <1>1 DEF Elevates, Trusted, Unmistaken
<1>3. CASE (NoChallenge \/ EndElevate) /\ ~Fail
  <2>1. AtSysop /\ UNCHANGED <<sent, mode, log>>
    BY <1>2, <1>3, ElevatedAtSysop DEF NoChallenge, EndElevate, node
  <2> QED
    BY <1>0, <1>2, <2>1 DEF Elevation, AtSysop, InSent
<1>4. CASE Fail \/ Cancel
  BY <1>0, <1>2, <1>4 DEF Fail, Cancel, Elevation, AtSysop, InSent, node
<1>5. CASE Dials
  <2>1. UNCHANGED <<sent, log, sysActive>> /\ pc = "dial"
    BY <1>0, <1>5, DialsFresh
  <2>2. ~sysActive /\ ~InSent("cmd")
    BY <1>0, <2>1 DEF Inv, Elevating, Once, Connecting
  <2> QED
    BY <1>0, <1>2, <2>1, <2>2 DEF Elevation, InSent
<1>6. ASSUME NEW line \in Lines, Speaks(line) PROVE Elevation'
  <2>1. Send(line) /\ UNCHANGED <<mode, log, sysActive>>
    BY <1>0, <1>6, SpeaksOnCue
  <2>2. \A other : InSent(other)' => other = line \/ InSent(other)
    BY <1>0, <2>1, Said
  <2>3. CASE line = "cmd"
    <3>1. sysActive
      BY <1>2, <1>6, <2>3 DEF Speaks, RunCommand
    <3> QED
      BY <1>0, <1>2, <2>1, <2>2, <2>3, <3>1 DEF Elevation, AtSysop
  <2>4. CASE line = "elevate"
    <3>1. pc = "ready" /\ ~sysActive
      BY <1>0, <1>6, <2>4, SpeaksOnCue
    <3>2. ~InSent("cmd")'
      BY <1>0, <2>2, <2>4, <3>1 DEF Once
    <3> QED
      BY <1>0, <1>2, <2>1, <3>1, <3>2 DEF Elevation
  <2>5. CASE line \notin {"cmd", "elevate"}
    BY <1>0, <1>2, <2>1, <2>2, <2>5 DEF Elevation, AtSysop
  <2> QED
    BY <2>3, <2>4, <2>5
<1>7. CASE Answered
  <2>1. PICK line \in Lines, texts \in Seq(Texts) : Hearing(line, texts)
    BY <1>7 DEF Answered
  <2>2. Hears(line) /\ UNCHANGED sysActive
    BY <2>1 DEF Hearing, client
  <2>3. InSent(line) /\ Up /\ \A other : InSent(other)' => InSent(other)
    BY <1>0, <2>2, Heard DEF InSent
  <2>4. sysActive' \/ InSent("cmd")' => AtSysop'
    BY <1>0, <1>2, <1>7, <2>2, <2>3, SysopKept DEF Elevation
  <2>5. CASE log' = log
    BY <1>0, <1>2, <2>4, <2>5 DEF Elevation
  <2>6. CASE log' = Append(log, [line |-> line, mode |-> mode])
    <3>1. line = "cmd" => mode = "sys"
      BY <1>0, <1>2, <2>3 DEF Elevation, AtSysop, Up
    <3>2. \A i \in DOMAIN log' :
            \/ i \in DOMAIN log /\ log'[i] = log[i]
            \/ log'[i].line = line /\ log'[i].mode = mode
      BY <1>0, <2>6 DEF TypeOK
    <3> QED
      BY <1>0, <1>2, <2>4, <3>1, <3>2 DEF Elevation
  <2> QED
    BY <2>1, <2>5, <2>6 DEF Hearing
<1>8. CASE LinkDies
  BY <1>0, <1>2, <1>8 DEF LinkDies, client, Elevation, AtSysop, InSent
<1>9. CASE Silence /\ ~NoChallenge /\ ~EndElevate /\ ~Fail /\ ~Cancel
  <2>1. UNCHANGED <<sent, mode, log>>
    BY <1>0, <1>9, SilenceKeeps
  <2>2. sysActive' => sysActive
    BY <1>9 DEF Silence, OpenSsh, ReadPastPrompt, NoPrompt, EndLogin, ReadMore,
       EndCommand, EndCapture, LinkError, Close
  <2> QED
    BY <1>0, <1>2, <2>1, <2>2 DEF Elevation, AtSysop, InSent
<1>10. CASE UNCHANGED vars
  BY <1>0, <1>2, <1>10 DEF vars, Elevation, AtSysop, InSent
<1> QED
  BY <1>0, <1>3, <1>4, <1>5, <1>6, <1>7, <1>8, <1>9, <1>10, StepKinds

LEMMA SysopInv == Spec => []Sysop
<1>1. Init => Sysop
  BY DEF Init, Sysop, AskedOnce, OkMeant, Elevation, Told, InNet, InSent, Holds
<1>2. Inv /\ Reading /\ Sysop /\ [Next]_vars => Sysop'
  <2> SUFFICES ASSUME Inv, Reading, Sysop, [Next]_vars PROVE Sysop'
    OBVIOUS
  <2>1. CASE Next
    BY <2>1, AskedOnceStep, OkMeantStep, ElevationStep DEF Sysop
  <2>2. CASE UNCHANGED vars
    BY <2>2 DEF Sysop, vars, AskedOnce, OkMeant, Elevation, AtSysop, Trusted,
       Unmistaken, Elevates, Told, InNet, InSent, Holds
  <2> QED
    BY <2>1, <2>2
<1> QED
  BY <1>1, <1>2, SpecInv, ReadingInv, PTL DEF Spec

\* The command of a tool that elevates is executed at the sysop prompt only: of
\* BPQ whatever is late or lost, as long as no other text can be read as its Ok;
\* of (X)Net if it refuses aloud and in time and its texts look like no challenge.
THEOREM ElevatedRuns == Spec => []RunsElevated
<1>1. Sysop => RunsElevated
  BY DEF Sysop, Elevation, RunsElevated
<1> QED
  BY <1>1, SysopInv, PTL

-----------------------------------------------------------------------------
(* The refinement of ToolCall.                                               *)
Resulted ==
  /\ pc \in {"exit", "closing", "done"} => result # "none"
  /\ pc # "done" => result # "unconnected"

LEMMA ResultedStep == TypeOK /\ Resulted /\ [Next]_vars => Resulted'
<1> SUFFICES ASSUME TypeOK, Resulted, [Next]_vars PROVE Resulted'
  OBVIOUS
<1> USE DEF Resulted, TypeOK
<1>1. CASE Connect
  BY <1>1 DEF Connect, OpenSsh, OpenTelnet, ReadPastPrompt, SendUser,
       SendPassword, NoPrompt, EndLogin, Fail, Raise, Connecting, Prompting
<1>2. CASE Elevate
  BY <1>2 DEF Elevate, SendElevate, AnswerChallenge, NoChallenge, EndElevate,
       Fail, Raise, Connecting
<1>3. CASE Run
  BY <1>3 DEF Run, RunCommand, ReadMore, EndCommand, EndCapture, Listening
<1>4. CASE Disconnect \/ Cancel \/ LinkError
  BY <1>4 DEF Disconnect, SayBye, Close, Cancel, LinkError, Fail, Raise,
       Connecting, Prompting, Listening
<1>5. CASE Node
  BY <1>5 DEF Node, client, NodeAsksPassword, NodeChecksPassword,
       NodeChallenges, NodeChecksAnswer, NodeExecutes, NodeHangsUp, LinkDies
<1>6. CASE UNCHANGED vars
  BY <1>6 DEF vars
<1> QED
  BY <1>1, <1>2, <1>3, <1>4, <1>5, <1>6 DEF Next, Transport, Returned

\* A node executes while the transport stands still; the transport moves without
\* the node executing; and a call that is over stays as it is.
LEMMA OneMoves ==
  ASSUME TypeOK, Next
  PROVE  /\ UNCHANGED log \/ (NodeExecutes /\ UNCHANGED client)
         /\ pc = "done" => UNCHANGED client
<1>1. CASE Transport
  BY <1>1 DEF Transport, Connect, OpenSsh, OpenTelnet, ReadPastPrompt, SendUser,
       SendPassword, NoPrompt, EndLogin, Elevate, SendElevate, AnswerChallenge,
       NoChallenge, EndElevate, Run, RunCommand, ReadMore, EndCommand,
       EndCapture, Disconnect, SayBye, Close, Fail, Prompting, Listening, node
<1>2. CASE Cancel \/ LinkError
  BY <1>2 DEF Cancel, LinkError, Fail, Prompting, Listening, node
<1>3. CASE Node
  BY <1>3 DEF Node, client, NodeAsksPassword, NodeChecksPassword,
       NodeChallenges, NodeChecksAnswer, NodeExecutes, NodeHangsUp, LinkDies
<1>4. CASE Returned
  BY <1>4 DEF Returned, vars, client
<1> QED
  BY <1>1, <1>2, <1>3, <1>4 DEF Next

LEMMA RunsOnce ==
  ASSUME Inv, Inv', NodeExecutes
  PROVE  \/ CommandRuns' = CommandRuns
         \/ CommandRuns = {} /\ \E x \in CommandRuns' : CommandRuns' = {x}
<1>1. PICK line \in Lines :
        log' = Append(log, [line |-> line, mode |-> mode])
  BY DEF NodeExecutes
<1>2. log \in Seq(Executions) /\ log' \in Seq(Executions)
  BY DEF Inv, TypeOK
<1>3. /\ Len(log') = Len(log) + 1 /\ Len(log) \in Nat
      /\ DOMAIN log = 1 .. Len(log) /\ DOMAIN log' = 1 .. Len(log) + 1
      /\ \A i \in DOMAIN log : log'[i] = log[i]
      /\ log'[Len(log) + 1].line = line
  BY <1>1, <1>2
<1>4. CASE line # "cmd"
  BY <1>3, <1>4 DEF CommandRuns
<1>5. CASE line = "cmd"
  <2>1. \A i \in DOMAIN log : log[i].line # "cmd"
    BY <1>3, <1>5 DEF Inv, Once, AtMostOnce
  <2>2. CommandRuns = {} /\ CommandRuns' = {Len(log) + 1}
    BY <1>3, <1>5, <2>1 DEF CommandRuns
  <2> QED
    BY <2>2
<1> QED
  BY <1>4, <1>5

LEMMA CallSteps ==
  ASSUME Inv, Inv', Resulted, Resulted', [Next]_vars
  PROVE  [TC!Next]_(TC!vars)
<1> DEFINE isOpen == result # "unconnected" /\ (chan # {} \/ sysActive)
           isLeft == result = "unconnected" /\ chan # {}
           ending == IF pc = "done" THEN result ELSE "none"
<1>1. CASE UNCHANGED vars
  BY <1>1 DEF vars, TC!vars, CommandRuns
<1>2. CASE Next /\ UNCHANGED client
  <2>1. pc' = pc /\ isOpen' = isOpen /\ isLeft' = isLeft /\ ending' = ending
    BY <1>2 DEF client
  <2>2. \/ CommandRuns' = CommandRuns
        \/ CommandRuns = {} /\ \E x \in CommandRuns' : CommandRuns' = {x}
    BY <1>2, OneMoves, RunsOnce DEF Inv, CommandRuns
  <2> QED
    BY <2>1, <2>2 DEF TC!Next, TC!Execute, TC!vars
<1>3. CASE Next /\ ~UNCHANGED client
  <2>1. pc # "done" /\ CommandRuns' = CommandRuns
    BY <1>3, OneMoves DEF Inv, CommandRuns
  <2>2. CASE pc' # "done"
    <3>1. ending' = ending /\ ending = "none" /\ isLeft' = isLeft
      BY <2>1, <2>2 DEF Resulted
    <3>2. CASE isOpen'
      BY <2>1, <2>2, <3>1, <3>2 DEF TC!Next, TC!Connect
    <3>3. CASE ~isOpen'
      BY <2>1, <2>2, <3>1, <3>3 DEF TC!Next, TC!Disconnect
    <3> QED
      BY <3>2, <3>3
  <2>3. CASE pc' = "done"
    <3>1. result' \in TC!Outcomes \ {"none"} /\ ending' = result'
      BY <2>3 DEF Resulted, Inv, TypeOK, Results, TC!Outcomes
    <3>2. isOpen' \in BOOLEAN
      BY DEF Inv, TypeOK
    <3>3. isOpen' => result' = "cancelled"
      BY <2>3, <3>1 DEF Inv, ClosedAfterBody, TC!Outcomes
    <3>4. ~isLeft
      BY <2>1 DEF Resulted
    <3> QED
      BY <2>1, <2>3, <3>1, <3>2, <3>3, <3>4 DEF TC!Next, TC!Return
  <2> QED
    BY <2>2, <2>3
<1> QED
  BY <1>1, <1>2, <1>3

\* A session implements ToolCall: whatever node and link do, the tool call has
\* the command executed once at most, and one that got through connect() and is
\* not cancelled leaves nothing open.
THEOREM ImplementsToolCall == Spec => KeepsToolCall
<1>1. Init => TC!Init
  BY DEF Init, TC!Init, CommandRuns
<1>2. Init => Resulted
  BY DEF Init, Resulted
<1>3. Inv => TypeOK
  BY DEF Inv
<1>4. Spec => [](Resulted /\ Inv)
  BY <1>2, <1>3, ResultedStep, SpecInv, PTL DEF Spec
<1> QED
  BY <1>1, <1>4, CallSteps, PTL DEF Spec, KeepsToolCall, TC!Spec

-----------------------------------------------------------------------------
(* A call comes to its end.  Two measures: the stations the coroutine still  *)
(* has before it, and what is in flight, a line weighing more than the two   *)
(* chunks it may be answered with.                                           *)
ToGo ==
  CASE pc = "start"     -> 12
    [] pc = "dial"      -> 11
    [] pc = "login"     -> 10
    [] pc = "password"  -> 9
    [] pc = "banner"    -> 8
    [] pc = "ready"     -> IF sysActive THEN 4 ELSE 7
    [] pc = "challenge" -> 6
    [] pc = "verdict"   -> 5
    [] pc \in {"reply", "window"} -> 3
    [] pc = "exit"      -> 2
    [] pc = "closing"   -> 1
    [] OTHER            -> 0

InFlight == 3 * Len(sent) + Len(net) + IF Up THEN 1 ELSE 0

Nearer == \/ ToGo' < ToGo
          \/ ToGo' = ToGo /\ InFlight' < InFlight

LEMMA Measured == TypeOK => ToGo \in Nat /\ InFlight \in Nat
<1> SUFFICES ASSUME TypeOK PROVE ToGo \in Nat /\ InFlight \in Nat
  OBVIOUS
<1>1. ToGo \in Nat
  BY DEF ToGo
<1>2. Len(sent) \in Nat /\ Len(net) \in Nat
  BY DEF TypeOK
<1> QED
  BY <1>1, <1>2 DEF InFlight

\* The coroutine goes on to its next station, or reads a chunk.
LEMMA TransportNearer == TypeOK /\ (Transport \/ LinkError \/ Cancel) => Nearer
<1> SUFFICES ASSUME TypeOK, Transport \/ LinkError \/ Cancel PROVE Nearer
  OBVIOUS
<1>1. CASE ReadPastPrompt \/ ReadMore
  <2>1. Len(Tail(net)) = Len(net) - 1 /\ Len(net) \in Nat /\ Len(sent) \in Nat
    BY <1>1 DEF ReadPastPrompt, ReadMore, TypeOK
  <2>2. net' = Tail(net) /\ pc' = pc /\ sysActive' = sysActive /\ sent' = sent /\ mode' = mode
    BY <1>1 DEF ReadPastPrompt, ReadMore, node
  <2>3. ToGo' = ToGo
    BY <2>2 DEF ToGo
  <2>4. InFlight' = InFlight - 1
    <3> DEFINE n == Len(net)
               s == Len(sent)
    <3>1. n \in Nat /\ s \in Nat /\ n' = n - 1 /\ s' = s
      BY <2>1, <2>2
    <3> HIDE DEF n, s
    <3>2. InFlight = 3 * s + n + (IF Up THEN 1 ELSE 0) /\ (Up' <=> Up)
      BY <2>2 DEF InFlight, n, s, Up
    <3>3. InFlight' = 3 * s' + n' + (IF Up' THEN 1 ELSE 0)
      BY DEF InFlight, n, s
    <3> QED
      BY <3>1, <3>2, <3>3
  <2>5. InFlight \in Nat
    BY Measured
  <2> QED
    BY <2>3, <2>4, <2>5 DEF Nearer
<1> USE DEF Nearer, Connecting, Listening, Prompting, Fail, Raise, ToGo
<1>2. CASE OpenSsh \/ OpenTelnet
  BY <1>2 DEF OpenSsh, OpenTelnet
<1>3. CASE SendUser \/ SendPassword \/ NoPrompt \/ EndLogin
  BY <1>3 DEF SendUser, SendPassword, NoPrompt, EndLogin
<1>4. CASE SendElevate \/ AnswerChallenge
  BY <1>4 DEF SendElevate, AnswerChallenge
<1>5. CASE NoChallenge \/ EndElevate
  BY <1>5 DEF NoChallenge, EndElevate, TypeOK
<1>6. CASE RunCommand \/ EndCommand \/ EndCapture
  BY <1>6 DEF RunCommand, EndCommand, EndCapture
<1>7. CASE Disconnect
  BY <1>7 DEF Disconnect, SayBye, Close
<1>8. CASE LinkError
  BY <1>8 DEF LinkError
<1>9. CASE Cancel
  BY <1>9 DEF Cancel
<1> QED
  BY <1>1, <1>2, <1>3, <1>4, <1>5, <1>6, <1>7, <1>8, <1>9
     DEF Transport, Connect, Elevate, Run

LEMMA HeardLength ==
  ASSUME TypeOK, NEW line, Hears(line)
  PROVE  Len(sent) \in Nat /\ Len(sent') = Len(sent) - 1
BY DEF TypeOK, Hears

LEMMA ReplyLength ==
  ASSUME TypeOK, NEW line \in Lines, NEW texts \in Seq(Texts), Len(texts) <= 2,
         Reply(line, texts)
  PROVE  Len(net) \in Nat /\ Len(net') \in Nat /\ Len(net') <= Len(net) + 2
<1> DEFINE chunks == [i \in DOMAIN texts |-> [of |-> line, text |-> texts[i]]]
<1>1. chunks \in Seq(Chunks) /\ Len(chunks) <= 2
  <2>1. \A i \in DOMAIN texts : [of |-> line, text |-> texts[i]] \in Chunks
    BY DEF Chunks
  <2>2. DOMAIN texts = 1 .. Len(texts) /\ Len(texts) \in Nat
    OBVIOUS
  <2>3. chunks \in Seq(Chunks)
    BY <2>1, <2>2
  <2> QED
    BY <2>2, <2>3
<1>2. net \in Seq(Chunks)
  BY DEF TypeOK
<1>3. net' = net \/ net' = net \o chunks
  BY DEF Reply
<1> HIDE DEF chunks
<1> QED
  BY <1>1, <1>2, <1>3

\* The node hears a line for two chunks at most, or the link dies.
LEMMA NodeNearer == TypeOK /\ Node => Nearer
<1> SUFFICES ASSUME TypeOK, Node PROVE Nearer
  OBVIOUS
<1>0. ASSUME NEW line \in Lines, NEW texts \in Seq(Texts), Len(texts) <= 2,
             Hears(line), Reply(line, texts), UNCHANGED client, mode' # "off"
      PROVE  Nearer
  <2>1. /\ Len(sent) \in Nat /\ Len(sent') = Len(sent) - 1
        /\ Len(net) \in Nat /\ Len(net') \in Nat /\ Len(net') <= Len(net) + 2
    BY <1>0, HeardLength, ReplyLength
  <2>2. Up /\ Up'
    BY <1>0 DEF Hears, Up
  <2>3. ToGo' = ToGo
    BY <1>0 DEF ToGo, client
  <2> QED
    BY <2>1, <2>2, <2>3 DEF Nearer, InFlight
<1>1. \A t, u \in Texts : /\ <<t>> \in Seq(Texts) /\ Len(<<t>>) <= 2
                          /\ <<t, u>> \in Seq(Texts) /\ Len(<<t, u>>) <= 2
  OBVIOUS
<1> USE DEF Texts
<1>2. CASE NodeAsksPassword
  BY <1>0, <1>1, <1>2 DEF NodeAsksPassword
<1>3. CASE NodeChecksPassword
  BY <1>0, <1>1, <1>3 DEF NodeChecksPassword
<1>4. CASE NodeChallenges
  BY <1>0, <1>1, <1>4 DEF NodeChallenges, Lines
<1>5. CASE NodeChecksAnswer
  BY <1>0, <1>1, <1>5 DEF NodeChecksAnswer
<1>6. CASE NodeExecutes
  BY <1>0, <1>1, <1>6 DEF NodeExecutes
<1>7. CASE NodeHangsUp
  <2>1. Len(sent) \in Nat /\ Len(sent') = Len(sent) - 1 /\ Len(net) \in Nat /\ net' = net
    BY <1>7, HeardLength DEF NodeHangsUp, TypeOK
  <2> QED
    BY <1>7, <2>1 DEF NodeHangsUp, Nearer, InFlight, ToGo, client, Up
<1>8. CASE LinkDies
  <2>1. Up /\ ~Up' /\ sent' = <<>> /\ net' \in {net, <<>>} /\ ToGo' = ToGo
    BY <1>8 DEF LinkDies, Up, client, ToGo
  <2>2. Len(sent) \in Nat /\ Len(net) \in Nat
    BY DEF TypeOK
  <2> QED
    BY <2>1, <2>2 DEF Nearer, InFlight
<1> QED
  BY <1>2, <1>3, <1>4, <1>5, <1>6, <1>7, <1>8 DEF Node

\* Every step of a call, of its node, its link or its canceller brings the call
\* nearer to its end: no exchange goes round in a circle, and whatever answers
\* come, a call makes twelve steps between stations at most.
THEOREM NoCircle == Spec => [](ToGo \in Nat /\ InFlight \in Nat) /\ [][Nearer]_vars
<1>1. TypeOK /\ [Next]_vars => [Nearer]_vars
  BY TransportNearer, NodeNearer DEF Next, Returned
<1> QED
  BY <1>1, Typing, Measured, PTL DEF Spec
=============================================================================
