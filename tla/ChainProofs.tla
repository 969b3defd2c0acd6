----------------------------- MODULE ChainProofs -----------------------------
(* For a path of any length and every behaviour of its nodes and links: the  *)
(* command of a chained session is executed once at most, and a session that *)
(* connected and is not cancelled ends closed; while the links hold, what is *)
(* typed at the target is read by the target; and where replies are complete *)
(* in time, too, the family is the target's (or that of the node before it,  *)
(* where connect lines name one) and the output the command's.               *)
EXTENDS Chain, SequenceTheorems, TLAPS

Verbs == {"C", "version", "cmd", "elevate", "answer", "bye"}
Executions == [verb : {"version", "cmd", "answer"}, node : Positions]

InNet(text) == \E i \in DOMAIN net : net[i].text = text
InSent(verb) == \E i \in DOMAIN sent : sent[i].verb = verb
Executed(verb) == \E i \in DOMAIN log : log[i].verb = verb

Working == {"connected", "ready", "version", "challenge", "verdict", "reply"}
Leaving == {"exit", "bye", "closing", "done"}

-----------------------------------------------------------------------------
(* Steps by what they say, read and answer.                                  *)

LEMMA LineType ==
  /\ \A verb \in Verbs : Line(verb) \in Lines
  /\ \A h \in 1 .. Hops : [verb |-> "C", to |-> h] \in Lines
BY HopsAssumption DEF Line, Lines, Verbs, Positions

\* The steps that say a line.
Speaks(line) ==
  \/ line = [verb |-> "C", to |-> hop] /\ SendHop
  \/ line = Line("version") /\ ProbeMotd /\ pc' = "version"
  \/ line = Line("elevate") /\ SendElevate
  \/ line = Line("answer") /\ AnswerChallenge /\ ~Fail
  \/ line = Line("cmd") /\ RunCommand
  \/ line = Line("bye") /\ SayBye

LEMMA SpeaksOnCue ==
  ASSUME TypeOK, NEW line, Speaks(line)
  PROVE  /\ line \in Lines /\ Send(line)
         /\ UNCHANGED <<config, nodes, net, hop, open, motd, result>>
         /\ sysActive' = sysActive \/ line.verb = "bye"
         /\ buf' = {} \/ line.verb = "bye"
         /\ line.verb = "C" => pc = "hop" /\ pc' = "banner" /\ line.to = hop
         /\ line.verb = "version" => pc = "connected" /\ pc' = "version"
         /\ line.verb = "elevate" => pc = "ready" /\ pc' = "challenge"
         /\ line.verb = "answer" => pc = "challenge" /\ pc' = "verdict"
         /\ line.verb = "cmd" => pc = "ready" /\ pc' = "reply"
         /\ line.verb = "bye" =>
              /\ pc \in {"exit", "bye"} /\ pc' \in {"bye", "closing"}
              /\ buf' = buf /\ sysActive' \in {sysActive, FALSE}
         /\ line.verb # "version" => family' = family
<1>1. CASE line = [verb |-> "C", to |-> hop] /\ SendHop
  <2>1. line \in Lines /\ line.verb = "C" /\ line.to = hop
    BY <1>1, LineType DEF TypeOK
  <2> QED
    BY <1>1, <2>1 DEF SendHop
<1>2. CASE line = Line("version") /\ ProbeMotd /\ pc' = "version"
  <2>1. line \in Lines /\ line.verb = "version"
    BY <1>2, LineType DEF Verbs, Line
  <2> QED
    BY <1>2, <2>1 DEF ProbeMotd
<1>3. CASE line = Line("elevate") /\ SendElevate
  <2>1. line \in Lines /\ line.verb = "elevate"
    BY <1>3, LineType DEF Verbs, Line
  <2> QED
    BY <1>3, <2>1 DEF SendElevate
<1>4. CASE line = Line("answer") /\ AnswerChallenge /\ ~Fail
  <2>1. line \in Lines /\ line.verb = "answer"
    BY <1>4, LineType DEF Verbs, Line
  <2> QED
    BY <1>4, <2>1 DEF AnswerChallenge
<1>5. CASE line = Line("cmd") /\ RunCommand
  <2>1. line \in Lines /\ line.verb = "cmd"
    BY <1>5, LineType DEF Verbs, Line
  <2> QED
    BY <1>5, <2>1 DEF RunCommand
<1>6. CASE line = Line("bye") /\ SayBye
  <2>1. line \in Lines /\ line.verb = "bye"
    BY <1>6, LineType DEF Verbs, Line
  <2> QED
    BY <1>6, <2>1 DEF SayBye
<1> QED
  BY <1>1, <1>2, <1>3, <1>4, <1>5, <1>6 DEF Speaks

\* The steps of the transport that say nothing, a failing step among them.
Silence ==
  \/ ReadBanner \/ NoBanner \/ EndDrain \/ SkipProbe \/ EndVersion
  \/ ProbeMotd /\ pc' = "ready"
  \/ VersionFails \/ EndElevate \/ ReadMore \/ EndCommand \/ LinkError \/ Close
  \/ Cancel
  \/ Fail /\ pc = "challenge"

LEMMA SilenceKeeps ==
  ASSUME TypeOK, Silence
  PROVE  /\ UNCHANGED <<config, sent, nodes>>
         /\ net' \in {net, <<>>} \/ (net # <<>> /\ net' = Tail(net))
         /\ pc' = "hop" => pc = "drain" /\ EndDrain
         /\ pc' = "banner" => pc = "banner" /\ hop' = hop /\ ReadBanner
         /\ pc' = "drain" => \/ pc = "banner" /\ hop' = hop /\ ReadBanner
                             \/ pc = "drain" /\ hop' = hop /\ ReadMore
         /\ pc' = "connected" => pc = "drain" /\ EndDrain
         /\ pc' \in Working => pc \in Working \/ (pc = "drain" /\ EndDrain)
         /\ pc' = "reply" => pc = "reply"
         /\ pc = "reply" => pc' \in {"reply", "exit"}
         /\ pc \in Leaving => pc' \in Leaving
         /\ pc \in {"closing", "done"} => pc' \in {"closing", "done"}
         /\ pc = "bye" => pc' \in {"bye", "done"}
<1> USE DEF Working, Leaving, Connecting, Listening
<1>1. CASE ReadBanner
  BY <1>1 DEF ReadBanner, Fail, Failed, Unconnected, Escape
<1>2. CASE NoBanner
  BY <1>2 DEF NoBanner, Fail, Failed, Unconnected, Escape
<1>3. CASE EndDrain
  BY <1>3 DEF EndDrain
<1>4. CASE SkipProbe \/ (ProbeMotd /\ pc' = "ready")
  BY <1>4 DEF SkipProbe, ProbeMotd
<1>5. CASE EndVersion \/ VersionFails
  BY <1>5 DEF EndVersion, VersionFails
<1>6. CASE EndElevate
  BY <1>6 DEF EndElevate, Fail, Failed, Unconnected, Escape
<1>7. CASE ReadMore
  BY <1>7 DEF ReadMore
<1>8. CASE EndCommand
  BY <1>8 DEF EndCommand
<1>9. CASE LinkError
  BY <1>9 DEF LinkError, Fail, Failed, Unconnected, Escape
<1>10. CASE Close
  BY <1>10 DEF Close
<1>11. CASE Cancel
  BY <1>11 DEF Cancel
<1>12. CASE Fail /\ pc = "challenge"
  BY <1>12 DEF Fail, Failed, Unconnected, Escape
<1> QED
  BY <1>1, <1>2, <1>3, <1>4, <1>5, <1>6, <1>7, <1>8, <1>9, <1>10, <1>11, <1>12
    DEF Silence

LEMMA TransportKinds ==
  Transport \/ LinkError \/ Cancel => Silence \/ \E line : Speaks(line)
<1>1. CASE ProbeMotd
  BY <1>1 DEF ProbeMotd, Silence, Speaks
<1>2. CASE AnswerChallenge
  <2>1. pc = "challenge"
    BY <1>2 DEF AnswerChallenge
  <2> QED
    BY <1>2, <2>1 DEF Silence, Speaks
<1>3. CASE SendHop \/ SendElevate \/ RunCommand \/ SayBye
  BY <1>3 DEF Speaks
<1>4. CASE LinkError \/ Cancel
  BY <1>4 DEF Silence
<1> QED
  BY <1>1, <1>2, <1>3, <1>4 DEF Transport, Connect, Work, Disconnect, Silence

(* What a node does, as far as the proofs are concerned: it hears a line,    *)
(* answers, moves the terminal if the line says so, and may execute it.      *)
Answering(verb, chunks) ==
  /\ Hears(verb)
  /\ UNCHANGED client
  /\ Reply(verb, chunks) \/ net' = net
  /\ up' = up \/ (verb = "bye" /\ up' = FALSE)
  /\ at' \in Positions /\ asked' \in BOOLEAN
  /\ verb \notin {"C", "bye"} => at' = at
  /\ verb = "C" => at' \in {at, Head(sent).to}
  /\ \A i \in DOMAIN chunks : chunks[i][2] = "connected" =>
       /\ verb = "C" /\ at' = Head(sent).to
       /\ i = 1 \/ motdText = "connected"
       /\ chunks[i][1] \in {at, at'}
  /\ \A i \in DOMAIN chunks : chunks[i][2] \in {"signature", "prompt"} =>
       chunks[i][1] = at' /\ (verb = "C" => at' = Head(sent).to)
  /\ \/ log' = log
     \/ /\ verb \in {"version", "cmd", "answer"}
        /\ log' = Append(log, [verb |-> verb, node |-> at])

Said == Seq(Positions \X Texts)

Answered == \E verb \in Verbs, chunks \in Said : Answering(verb, chunks)

LEMMA NodesAnswer == TypeOK /\ Nodes => Answered \/ HopDrops \/ LinkDies
<1> SUFFICES ASSUME TypeOK, Nodes PROVE Answered \/ HopDrops \/ LinkDies
  OBVIOUS
<1>1. \A t, u \in Positions \X Texts : <<t>> \in Said /\ <<t, u>> \in Said /\ <<>> \in Said
  BY DEF Said
<1>2. \A p \in Positions, text \in Texts : <<p, text>> \in Positions \X Texts
  OBVIOUS
<1>3. at \in Positions /\ motdText \in Texts /\ asked \in BOOLEAN
  BY DEF TypeOK, Texts, Welcomes
<1>4. sent # <<>> => Head(sent) \in Lines /\ Head(sent).to \in Positions
  <2>1. sent # <<>> => Head(sent) \in Lines
    BY DEF TypeOK
  <2> QED
    BY <2>1 DEF Lines
<1>5. CASE NodeConnects
  <2> DEFINE chunks == << <<at, "connected">>, <<at', motdText>> >>
  <2>1. /\ Hears("C") /\ at' = Head(sent).to /\ at' \in Positions
        /\ Reply("C", chunks) /\ UNCHANGED <<client, up, asked, log>>
    BY <1>4, <1>5 DEF NodeConnects, Hears
  <2>2. chunks \in Said /\ "C" \in Verbs
    BY <1>1, <1>2, <1>3, <2>1 DEF Texts, Verbs
  <2>3. /\ DOMAIN chunks = {1, 2}
        /\ chunks[1][1] = at /\ chunks[1][2] = "connected"
        /\ chunks[2][1] = at' /\ chunks[2][2] = motdText
    OBVIOUS
  <2> HIDE DEF chunks
  <2>4. Answering("C", chunks)
    BY <1>3, <2>1, <2>3 DEF Answering
  <2> QED
    BY <2>2, <2>4 DEF Answered
<1>6. CASE NodeRefuses
  <2>1. Answering("C", << <<at, "failed">> >>)
    BY <1>3, <1>6 DEF Answering, NodeRefuses, nodes
  <2>2. << <<at, "failed">> >> \in Said /\ "C" \in Verbs
    BY <1>1, <1>2, <1>3 DEF Texts, Verbs
  <2> QED
    BY <2>1, <2>2 DEF Answered
<1>7. CASE NodeExecutes
  <2>1. PICK verb \in {"version", "cmd"}, text \in {"signature", "output"} :
          /\ Hears(verb) /\ log' = Append(log, [verb |-> verb, node |-> at])
          /\ Reply(verb, << <<at, text>>, <<at, "prompt">> >>)
          /\ UNCHANGED <<client, up, at, asked>>
    BY <1>7 DEF NodeExecutes
  <2> DEFINE chunks == << <<at, text>>, <<at, "prompt">> >>
  <2>2. chunks \in Said /\ verb \in Verbs
    BY <1>1, <1>2, <1>3, <2>1 DEF Texts, Verbs
  <2>3. /\ DOMAIN chunks = {1, 2}
        /\ chunks[1][1] = at /\ chunks[1][2] = text
        /\ chunks[2][1] = at /\ chunks[2][2] = "prompt"
    OBVIOUS
  <2>4. Reply(verb, chunks)
    BY <2>1
  <2> HIDE DEF chunks
  <2>5. Answering(verb, chunks)
    BY <1>3, <2>1, <2>3, <2>4 DEF Answering
  <2> QED
    BY <2>2, <2>5 DEF Answered
<1>8. CASE NodeChallenges
  <2>1. PICK text \in {"challenge", "output"} :
          /\ Hears("elevate") /\ Reply("elevate", << <<at, text>> >>)
          /\ asked' \in BOOLEAN /\ UNCHANGED <<client, up, at, log>>
    BY <1>8 DEF NodeChallenges
  <2>2. Answering("elevate", << <<at, text>> >>)
    BY <1>3, <2>1 DEF Answering
  <2>3. << <<at, text>> >> \in Said /\ "elevate" \in Verbs
    BY <1>1, <1>2, <1>3, <2>1 DEF Texts, Verbs
  <2> QED
    BY <2>2, <2>3 DEF Answered
<1>9. CASE NodeTakesAnswer
  <2>1. PICK text \in {"prompt", "rejected"} :
          /\ Hears("answer") /\ Reply("answer", << <<at, text>> >>)
          /\ log' = Append(log, [verb |-> "answer", node |-> at])
          /\ asked' = FALSE /\ UNCHANGED <<client, up, at>>
    BY <1>9 DEF NodeTakesAnswer
  <2>2. Answering("answer", << <<at, text>> >>)
    <3> DEFINE chunks == << <<at, text>> >>
    <3>1. /\ Reply("answer", chunks) /\ DOMAIN chunks = {1}
          /\ chunks[1][1] = at /\ chunks[1][2] = text
      BY <2>1
    <3> HIDE DEF chunks
    <3>2. Answering("answer", chunks)
      BY <1>3, <2>1, <3>1 DEF Answering
    <3> QED
      BY <3>2 DEF chunks
  <2>3. << <<at, text>> >> \in Said /\ "answer" \in Verbs
    BY <1>1, <1>2, <1>3, <2>1 DEF Texts, Verbs
  <2> QED
    BY <2>2, <2>3 DEF Answered
<1>10. CASE NodeMistakes
  <2>1. PICK verb \in {"version", "cmd", "elevate", "bye", "C"} :
          /\ Hears(verb) /\ Reply(verb, << <<at, "rejected">> >>)
          /\ asked' = FALSE /\ UNCHANGED <<client, up, at, log>>
    BY <1>10 DEF NodeMistakes
  <2>2. Answering(verb, << <<at, "rejected">> >>)
    <3> DEFINE chunks == << <<at, "rejected">> >>
    <3>1. Reply(verb, chunks) /\ DOMAIN chunks = {1} /\ chunks[1][2] = "rejected"
      BY <2>1
    <3> HIDE DEF chunks
    <3>2. Answering(verb, chunks)
      BY <1>3, <2>1, <3>1 DEF Answering
    <3> QED
      BY <3>2 DEF chunks
  <2>3. << <<at, "rejected">> >> \in Said /\ verb \in Verbs
    BY <1>1, <1>2, <1>3, <2>1 DEF Texts, Verbs
  <2> QED
    BY <2>2, <2>3 DEF Answered
<1>11. CASE NodeHangsUp
  <2>1. Hears("bye") /\ UNCHANGED <<client, asked, log>>
    BY <1>11 DEF NodeHangsUp
  <2>2. CASE at = 0
    <3>1. Answering("bye", <<>>)
      BY <1>3, <1>11, <2>1, <2>2 DEF NodeHangsUp, Answering
    <3> QED
      BY <1>1, <1>3, <3>1, <1>2 DEF Answered, Verbs, Said
  <2>3. CASE at # 0
    <3>1. at - 1 \in Positions
      BY <1>3, <2>3, HopsAssumption DEF Positions
    <3>2. /\ Reply("bye", << <<at - 1, "failed">> >>)
          /\ up' = up /\ at' = at - 1
      BY <1>11, <2>3 DEF NodeHangsUp
    <3>3. Answering("bye", << <<at - 1, "failed">> >>)
      BY <1>3, <2>1, <3>1, <3>2 DEF Answering
    <3>4. << <<at - 1, "failed">> >> \in Said /\ "bye" \in Verbs
      BY <1>1, <1>2, <3>1 DEF Texts, Verbs
    <3> QED
      BY <3>3, <3>4 DEF Answered
  <2> QED
    BY <2>2, <2>3
<1> QED
  BY <1>5, <1>6, <1>7, <1>8, <1>9, <1>10, <1>11 DEF Nodes

-----------------------------------------------------------------------------
(* What is in flight.                                                        *)

LEMMA Spoken ==
  ASSUME TypeOK, NEW line \in Lines, Send(line)
  PROVE  /\ sent' \in Seq(Lines)
         /\ ~up => sent' = sent
         /\ up => Len(sent') = Len(sent) + 1 /\ sent'[Len(sent')] = line
         /\ \A i \in DOMAIN sent' :
              \/ i \in DOMAIN sent /\ i < Len(sent') /\ sent'[i] = sent[i]
              \/ up /\ i = Len(sent') /\ sent'[i] = line
              \/ ~up /\ i \in DOMAIN sent /\ sent'[i] = sent[i]
         /\ \A i \in DOMAIN sent : i \in DOMAIN sent' /\ sent'[i] = sent[i]
         /\ \A verb : InSent(verb)' => verb = line.verb \/ InSent(verb)
<1>1. CASE up
  <2>1. sent' = Append(sent, line) /\ sent \in Seq(Lines)
    BY <1>1 DEF Send, TypeOK
  <2>2. /\ sent' \in Seq(Lines)
        /\ Len(sent') = Len(sent) + 1 /\ sent'[Len(sent')] = line
        /\ \A i \in DOMAIN sent' :
             \/ i \in DOMAIN sent /\ i < Len(sent') /\ sent'[i] = sent[i]
             \/ i = Len(sent') /\ sent'[i] = line
        /\ \A i \in DOMAIN sent : i \in DOMAIN sent' /\ sent'[i] = sent[i]
    BY <2>1
  <2> QED
    BY <1>1, <2>2 DEF InSent
<1>2. CASE ~up
  BY <1>2 DEF Send, InSent, TypeOK
<1> QED
  BY <1>1, <1>2

LEMMA Heard ==
  ASSUME TypeOK, NEW verb, Hears(verb)
  PROVE  /\ up /\ sent # <<>> /\ sent[1] = Head(sent) /\ sent[1].verb = verb
         /\ Head(sent) \in Lines /\ 1 \in DOMAIN sent
         /\ sent' \in Seq(Lines) /\ Len(sent) \in Nat /\ Len(sent') = Len(sent) - 1
         /\ Len(sent) = 1 => sent' = <<>>
         /\ \A i \in DOMAIN sent' :
              i \in Nat /\ i >= 1 /\ i + 1 \in DOMAIN sent /\ sent'[i] = sent[i + 1]
         /\ \A other : InSent(other)' => InSent(other)
         /\ InSent(verb)
<1>1. /\ up /\ sent \in Seq(Lines) /\ sent # <<>> /\ sent' = Tail(sent)
      /\ Head(sent).verb = verb
  BY DEF Hears, TypeOK
<1>2. /\ sent[1] = Head(sent) /\ Head(sent) \in Lines /\ 1 \in DOMAIN sent
      /\ sent' \in Seq(Lines) /\ Len(sent) \in Nat /\ Len(sent') = Len(sent) - 1
      /\ Len(sent) = 1 => sent' = <<>>
      /\ \A i \in DOMAIN sent' :
           i \in Nat /\ i >= 1 /\ i + 1 \in DOMAIN sent /\ sent'[i] = sent[i + 1]
  BY <1>1
<1> QED
  BY <1>1, <1>2 DEF InSent

\* Reading takes chunks from the front and adds none.
LEMMA ReadNet ==
  ASSUME TypeOK, net' \in {net, <<>>} \/ (net # <<>> /\ net' = Tail(net))
  PROVE  /\ net' \in Seq(Chunks)
         /\ \A i \in DOMAIN net' : \E k \in {0, 1} :
              i + k \in DOMAIN net /\ net'[i] = net[i + k]
         /\ \A text : InNet(text)' => InNet(text)
<1>1. CASE net' = net
  <2>1. \A i \in DOMAIN net : i + 0 = i
    BY DEF TypeOK
  <2> QED
    BY <1>1, <2>1 DEF InNet, TypeOK
<1>2. CASE net' = <<>>
  BY <1>2 DEF InNet
<1>3. CASE net # <<>> /\ net' = Tail(net)
  <2>1. /\ net' \in Seq(Chunks)
        /\ \A i \in DOMAIN net' : i + 1 \in DOMAIN net /\ net'[i] = net[i + 1]
    BY <1>3 DEF TypeOK
  <2> QED
    BY <2>1 DEF InNet
<1> QED
  BY <1>1, <1>2, <1>3

LEMMA Concatenated ==
  ASSUME NEW S, NEW s \in Seq(S), NEW t \in Seq(S)
  PROVE  \A i \in DOMAIN (s \o t) :
           \/ i \in DOMAIN s /\ (s \o t)[i] = s[i]
           \/ \E j \in DOMAIN t : i = Len(s) + j /\ (s \o t)[i] = t[j]
<1> TAKE i \in DOMAIN (s \o t)
<1>1. /\ Len(s) \in Nat /\ Len(t) \in Nat /\ i \in 1 .. Len(s) + Len(t)
      /\ DOMAIN s = 1 .. Len(s) /\ DOMAIN t = 1 .. Len(t)
  OBVIOUS
<1>2. (s \o t)[i] = IF i <= Len(s) THEN s[i] ELSE t[i - Len(s)]
  BY <1>1, ConcatProperties
<1>3. CASE i <= Len(s)
  BY <1>1, <1>2, <1>3
<1>4. CASE ~(i <= Len(s))
  <2>1. i - Len(s) \in 1 .. Len(t) /\ i = Len(s) + (i - Len(s))
    BY <1>1, <1>4
  <2> QED
    BY <1>1, <1>2, <1>4, <2>1
<1> QED
  BY <1>3, <1>4

\* A reply appends its chunks.
LEMMA Replied ==
  ASSUME TypeOK, NEW verb \in Verbs \cup {"drop"}, NEW chunks \in Said,
         Reply(verb, chunks) \/ net' = net
  PROVE  /\ net' \in Seq(Chunks)
         /\ \A i \in DOMAIN net' :
              \/ i \in DOMAIN net /\ net'[i] = net[i]
              \/ \E j \in DOMAIN chunks :
                   /\ i = Len(net) + j
                   /\ net'[i].of = verb /\ net'[i].from = chunks[j][1]
                   /\ net'[i].text = chunks[j][2]
<1> DEFINE added == [i \in DOMAIN chunks |->
                       [of |-> verb, from |-> chunks[i][1], text |-> chunks[i][2]]]
<1>0. net \in Seq(Chunks)
  BY DEF TypeOK
<1>1. CASE net' = net
  BY <1>0, <1>1
<1>2. CASE net' = net \o added
  <2>1. DOMAIN chunks = 1 .. Len(chunks) /\ Len(chunks) \in Nat
    BY DEF Said
  <2>2. \A i \in DOMAIN chunks : chunks[i] \in Positions \X Texts
    BY DEF Said
  <2>3. \A i \in DOMAIN chunks : added[i] \in Chunks
    <3> TAKE i \in DOMAIN chunks
    <3>1. chunks[i][1] \in Positions /\ chunks[i][2] \in Texts
      BY <2>2
    <3> QED
      BY <3>1 DEF Chunks, Verbs
  <2>4. added \in Seq(Chunks) /\ Len(added) = Len(chunks)
    BY <2>1, <2>3
  <2>5. \A i \in DOMAIN chunks :
          /\ added[i].of = verb /\ added[i].from = chunks[i][1]
          /\ added[i].text = chunks[i][2]
    OBVIOUS
  <2> HIDE DEF added
  <2>6. net' \in Seq(Chunks)
    BY <1>0, <1>2, <2>4
  <2>7. \A i \in DOMAIN net' :
          \/ i \in DOMAIN net /\ net'[i] = net[i]
          \/ \E j \in DOMAIN chunks : i = Len(net) + j /\ net'[i] = added[j]
    <3>1. DOMAIN added = DOMAIN chunks
      BY <2>1, <2>4
    <3> QED
      BY <1>0, <1>2, <2>4, <3>1, Concatenated
  <2> QED
    BY <2>5, <2>6, <2>7
<1> QED
  BY <1>1, <1>2 DEF Reply

LEMMA DropSaid ==
  ASSUME TypeOK, HopDrops
  PROVE  /\ << <<at', "failed">> >> \in Said
         /\ Reply("drop", << <<at', "failed">> >>)
         /\ at' \in Positions /\ asked' = FALSE
         /\ UNCHANGED <<client, sent, up, log>> /\ ~path.stable
<1>1. at \in 0 .. Hops /\ at' \in 0 .. at - 1
  BY DEF TypeOK, HopDrops, Positions
<1>2. at' \in Positions
  BY <1>1, HopsAssumption DEF Positions
<1>3. <<at', "failed">> \in Positions \X Texts
  BY <1>2 DEF Texts
<1> QED
  BY <1>2, <1>3 DEF HopDrops, Said

-----------------------------------------------------------------------------
(* Typing.                                                                   *)
LEMMA SpeaksType == TypeOK /\ (\E line : Speaks(line)) => TypeOK'
<1> SUFFICES ASSUME TypeOK, NEW line, Speaks(line) PROVE TypeOK'
  OBVIOUS
<1>1. sent' \in Seq(Lines)
  BY SpeaksOnCue, Spoken
<1>2. UNCHANGED <<config, nodes, net, hop, open, motd, result>>
  BY SpeaksOnCue
<1>3. pc' \in PCs /\ buf' \subseteq Chunks /\ sysActive' \in BOOLEAN
  <2>1. line.verb \in Verbs /\ line \in Lines
    BY SpeaksOnCue DEF Lines, Verbs
  <2> QED
    BY <2>1, SpeaksOnCue DEF TypeOK, PCs, Connecting, Listening, Verbs
<1>4. family' \subseteq Positions
  <2>1. family' = family \/ family' = SignedBy(motd)
    BY DEF Speaks, SendHop, ProbeMotd, SendElevate, AnswerChallenge, RunCommand, SayBye
  <2>2. SignedBy(motd) \subseteq Positions
    BY DEF SignedBy, TypeOK, Chunks
  <2> QED
    BY <2>1, <2>2 DEF TypeOK
<1> QED
  BY <1>1, <1>2, <1>3, <1>4 DEF TypeOK, config, nodes

LEMMA FailType == TypeOK /\ (Fail \/ Escape) => TypeOK'
BY DEF TypeOK, Fail, Failed, Unconnected, Escape, PCs, Connecting, config, nodes

LEMMA SilenceType == TypeOK /\ Silence => TypeOK'
<1> SUFFICES ASSUME TypeOK, Silence PROVE TypeOK'
  OBVIOUS
<1>0. UNCHANGED <<config, sent, nodes>> /\ net' \in Seq(Chunks)
  BY SilenceKeeps, ReadNet
<1>1. CASE Fail \/ Escape
  BY <1>1, FailType
<1>2. net # <<>> => Head(net) \in Chunks
  BY DEF TypeOK
<1> USE DEF PCs, Connecting, Listening
<1>3. CASE (ReadBanner \/ ReadMore) /\ ~Fail
  BY <1>0, <1>2, <1>3 DEF TypeOK, ReadBanner, ReadMore, config, nodes
<1>4. CASE EndDrain
  <2>1. hop' \in 1 .. Hops
    BY <1>4, HopsAssumption DEF EndDrain, TypeOK
  <2> QED
    BY <1>0, <1>4, <2>1 DEF TypeOK, EndDrain, config, nodes
<1>5. CASE SkipProbe \/ VersionFails
  BY <1>0, <1>5 DEF TypeOK, SkipProbe, VersionFails, config, nodes
<1>6. CASE ProbeMotd \/ EndVersion
  <2>1. SignedBy(motd) \subseteq Positions /\ SignedBy(buf) \subseteq Positions
    BY DEF SignedBy, TypeOK, Chunks
  <2> QED
    BY <1>0, <1>6, <2>1 DEF TypeOK, ProbeMotd, EndVersion, config, nodes
<1>7. CASE (EndElevate \/ EndCommand) /\ ~Fail
  BY <1>0, <1>7 DEF TypeOK, EndElevate, EndCommand, config, nodes
<1>8. CASE Close
  BY <1>0, <1>8 DEF TypeOK, Close, config, nodes
<1>9. CASE Cancel
  BY <1>0, <1>9 DEF TypeOK, Cancel, config, nodes
<1> QED
  BY <1>1, <1>3, <1>4, <1>5, <1>6, <1>7, <1>8, <1>9 DEF Silence, NoBanner, LinkError

LEMMA NodesType == TypeOK /\ (Answered \/ HopDrops \/ LinkDies) => TypeOK'
<1> SUFFICES ASSUME TypeOK, Answered \/ HopDrops \/ LinkDies PROVE TypeOK'
  OBVIOUS
<1>1. CASE Answered
  <2>1. PICK verb \in Verbs, chunks \in Said : Answering(verb, chunks)
    BY <1>1 DEF Answered
  <2>2. net' \in Seq(Chunks)
    BY <2>1, Replied DEF Answering
  <2>3. sent' \in Seq(Lines)
    BY <2>1, Heard DEF Answering
  <2>4. log' \in Seq(Executions)
    <3>1. log \in Seq(Executions) /\ at \in Positions
      BY DEF TypeOK, Executions
    <3>2. CASE log' = log
      BY <3>1, <3>2
    <3>3. CASE /\ verb \in {"version", "cmd", "answer"}
               /\ log' = Append(log, [verb |-> verb, node |-> at])
      <4>1. [verb |-> verb, node |-> at] \in Executions
        BY <3>1, <3>3 DEF Executions
      <4> QED
        BY <3>1, <3>3, <4>1
    <3> QED
      BY <2>1, <3>2, <3>3 DEF Answering
  <2>5. /\ UNCHANGED client /\ up' \in BOOLEAN /\ at' \in Positions /\ asked' \in BOOLEAN
    BY <2>1 DEF Answering, TypeOK
  <2> QED
    BY <2>2, <2>3, <2>4, <2>5 DEF TypeOK, client, config, Executions
<1>2. CASE HopDrops
  <2>1. net' \in Seq(Chunks)
    BY <1>2, DropSaid, Replied
  <2> QED
    BY <1>2, <2>1, DropSaid DEF TypeOK, client, config
<1>3. CASE LinkDies
  <2>1. <<>> \in Seq(Lines) /\ net' \in Seq(Chunks)
    BY <1>3, ReadNet DEF LinkDies
  <2> QED
    BY <1>3, <2>1 DEF TypeOK, LinkDies, client, config
<1> QED
  BY <1>1, <1>2, <1>3

\* Every step is of one of these kinds.
LEMMA StepKinds ==
  TypeOK /\ [Next]_vars =>
    \/ Silence \/ (\E line : Speaks(line)) \/ Answered \/ HopDrops \/ LinkDies
    \/ UNCHANGED vars
BY TransportKinds, NodesAnswer DEF Next, Returned

LEMMA ConfigKept == TypeOK /\ [Next]_vars => UNCHANGED <<work, motdText, path>>
<1> SUFFICES ASSUME TypeOK, [Next]_vars PROVE UNCHANGED config
  BY DEF config
<1>1. Silence => UNCHANGED config
  BY SilenceKeeps
<1>2. (\E line : Speaks(line)) => UNCHANGED config
  BY SpeaksOnCue
<1>3. Answered => UNCHANGED config
  BY DEF Answered, Answering, client
<1>4. HopDrops \/ LinkDies \/ UNCHANGED vars => UNCHANGED config
  BY DEF HopDrops, LinkDies, vars, client
<1> QED
  BY <1>1, <1>2, <1>3, <1>4, StepKinds

LEMMA NextType == TypeOK /\ [Next]_vars => TypeOK'
<1>1. TypeOK /\ UNCHANGED vars => TypeOK'
  BY DEF TypeOK, vars, client, config, nodes
<1> QED
  BY <1>1, StepKinds, SilenceType, SpeaksType, NodesType

LEMMA InitType == Init => TypeOK
<1> SUFFICES ASSUME Init PROVE TypeOK
  OBVIOUS
<1>1. 1 \in 1 .. Hops /\ 0 \in Positions
  BY HopsAssumption DEF Positions
<1>2. net \in Seq(Chunks) /\ sent \in Seq(Lines) /\ log \in Seq(Executions)
  BY DEF Init
<1> QED
  BY <1>1, <1>2 DEF Init, TypeOK, PCs, Connecting, Executions

\* The variables of a chained session keep their types, on a path of any length.
THEOREM Typing == Spec => []TypeOK
BY InitType, NextType, PTL DEF Spec

-----------------------------------------------------------------------------
(* The command is sent once, when the session is about to wait for its       *)
(* reply, and `bye` when the session ends.                                   *)
Waiting ==
  /\ InSent("bye") => pc \in {"bye", "closing", "done"}
  /\ ~up /\ pc \notin Leaving => sent = <<>>

Once ==
  /\ InSent("cmd") \/ Executed("cmd") => pc \in {"reply"} \cup Leaving
  /\ Executed("cmd") => ~InSent("cmd")
  /\ \A i, j \in DOMAIN sent : sent[i].verb = "cmd" /\ sent[j].verb = "cmd" => i = j
  /\ \A i, j \in DOMAIN log : log[i].verb = "cmd" /\ log[j].verb = "cmd" => i = j

\* How a session ends.
Ended ==
  /\ pc \in Leaving <=> result # "none"
  /\ result = "unconnected" => pc = "done"
  /\ pc = "closing" => ~sysActive
  /\ pc = "done" => (~open /\ ~sysActive) \/ result \in {"unconnected", "cancelled"}

Inv == TypeOK /\ Waiting /\ Once /\ Ended

LEMMA WaitingStep == TypeOK /\ Waiting /\ [Next]_vars => Waiting'
<1> SUFFICES ASSUME TypeOK, Waiting, [Next]_vars PROVE Waiting'
  OBVIOUS
<1> USE DEF Leaving
<1>1. CASE Silence
  <2>1. InSent("bye")' => InSent("bye")
    BY <1>1, SilenceKeeps DEF InSent
  <2> QED
    BY <1>1, <2>1, SilenceKeeps DEF Waiting, nodes
<1>2. ASSUME NEW line, Speaks(line) PROVE Waiting'
  <2>1. /\ line \in Lines /\ Send(line) /\ up' = up
        /\ line.verb \in Verbs
    BY <1>2, SpeaksOnCue DEF nodes, Lines, Verbs
  <2>2. pc \in Leaving => line.verb = "bye"
    BY <1>2, <2>1, SpeaksOnCue DEF Verbs
  <2>3. line.verb = "bye" => pc' \in {"bye", "closing"}
    BY <1>2, SpeaksOnCue
  <2>4. InSent("bye")' => line.verb = "bye" \/ InSent("bye")
    BY <2>1, Spoken
  <2>5. ~up => sent' = sent
    BY <2>1, Spoken
  <2> QED
    BY <2>1, <2>2, <2>3, <2>4, <2>5 DEF Waiting
<1>3. CASE Answered
  <2>1. PICK verb \in Verbs, chunks \in Said : Answering(verb, chunks)
    BY <1>3 DEF Answered
  <2>2. /\ up /\ InSent("bye")' => InSent("bye")
        /\ InSent(verb) /\ pc' = pc
        /\ up' = up \/ verb = "bye"
    BY <2>1, Heard DEF Answering, client
  <2>3. up
    BY <2>1, Heard DEF Answering
  <2> QED
    BY <2>2, <2>3 DEF Waiting
<1>4. CASE HopDrops
  BY <1>4 DEF HopDrops, Waiting, InSent, client
<1>5. CASE LinkDies
  BY <1>5 DEF LinkDies, Waiting, InSent, client
<1>6. CASE UNCHANGED vars
  BY <1>6 DEF vars, client, nodes, Waiting, InSent
<1> QED
  BY <1>1, <1>2, <1>3, <1>4, <1>5, <1>6, StepKinds

LEMMA OnceStep == TypeOK /\ Once /\ [Next]_vars => Once'
<1> SUFFICES ASSUME TypeOK, Once, [Next]_vars PROVE Once'
  OBVIOUS
<1> USE DEF Leaving
<1>0. UNCHANGED <<sent, log>> /\ (pc \in {"reply"} \cup Leaving => pc' \in {"reply"} \cup Leaving)
        => Once'
  BY DEF Once, InSent, Executed
<1>1. CASE Silence
  BY <1>0, <1>1, SilenceKeeps DEF nodes
<1>2. ASSUME NEW line, Speaks(line) PROVE Once'
  <2>1. /\ line \in Lines /\ Send(line) /\ log' = log
        /\ line.verb \in Verbs
    BY <1>2, SpeaksOnCue DEF nodes, Lines, Verbs
  <2>2. CASE line.verb = "cmd"
    <3>1. pc = "ready" /\ pc' = "reply" /\ ~InSent("cmd") /\ ~Executed("cmd")
      BY <1>2, <2>2, SpeaksOnCue DEF Once
    <3>2. ~Executed("cmd")'
      BY <2>1, <3>1 DEF Executed
    <3>3. \A i \in DOMAIN sent' : sent'[i].verb = "cmd" => i = Len(sent')
      BY <2>1, <3>1, Spoken DEF InSent
    <3>4. \A i, j \in DOMAIN log' : log'[i].verb = "cmd" /\ log'[j].verb = "cmd" => i = j
      BY <2>1 DEF Once
    <3> QED
      BY <3>1, <3>2, <3>3, <3>4 DEF Once
  <2>3. CASE line.verb # "cmd"
    <3>1. InSent("cmd")' => InSent("cmd")
      BY <2>1, <2>3, Spoken
    <3>2. \A i \in DOMAIN sent' : sent'[i].verb = "cmd" => i \in DOMAIN sent /\ sent'[i] = sent[i]
      BY <2>1, <2>3, Spoken
    <3>3. \A i, j \in DOMAIN sent' : sent'[i].verb = "cmd" /\ sent'[j].verb = "cmd" => i = j
      BY <3>2 DEF Once
    <3>4. pc \in {"reply"} \cup Leaving => pc' \in {"reply"} \cup Leaving
      BY <1>2, <2>1, SpeaksOnCue DEF Verbs
    <3>5. Executed("cmd")' => Executed("cmd")
      BY <2>1 DEF Executed
    <3>6. \A i, j \in DOMAIN log' : log'[i].verb = "cmd" /\ log'[j].verb = "cmd" => i = j
      BY <2>1 DEF Once
    <3> QED
      BY <3>1, <3>3, <3>4, <3>5, <3>6 DEF Once
  <2> QED
    BY <2>2, <2>3
<1>3. CASE Answered
  <2>1. PICK verb \in Verbs, chunks \in Said : Answering(verb, chunks)
    BY <1>3 DEF Answered
  <2>2. /\ InSent(verb) /\ pc' = pc
        /\ InSent("cmd")' => InSent("cmd")
    BY <2>1, Heard DEF Answering, client
  <2>3. \A i \in DOMAIN sent' : i \in Nat /\ i + 1 \in DOMAIN sent /\ sent'[i] = sent[i + 1]
    BY <2>1, Heard DEF Answering
  <2>4. \A i, j \in DOMAIN sent' : sent'[i].verb = "cmd" /\ sent'[j].verb = "cmd" => i = j
    <3> TAKE i, j \in DOMAIN sent'
    <3> HAVE sent'[i].verb = "cmd" /\ sent'[j].verb = "cmd"
    <3>1. i + 1 = j + 1
      BY <2>3 DEF Once
    <3> QED
      BY <2>3, <3>1
  <2>5. CASE log' = log
    BY <2>2, <2>4, <2>5 DEF Once, Executed
  <2>6. CASE log' = Append(log, [verb |-> verb, node |-> at])
    <3>1. log \in Seq(Executions)
      BY DEF TypeOK, Executions
    <3>2. \A i \in DOMAIN log' :
            \/ i \in DOMAIN log /\ log'[i] = log[i]
            \/ i = Len(log) + 1 /\ log'[i].verb = verb
      BY <2>6, <3>1
    <3>3. CASE verb = "cmd"
      <4>1. pc' \in {"reply"} \cup Leaving /\ ~Executed("cmd")
        BY <2>2, <3>3 DEF Once
      <4>2. ~InSent("cmd")'
        <5> SUFFICES ASSUME NEW i \in DOMAIN sent', sent'[i].verb = "cmd" PROVE FALSE
          BY DEF InSent
        <5>1. 1 \in DOMAIN sent /\ sent[1].verb = "cmd" /\ i >= 1
          BY <2>1, <3>3, Heard DEF Answering
        <5>2. i + 1 = 1
          BY <2>3, <5>1 DEF Once
        <5> QED
          BY <2>3, <5>1, <5>2
      <4>3. \A i \in DOMAIN log' : log'[i].verb = "cmd" => i = Len(log) + 1
        BY <3>2, <4>1 DEF Executed
      <4> QED
        BY <2>4, <4>1, <4>2, <4>3 DEF Once
    <3>4. CASE verb # "cmd"
      <4>1. \A i \in DOMAIN log' : log'[i].verb = "cmd" => i \in DOMAIN log /\ log'[i] = log[i]
        BY <3>2, <3>4
      <4>2. Executed("cmd")' => Executed("cmd")
        BY <4>1 DEF Executed
      <4>3. \A i, j \in DOMAIN log' : log'[i].verb = "cmd" /\ log'[j].verb = "cmd" => i = j
        BY <4>1 DEF Once
      <4> QED
        BY <2>2, <2>4, <4>2, <4>3 DEF Once
    <3> QED
      BY <3>3, <3>4
  <2> QED
    BY <2>1, <2>5, <2>6 DEF Answering
<1>4. CASE HopDrops
  BY <1>0, <1>4 DEF HopDrops, client
<1>5. CASE LinkDies
  BY <1>5 DEF LinkDies, Once, InSent, Executed, client
<1>6. CASE UNCHANGED vars
  BY <1>0, <1>6 DEF vars, client, nodes
<1> QED
  BY <1>1, <1>2, <1>3, <1>4, <1>5, <1>6, StepKinds

LEMMA EndedStep == TypeOK /\ Ended /\ [Next]_vars => Ended'
<1> SUFFICES ASSUME TypeOK, Ended, [Next]_vars PROVE Ended'
  OBVIOUS
<1> USE DEF Ended, Leaving, Connecting, Listening
<1>1. CASE SendHop \/ ProbeMotd \/ SendElevate \/ RunCommand \/ SkipProbe \/ EndVersion
             \/ VersionFails \/ EndDrain \/ ReadMore
  BY <1>1 DEF SendHop, ProbeMotd, SendElevate, RunCommand, SkipProbe, EndVersion,
     VersionFails, EndDrain, ReadMore, config
<1>2. CASE /\ ReadBanner \/ NoBanner \/ AnswerChallenge \/ EndElevate \/ LinkError
           /\ Fail \/ Escape
  <2>1. pc \notin Leaving
    BY <1>2 DEF ReadBanner, NoBanner, AnswerChallenge, EndElevate, LinkError
  <2> QED
    BY <1>2, <2>1 DEF Fail, Failed, Unconnected, Escape, config
<1>3. CASE (ReadBanner \/ AnswerChallenge \/ EndElevate) /\ ~Fail
  BY <1>3 DEF ReadBanner, AnswerChallenge, EndElevate, config
<1>4. CASE EndCommand
  BY <1>4 DEF EndCommand, config
<1>5. CASE SayBye
  BY <1>5 DEF SayBye, config
<1>6. CASE Close
  BY <1>6 DEF Close, config
<1>7. CASE Cancel
  BY <1>7 DEF Cancel, config
<1>8. CASE Nodes \/ UNCHANGED vars
  <2>1. UNCHANGED client
    BY <1>8 DEF vars, Nodes, NodeConnects, NodeRefuses, NodeExecutes, NodeChallenges,
       NodeTakesAnswer, NodeMistakes, NodeHangsUp, HopDrops, LinkDies
  <2> QED
    BY <2>1 DEF client, config
<1> QED
  BY <1>1, <1>2, <1>3, <1>4, <1>5, <1>6, <1>7, <1>8 DEF Next, Transport, Connect,
     Work, Disconnect, NoBanner, LinkError, Returned

LEMMA SpecInv == Spec => []Inv
<1>1. Init => Inv
  BY InitType DEF Init, Inv, Waiting, Once, Ended, InSent, Executed, Leaving
<1>2. Inv /\ [Next]_vars => Inv'
  BY NextType, WaitingStep, OnceStep, EndedStep DEF Inv
<1> QED
  BY <1>1, <1>2, PTL DEF Spec

-----------------------------------------------------------------------------
(* The refinement of ToolCall.                                               *)
CommandRuns == {i \in DOMAIN log : log[i].verb = "cmd"}

\* A node executes while the transport stands still; the transport moves without
\* a node executing; and a call that is over stays as it is.
LEMMA OneMoves ==
  ASSUME Inv, [Next]_vars
  PROVE  /\ work' = work
         /\ UNCHANGED client \/ (UNCHANGED log /\ pc # "done")
<1> USE DEF Inv
<1>1. CASE Silence
  <2>1. UNCHANGED <<work, log>>
    BY <1>1, SilenceKeeps DEF config, nodes
  <2>2. pc # "done"
    BY <1>1 DEF Silence, ReadBanner, NoBanner, EndDrain, SkipProbe, EndVersion,
       ProbeMotd, VersionFails, EndElevate, ReadMore, EndCommand, LinkError, Close, Cancel,
       Listening
  <2> QED
    BY <2>1, <2>2
<1>2. CASE \E line : Speaks(line)
  <2>1. PICK line : Speaks(line)
    BY <1>2
  <2>2. UNCHANGED <<work, log>> /\ line.verb \in Verbs
    BY <2>1, SpeaksOnCue DEF config, nodes, Lines, Verbs
  <2> QED
    BY <2>1, <2>2, SpeaksOnCue DEF Verbs
<1>3. CASE Answered
  BY <1>3 DEF Answered, Answering, client, config
<1>4. CASE HopDrops \/ LinkDies
  BY <1>4 DEF HopDrops, LinkDies, client, config
<1>5. CASE UNCHANGED vars
  BY <1>5 DEF vars, client, config
<1> QED
  BY <1>1, <1>2, <1>3, <1>4, <1>5, StepKinds

LEMMA RunsOnce ==
  ASSUME Inv, Inv', [Next]_vars
  PROVE  \/ CommandRuns' = CommandRuns
         \/ CommandRuns = {} /\ \E x \in CommandRuns' : CommandRuns' = {x}
<1>1. CASE UNCHANGED log
  BY <1>1 DEF CommandRuns
<1>2. CASE ~UNCHANGED log
  <2>1. Answered
    BY <1>2, StepKinds, SilenceKeeps, SpeaksOnCue
      DEF Inv, nodes, HopDrops, LinkDies, vars
  <2>2. PICK verb \in Verbs : log' = Append(log, [verb |-> verb, node |-> at])
    BY <1>2, <2>1 DEF Answered, Answering
  <2>3. log \in Seq(Executions) /\ log' \in Seq(Executions)
    BY DEF Inv, TypeOK, Executions
  <2>4. /\ Len(log) \in Nat
        /\ DOMAIN log = 1 .. Len(log) /\ DOMAIN log' = 1 .. Len(log) + 1
        /\ \A i \in DOMAIN log : log'[i] = log[i]
        /\ log'[Len(log) + 1].verb = verb
    BY <2>2, <2>3
  <2>5. CASE verb # "cmd"
    BY <2>4, <2>5 DEF CommandRuns
  <2>6. CASE verb = "cmd"
    <3>1. \A i \in DOMAIN log : log[i].verb # "cmd"
      BY <2>4, <2>6 DEF Inv, Once
    <3>2. CommandRuns = {} /\ CommandRuns' = {Len(log) + 1}
      BY <2>4, <2>6, <3>1 DEF CommandRuns
    <3> QED
      BY <3>2
  <2> QED
    BY <2>5, <2>6
<1> QED
  BY <1>1, <1>2

LEMMA CallSteps ==
  ASSUME Inv, Inv', [Next]_vars
  PROVE  [TC!Next]_(TC!vars)
<1> DEFINE isOpen == result # "unconnected" /\ (open \/ sysActive)
           isLeft == result = "unconnected" /\ open
           ending == IF pc = "done" THEN result ELSE "none"
<1>1. CASE UNCHANGED client
  <2>1. pc' = pc /\ isOpen' = isOpen /\ isLeft' = isLeft /\ ending' = ending
    BY <1>1 DEF client, config
  <2>2. \/ CommandRuns' = CommandRuns
        \/ CommandRuns = {} /\ \E x \in CommandRuns' : CommandRuns' = {x}
    BY RunsOnce
  <2> QED
    BY <2>1, <2>2 DEF TC!Next, TC!Execute, TC!vars, CommandRuns
<1>2. CASE ~UNCHANGED client
  <2>1. pc # "done" /\ CommandRuns' = CommandRuns /\ ~isLeft
    BY <1>2, OneMoves DEF CommandRuns, Inv, Ended
  <2>2. CASE pc' # "done"
    <3>1. ending' = ending /\ ending = "none" /\ isLeft' = isLeft
      BY <2>1, <2>2 DEF Inv, Ended
    <3>2. CASE isOpen'
      BY <2>1, <2>2, <3>1, <3>2 DEF TC!Next, TC!Connect, CommandRuns
    <3>3. CASE ~isOpen'
      BY <2>1, <2>2, <3>1, <3>3 DEF TC!Next, TC!Disconnect, CommandRuns
    <3> QED
      BY <3>2, <3>3
  <2>3. CASE pc' = "done"
    <3>1. ending' \in TC!Outcomes \ {"none"} /\ ending' = result'
      BY <2>3 DEF Ended, Leaving, Inv, TypeOK, TC!Outcomes
    <3>2. isOpen' \in BOOLEAN /\ isLeft' \in {isLeft, TRUE}
      BY <2>1 DEF Inv, TypeOK
    <3>3. /\ isOpen' => ending' = "cancelled"
          /\ ending' # "unconnected" => isLeft' = isLeft
      BY <2>1, <2>3, <3>1 DEF Inv, Ended
    <3> QED
      BY <2>1, <2>3, <3>1, <3>2, <3>3 DEF TC!Next, TC!Return, CommandRuns
  <2> QED
    BY <2>2, <2>3
<1> QED
  BY <1>1, <1>2

\* A chained session implements ToolCall: on the whole path the command is
\* executed once at most, and a session that connected and is not cancelled ends
\* with nothing open, whatever the two BYEs meet.
THEOREM ImplementsToolCall == Spec => KeepsToolCall
<1>1. Init => TC!Init
  BY DEF Init, TC!Init
<1>2. Inv /\ Inv' /\ [Next]_vars => [TC!Next]_(TC!vars)
  BY CallSteps
<1> QED
  BY <1>1, <1>2, SpecInv, PTL DEF Spec, KeepsToolCall, TC!Spec

-----------------------------------------------------------------------------
(* The output is the command's.  Where replies are complete in time, a read  *)
(* that ends leaves nothing unread, so that a session which has nothing to   *)
(* wait for has nothing on its way but the word of a link that dropped.      *)
OfCommand(chunk) == chunk.of \in {"cmd", "drop"}

Own ==
  path.punctual =>
    /\ pc \in {"connected", "ready"} =>
         sent = <<>> /\ \A i \in DOMAIN net : net[i].of = "drop"
    /\ pc = "reply" =>
         /\ \A i \in DOMAIN sent : sent[i].verb = "cmd"
         /\ \A i \in DOMAIN net : OfCommand(net[i])
         /\ \A c \in buf : OfCommand(c)
    /\ result = "output" => pc \in Leaving /\ \A c \in buf : OfCommand(c)

LEMMA Expired ==
  ASSUME Waiting, path.punctual, MayExpire, pc \notin Leaving
  PROVE  net = <<>> /\ sent = <<>>
BY DEF Waiting, MayExpire

LEMMA OwnStep == Inv /\ Own /\ [Next]_vars => Own'
<1> SUFFICES ASSUME Inv, Own, [Next]_vars, path.punctual PROVE Own'
  BY ConfigKept DEF Inv, Own
<1>0. TypeOK /\ Waiting
  BY DEF Inv
<1> USE DEF Leaving
<1>1. CASE Silence
  <2>0. /\ sent' = sent
        /\ \A i \in DOMAIN net' : \E k \in {0, 1} :
             i + k \in DOMAIN net /\ net'[i] = net[i + k]
    BY <1>0, <1>1, SilenceKeeps, ReadNet
  <2>1. ASSUME pc' \in {"connected", "ready"}
        PROVE  sent' = <<>> /\ \A i \in DOMAIN net' : net'[i].of = "drop"
    <3>1. CASE pc \in {"connected", "ready"}
      BY <2>0, <3>1 DEF Own
    <3>2. CASE VersionFails
      BY <1>0, <2>0, <3>2 DEF VersionFails, Waiting
    <3>3. CASE EndDrain \/ EndVersion \/ EndElevate
      <4>1. MayExpire /\ pc \notin Leaving /\ net' = net
        BY <3>3 DEF EndDrain, EndVersion, EndElevate, Fail, Failed, Unconnected, Escape
      <4>2. net' = <<>> /\ sent' = <<>>
        BY <1>0, <2>0, <4>1, Expired
      <4> QED
        BY <4>2
    <3> QED
      BY <1>1, <2>1, <3>1, <3>2, <3>3 DEF Silence, ReadBanner, NoBanner, SkipProbe,
         ProbeMotd, ReadMore, EndCommand, LinkError, Close, Cancel, Fail, Failed,
            Unconnected, Escape, Connecting, Listening
  <2>2. ASSUME pc' = "reply"
        PROVE  /\ \A i \in DOMAIN sent' : sent'[i].verb = "cmd"
               /\ \A i \in DOMAIN net' : OfCommand(net'[i])
               /\ \A c \in buf' : OfCommand(c)
    <3>1. ReadMore /\ pc = "reply"
      BY <1>1, <2>2 DEF Silence, ReadBanner, NoBanner, EndDrain, SkipProbe, EndVersion,
         ProbeMotd, VersionFails, EndElevate, ReadMore, EndCommand, LinkError, Close, Cancel,
         Fail, Failed, Unconnected, Escape, Connecting, Listening
    <3>2. \A i \in DOMAIN net' : OfCommand(net'[i])
      BY <2>0, <3>1 DEF Own
    <3>3. buf' = buf \cup {net[1]} /\ 1 \in DOMAIN net
      BY <1>0, <3>1 DEF ReadMore, TypeOK
    <3> QED
      BY <2>0, <3>1, <3>2, <3>3 DEF Own
  <2>3. ASSUME result' = "output" PROVE pc' \in Leaving /\ \A c \in buf' : OfCommand(c)
    <3>1. EndCommand \/ (result = "output" /\ Close)
      BY <1>1, <2>3 DEF Own, Silence, ReadBanner, NoBanner, EndDrain, SkipProbe,
         EndVersion, ProbeMotd, VersionFails, EndElevate, ReadMore, EndCommand,
         LinkError, Close, Cancel, Fail, Failed, Unconnected, Escape, Connecting,
            Listening
    <3> QED
      BY <3>1 DEF Own, EndCommand, Close
  <2> QED
    BY <2>1, <2>2, <2>3 DEF Own
<1>2. ASSUME NEW line, Speaks(line) PROVE Own'
  <2>1. line \in Lines /\ Send(line) /\ line.verb \in Verbs /\ net' = net /\ result' = result
    BY <1>0, <1>2, SpeaksOnCue DEF Lines, Verbs
  <2>2. CASE line.verb = "bye"
    <3>1. pc \in Leaving /\ pc' \in {"bye", "closing"} /\ buf' = buf
      BY <1>0, <1>2, <2>2, SpeaksOnCue
    <3> QED
      BY <2>1, <3>1 DEF Own
  <2>3. CASE line.verb = "cmd"
    <3>1. pc = "ready" /\ pc' = "reply" /\ buf' = {}
      BY <1>0, <1>2, <2>3, SpeaksOnCue
    <3>2. sent = <<>> /\ \A i \in DOMAIN net : net[i].of = "drop"
      BY <3>1 DEF Own
    <3>3. \A i \in DOMAIN sent' : sent'[i].verb = "cmd"
      BY <1>0, <2>1, <2>3, <3>2, Spoken
    <3>4. result' # "output"
      BY <2>1, <3>1 DEF Own
    <3> QED
      BY <2>1, <3>1, <3>2, <3>3, <3>4 DEF Own, OfCommand
  <2>4. CASE line.verb \notin {"bye", "cmd"}
    <3>1. pc \notin Leaving /\ pc' \notin {"connected", "ready", "reply"}
      BY <1>0, <1>2, <2>1, <2>4, SpeaksOnCue DEF Verbs
    <3> QED
      BY <2>1, <3>1 DEF Own
  <2> QED
    BY <2>2, <2>3, <2>4
<1>3. CASE Answered
  <2>1. PICK verb \in Verbs, chunks \in Said : Answering(verb, chunks)
    BY <1>3 DEF Answered
  <2>2. /\ sent # <<>> /\ 1 \in DOMAIN sent /\ sent[1].verb = verb
        /\ \A i \in DOMAIN sent' : i + 1 \in DOMAIN sent /\ sent'[i] = sent[i + 1]
    BY <1>0, <2>1, Heard DEF Answering
  <2>3. \A i \in DOMAIN net' :
          (i \in DOMAIN net /\ net'[i] = net[i]) \/ net'[i].of = verb
    BY <1>0, <2>1, Replied DEF Answering
  <2>4. UNCHANGED <<pc, result, buf>>
    BY <2>1 DEF Answering, client
  <2>5. pc = "reply" => /\ \A i \in DOMAIN sent' : sent'[i].verb = "cmd"
                        /\ \A i \in DOMAIN net' : OfCommand(net'[i])
    BY <2>2, <2>3 DEF Own, OfCommand
  <2> QED
    BY <2>2, <2>4, <2>5 DEF Own
<1>4. CASE HopDrops
  <2>1. \A i \in DOMAIN net' :
          (i \in DOMAIN net /\ net'[i] = net[i]) \/ net'[i].of = "drop"
    BY <1>0, <1>4, DropSaid, Replied
  <2>2. UNCHANGED <<pc, result, buf, sent>>
    BY <1>4 DEF HopDrops, client
  <2> QED
    BY <2>1, <2>2 DEF Own, OfCommand
<1>5. CASE LinkDies
  <2>1. sent' = <<>> /\ net' \in {net, <<>>} /\ UNCHANGED <<pc, result, buf>>
    BY <1>5 DEF LinkDies, client
  <2> QED
    BY <2>1 DEF Own
<1>6. CASE UNCHANGED vars
  BY <1>6 DEF vars, client, nodes, Own
<1> QED
  BY <1>0, <1>1, <1>2, <1>3, <1>4, <1>5, <1>6, StepKinds

LEMMA OwnInv == Spec => []Own
<1>1. Init => Own
  BY DEF Init, Own
<1> QED
  BY <1>1, SpecInv, OwnStep, PTL DEF Spec

\* Where replies are complete in time, the output of a chained command holds no
\* banner, no welcome text and no version text.
THEOREM OwnOutput == Spec => []OutputIsOwn
<1>1. Own => OutputIsOwn
  BY DEF Own, OutputIsOwn, OfCommand
<1> QED
  BY <1>1, OwnInv, PTL

-----------------------------------------------------------------------------
(* Where the terminal is.  While the links hold and no welcome text passes   *)
(* for a banner too late, the transport has counted right: it waits for the  *)
(* banner of a hop at the node before it, and works at the target.           *)
Certain == path.stable /\ BannersTold

Quiet(verbs, last) == \A i \in DOMAIN sent : i <= last => sent[i].verb \notin verbs

\* The C command is not answered yet, or it was and its banner is the only one.
Walking ==
  \/ /\ at = hop - 1 /\ ~InNet("connected")
     /\ sent \in {<<>>, <<[verb |-> "C", to |-> hop]>>}
  \/ /\ at = hop /\ sent = <<>>
     /\ motdText # "connected" =>
          \A i, j \in DOMAIN net :
            net[i].text = "connected" /\ net[j].text = "connected" => i = j

Placed ==
  /\ pc = "hop" => sent = <<>> /\ at = hop - 1 /\ ~InNet("connected")
  /\ pc = "banner" => Walking
  /\ pc = "drain" => sent = <<>> /\ at = hop
                     /\ (motdText # "connected" => ~InNet("connected"))
  /\ pc \in Working => at = Hops /\ Quiet({"C", "bye"}, Len(sent))
  /\ \A i \in DOMAIN sent :
       sent[i].verb \in {"version", "cmd", "answer"} => at = Hops /\ Quiet({"C", "bye"}, i)
  /\ \A i \in DOMAIN log : log[i].node = Hops

Located == Certain => Placed

LEMMA SilencePlaced ==
  ASSUME Inv, Certain, Placed, Silence PROVE Placed'
<1>0. TypeOK /\ Waiting
  BY DEF Inv
<1>1. UNCHANGED <<sent, at, log, motdText>>
  BY <1>0, SilenceKeeps DEF nodes, config
<1>2. /\ net' \in Seq(Chunks)
      /\ \A i \in DOMAIN net' : \E k \in {0, 1} :
           i + k \in DOMAIN net /\ net'[i] = net[i + k]
      /\ InNet("connected")' => InNet("connected")
  BY <1>0, SilenceKeeps, ReadNet
<1>3. EndDrain => /\ pc = "drain" /\ sent = <<>> /\ at = hop
                  /\ ~InNet("connected")
  <2> SUFFICES ASSUME EndDrain PROVE pc = "drain" /\ sent = <<>> /\ at = hop /\ ~InNet("connected")
    OBVIOUS
  <2>1. pc = "drain" /\ MayExpire
    BY DEF EndDrain
  <2>2. path.punctual => net = <<>>
    BY <1>0, <2>1, Expired DEF Leaving
  <2> QED
    BY <2>1, <2>2 DEF Placed, Certain, BannersTold, InNet
<1>4. pc' = "hop" => sent' = <<>> /\ at' = hop' - 1 /\ ~InNet("connected")'
  <2> SUFFICES ASSUME pc' = "hop" PROVE sent' = <<>> /\ at' = hop' - 1 /\ ~InNet("connected")'
    OBVIOUS
  <2>1. EndDrain
    BY <1>0, SilenceKeeps
  <2>2. hop' = hop + 1 /\ hop \in Nat
    BY <1>0, <2>1, HopsAssumption DEF EndDrain, TypeOK
  <2> QED
    BY <1>1, <1>2, <1>3, <2>1, <2>2
<1>5. pc' = "banner" => Walking'
  <2> SUFFICES ASSUME pc' = "banner" PROVE Walking'
    OBVIOUS
  <2>1. pc = "banner" /\ hop' = hop /\ ReadBanner /\ net' = Tail(net) /\ net # <<>>
    BY <1>0, SilenceKeeps DEF ReadBanner, Fail, Failed, Unconnected, Escape, Connecting
  <2>2. CASE at = hop - 1
    <3>1. at # hop
      BY <1>0, <2>2, HopsAssumption DEF TypeOK
    <3> QED
      BY <1>1, <1>2, <2>1, <2>2, <3>1 DEF Placed, Walking
  <2>3. CASE at # hop - 1
    <3>1. \A i \in DOMAIN net' :
            i \in Nat /\ i + 1 \in DOMAIN net /\ net'[i] = net[i + 1]
      BY <1>0, <2>1 DEF TypeOK
    <3>2. at = hop /\ sent = <<>>
      BY <2>1, <2>3 DEF Placed, Walking
    <3>3. motdText # "connected" =>
            \A i, j \in DOMAIN net' :
              net'[i].text = "connected" /\ net'[j].text = "connected" => i = j
      <4> SUFFICES ASSUME motdText # "connected", NEW i \in DOMAIN net', NEW j \in DOMAIN net',
                          net'[i].text = "connected", net'[j].text = "connected"
                   PROVE  i = j
        OBVIOUS
      <4>1. i + 1 = j + 1
        BY <2>1, <2>3, <3>1 DEF Placed, Walking
      <4> QED
        BY <3>1, <4>1
    <3> QED
      BY <1>1, <2>1, <3>2, <3>3 DEF Walking
  <2> QED
    BY <2>2, <2>3
<1>6. pc' = "drain" => sent' = <<>> /\ at' = hop'
                       /\ (motdText' # "connected" => ~InNet("connected")')
  <2> SUFFICES ASSUME pc' = "drain"
               PROVE  sent' = <<>> /\ at' = hop'
                      /\ (motdText' # "connected" => ~InNet("connected")')
    OBVIOUS
  <2>1. CASE pc = "drain"
    <3>1. hop' = hop
      BY <1>0, <2>1, SilenceKeeps
    <3> QED
      BY <1>1, <1>2, <2>1, <3>1 DEF Placed
  <2>2. CASE pc # "drain"
    <3>1. pc = "banner" /\ hop' = hop /\ ReadBanner
      BY <1>0, <2>2, SilenceKeeps
    <3>2. net' = Tail(net) /\ net # <<>> /\ Head(net).text = "connected"
      BY <3>1 DEF ReadBanner, Fail, Failed, Unconnected, Escape, ConnectBanner,
         Connecting
    <3>3. 1 \in DOMAIN net /\ net[1].text = "connected"
      BY <1>0, <3>2 DEF TypeOK
    <3>4. at = hop /\ sent = <<>>
      BY <3>1, <3>3 DEF Placed, Walking, InNet
    <3>5. ASSUME motdText # "connected", NEW i \in DOMAIN net', net'[i].text = "connected"
          PROVE  FALSE
      <4>1. i \in Nat /\ i >= 1 /\ i + 1 \in DOMAIN net /\ net'[i] = net[i + 1]
        BY <1>0, <3>2 DEF TypeOK
      <4>2. at # hop - 1
        BY <1>0, <3>4, HopsAssumption DEF TypeOK
      <4>3. i + 1 = 1
        BY <3>1, <3>3, <3>5, <4>1, <4>2 DEF Placed, Walking
      <4> QED
        BY <4>1, <4>3
    <3> QED
      BY <1>1, <3>1, <3>4, <3>5 DEF InNet
  <2> QED
    BY <2>1, <2>2
<1>7. pc' \in Working => at' = Hops /\ Quiet({"C", "bye"}, Len(sent))'
  <2> SUFFICES ASSUME pc' \in Working PROVE at' = Hops /\ Quiet({"C", "bye"}, Len(sent))'
    OBVIOUS
  <2>1. CASE pc \in Working
    BY <1>1, <2>1 DEF Placed, Quiet
  <2>2. CASE pc \notin Working
    <3>1. EndDrain /\ pc' = "connected"
      BY <1>0, <2>2, SilenceKeeps DEF EndDrain, Working
    <3>2. hop = Hops
      BY <1>0, <3>1, HopsAssumption DEF EndDrain, TypeOK
    <3> QED
      BY <1>1, <1>3, <3>1, <3>2 DEF Quiet
  <2> QED
    BY <2>1, <2>2
<1> QED
  BY <1>1, <1>4, <1>5, <1>6, <1>7 DEF Placed, Quiet

LEMMA SpeaksPlaced ==
  ASSUME Inv, Placed, NEW line, Speaks(line) PROVE Placed'
<1>0. TypeOK
  BY DEF Inv
<1>1. /\ UNCHANGED <<at, log, net, motdText, hop>> /\ line \in Lines /\ line.verb \in Verbs
      /\ Send(line)
  BY <1>0, SpeaksOnCue DEF nodes, config, Lines, Verbs
<1>2. \A i \in DOMAIN log' : log'[i].node = Hops
  BY <1>1 DEF Placed
<1>3. CASE line.verb = "C"
  <2>1. pc = "hop" /\ pc' = "banner" /\ line.to = hop /\ line = [verb |-> "C", to |-> hop]
    BY <1>0, <1>1, <1>3, SpeaksOnCue DEF Lines
  <2>2. sent = <<>> /\ at = hop - 1 /\ ~InNet("connected")
    BY <2>1 DEF Placed
  <2>3. sent' \in {<<>>, <<line>>}
    BY <1>1, <2>2 DEF Send
  <2>4. Walking'
    BY <1>1, <2>1, <2>2, <2>3 DEF Walking, InNet
  <2>5. \A i \in DOMAIN sent' : sent'[i].verb = "C"
    BY <1>3, <2>3
  <2> QED
    BY <1>2, <2>1, <2>4, <2>5 DEF Placed, Working
<1>4. CASE line.verb \in {"version", "elevate", "answer", "cmd"}
  <2>1. pc \in Working /\ pc' \in {"version", "challenge", "verdict", "reply"}
    BY <1>0, <1>4, SpeaksOnCue DEF Working
  <2>2. at = Hops /\ \A i \in DOMAIN sent : sent[i].verb \notin {"C", "bye"}
    BY <2>1, <1>0 DEF Placed, Quiet, TypeOK
  <2>3. \A i \in DOMAIN sent' : sent'[i].verb \notin {"C", "bye"}
    BY <1>0, <1>1, <1>4, <2>2, Spoken
  <2> QED
    BY <1>1, <1>2, <2>1, <2>2, <2>3 DEF Placed, Quiet
<1>5. CASE line.verb = "bye"
  <2>1. pc' \in {"bye", "closing"}
    BY <1>0, <1>5, SpeaksOnCue
  <2>2. ASSUME NEW i \in DOMAIN sent', sent'[i].verb \in {"version", "cmd", "answer"}
        PROVE  at' = Hops /\ Quiet({"C", "bye"}, i)'
    <3>1. /\ i \in DOMAIN sent /\ sent'[i] = sent[i]
          /\ up => i < Len(sent') /\ Len(sent') = Len(sent) + 1
      BY <1>0, <1>1, <1>5, <2>2, Spoken
    <3>2. at = Hops /\ Quiet({"C", "bye"}, i)
      BY <2>2, <3>1 DEF Placed
    <3>3. \A j \in DOMAIN sent' : j <= i => j \in DOMAIN sent /\ sent'[j] = sent[j]
      <4>1. sent' \in Seq(Lines) /\ sent \in Seq(Lines)
        BY <1>0, <1>1, Spoken DEF TypeOK
      <4> QED
        BY <1>0, <1>1, <3>1, <4>1, Spoken
    <3> QED
      BY <1>1, <3>2, <3>3 DEF Quiet
  <2> QED
    BY <1>2, <2>1, <2>2 DEF Placed, Working
<1> QED
  BY <1>1, <1>3, <1>4, <1>5 DEF Verbs

LEMMA AnsweredPlaced ==
  ASSUME Inv, Placed, NEW verb \in Verbs, NEW chunks \in Said, Answering(verb, chunks)
  PROVE  Placed'
<1>0. TypeOK
  BY DEF Inv
<1>1. /\ Hears(verb) /\ UNCHANGED <<pc, hop, motdText>>
  BY DEF Answering, client, config
<1>2. /\ sent # <<>> /\ sent[1] = Head(sent) /\ sent[1].verb = verb /\ 1 \in DOMAIN sent
      /\ sent' \in Seq(Lines) /\ Len(sent) \in Nat /\ Len(sent') = Len(sent) - 1
      /\ Len(sent) = 1 => sent' = <<>>
      /\ \A i \in DOMAIN sent' :
           i \in Nat /\ i >= 1 /\ i + 1 \in DOMAIN sent /\ sent'[i] = sent[i + 1]
  BY <1>0, <1>1, Heard
<1>3. \A i \in DOMAIN net' :
        \/ i \in DOMAIN net /\ net'[i] = net[i]
        \/ \E j \in DOMAIN chunks : i = Len(net) + j /\ net'[i].text = chunks[j][2]
  BY <1>0, Replied DEF Answering
<1>4. verb \notin {"C", "bye"} => at' = at
  BY DEF Answering
<1>5. pc # "hop" /\ pc # "drain"
  BY <1>2 DEF Placed
<1>6. pc = "banner" => Walking'
  <2> SUFFICES ASSUME pc = "banner" PROVE Walking'
    OBVIOUS
  <2>1. /\ at = hop - 1 /\ ~InNet("connected")
        /\ sent = <<[verb |-> "C", to |-> hop]>>
    BY <1>2 DEF Placed, Walking
  <2>2. verb = "C" /\ Head(sent).to = hop /\ sent' = <<>>
    BY <1>2, <2>1
  <2>3. at' \in {hop - 1, hop} /\ hop \in Nat
    BY <1>0, <2>1, <2>2, HopsAssumption DEF Answering, TypeOK
  <2>4. \A i \in DOMAIN net : net[i].text # "connected"
    BY <2>1 DEF InNet
  <2>5. CASE at' = hop - 1
    <3>1. \A j \in DOMAIN chunks : chunks[j][2] # "connected"
      BY <2>2, <2>3, <2>5 DEF Answering
    <3>2. ~InNet("connected")'
      BY <1>3, <2>4, <3>1 DEF InNet
    <3> QED
      BY <1>1, <2>2, <2>5, <3>2 DEF Walking
  <2>6. CASE at' = hop
    <3>1. motdText # "connected" =>
            \A i \in DOMAIN net' : net'[i].text = "connected" => i = Len(net) + 1
      BY <1>3, <2>4 DEF Answering
    <3>2. motdText' # "connected" =>
            \A i, j \in DOMAIN net' :
              net'[i].text = "connected" /\ net'[j].text = "connected" => i = j
      BY <1>1, <3>1
    <3> QED
      BY <1>1, <2>2, <2>6, <3>2 DEF Walking
  <2> QED
    BY <2>3, <2>5, <2>6
<1>7. ASSUME pc \in Working PROVE at' = Hops /\ Quiet({"C", "bye"}, Len(sent))'
  <2>1. at = Hops /\ \A i \in DOMAIN sent : sent[i].verb \notin {"C", "bye"}
    BY <1>0, <1>7 DEF Placed, Quiet, TypeOK
  <2> QED
    BY <1>2, <1>4, <2>1 DEF Quiet
<1>8. ASSUME NEW i \in DOMAIN sent', sent'[i].verb \in {"version", "cmd", "answer"}
      PROVE  at' = Hops /\ Quiet({"C", "bye"}, i)'
  <2>1. i \in Nat /\ i >= 1 /\ i + 1 \in DOMAIN sent /\ sent[i + 1].verb \in {"version", "cmd", "answer"}
    BY <1>2, <1>8
  <2>2. at = Hops /\ \A j \in DOMAIN sent : j <= i + 1 => sent[j].verb \notin {"C", "bye"}
    BY <2>1 DEF Placed, Quiet
  <2>3. verb \notin {"C", "bye"}
    BY <1>2, <2>1, <2>2
  <2>4. \A j \in DOMAIN sent' : j <= i => sent'[j].verb \notin {"C", "bye"}
    <3> SUFFICES ASSUME NEW j \in DOMAIN sent', j <= i PROVE sent'[j].verb \notin {"C", "bye"}
      OBVIOUS
    <3>1. j + 1 \in DOMAIN sent /\ sent'[j] = sent[j + 1] /\ j + 1 <= i + 1
      BY <1>2, <2>1
    <3> QED
      BY <2>2, <3>1
  <2> QED
    BY <1>4, <2>2, <2>3, <2>4 DEF Quiet
<1>9. \A i \in DOMAIN log' : log'[i].node = Hops
  <2>1. CASE log' = log
    BY <2>1 DEF Placed
  <2>2. CASE /\ verb \in {"version", "cmd", "answer"}
             /\ log' = Append(log, [verb |-> verb, node |-> at])
    <3>1. at = Hops
      BY <1>2, <2>2 DEF Placed
    <3>2. log \in Seq(Executions)
      BY <1>0 DEF TypeOK, Executions
    <3>3. \A i \in DOMAIN log' :
            (i \in DOMAIN log /\ log'[i] = log[i]) \/ log'[i] = [verb |-> verb, node |-> at]
      BY <2>2, <3>2
    <3> QED
      BY <3>1, <3>3 DEF Placed
  <2> QED
    BY <2>1, <2>2 DEF Answering
<1> QED
  BY <1>1, <1>5, <1>6, <1>7, <1>8, <1>9 DEF Placed

LEMMA LocatedStep == Inv /\ Located /\ [Next]_vars => Located'
<1> SUFFICES ASSUME Inv, Located, [Next]_vars, Certain' PROVE Placed'
  BY DEF Located
<1>0. TypeOK
  BY DEF Inv
<1>1. Certain /\ Placed
  <2>1. Certain
    BY <1>0, ConfigKept DEF Certain, BannersTold
  <2> QED
    BY <2>1 DEF Located
<1>2. CASE Silence
  BY <1>1, <1>2, SilencePlaced
<1>3. CASE \E line : Speaks(line)
  BY <1>1, <1>3, SpeaksPlaced
<1>4. CASE Answered
  BY <1>1, <1>4, AnsweredPlaced DEF Answered
<1>5. ~HopDrops
  BY <1>1 DEF HopDrops, Certain
<1>6. CASE LinkDies
  <2>1. /\ sent' = <<>> /\ net' \in {net, <<>>}
        /\ UNCHANGED <<pc, hop, at, log, motdText>>
    BY <1>6 DEF LinkDies, client, config
  <2>2. InNet("connected")' => InNet("connected")
    BY <2>1 DEF InNet
  <2>3. \A i \in DOMAIN net' : i \in DOMAIN net /\ net'[i] = net[i]
    BY <2>1
  <2>4. Walking => Walking'
    BY <2>1, <2>2, <2>3 DEF Walking
  <2> QED
    BY <1>1, <2>1, <2>2, <2>4 DEF Placed, Quiet
<1>7. CASE UNCHANGED vars
  BY <1>1, <1>7 DEF vars, client, config, nodes, Placed, Walking, Quiet, InNet
<1> QED
  BY <1>0, <1>2, <1>3, <1>4, <1>5, <1>6, <1>7, StepKinds

LEMMA LocatedInv == Spec => []Located
<1>1. Init => Located
  <2> SUFFICES ASSUME Init PROVE Placed
    BY DEF Located
  <2>1. 0 = 1 - 1
    OBVIOUS
  <2> QED
    BY <2>1 DEF Init, Placed, InNet, Working, Quiet
<1> QED
  BY <1>1, SpecInv, LocatedStep, PTL DEF Spec

\* However long the path: while its links hold and no late welcome text passes for
\* a banner, no node but the target executes what is typed there.
THEOREM AtTarget == Spec => []RunsAtTarget
<1>1. Located => RunsAtTarget
  BY DEF Located, Certain, Placed, RunsAtTarget
<1> QED
  BY <1>1, LocatedInv, PTL

-----------------------------------------------------------------------------
(* Whose family it is.  Each hop is drained to the end before the next, so   *)
(* that the welcome text kept is the last hop's, behind the connect line of  *)
(* the node before it, and the version text the target's.                    *)
Around(node) == {node} \cup IF path.named THEN {node - 1} ELSE {}

SignedAt(node) ==
  /\ \A i \in DOMAIN net : net[i].text \in Signatures => net[i].from \in Around(node)
  /\ SignedBy(buf) \subseteq Around(node)

Sourced ==
  /\ pc \in {"hop", "connected"} => net = <<>>
  /\ pc \in {"banner", "drain"} => SignedAt(hop)
  /\ pc = "version" => SignedAt(Hops)
  /\ pc = "connected" => SignedBy(motd) \subseteq Around(Hops)
  /\ family \subseteq Around(Hops)

Signed == path.stable /\ path.punctual => Sourced

LEMMA SilenceSourced ==
  ASSUME Inv, path.punctual, Sourced, Silence PROVE Sourced'
<1>0. TypeOK /\ Waiting
  BY DEF Inv
<1>00. UNCHANGED path
  BY <1>0, SilenceKeeps DEF config
<1> USE <1>00 DEF Around, Signatures
<1>1. \A i \in DOMAIN net' : \E k \in {0, 1} :
        i + k \in DOMAIN net /\ net'[i] = net[i + k]
  BY <1>0, SilenceKeeps, ReadNet
<1>2. MayExpire /\ pc \notin Leaving => net = <<>>
  BY <1>0, Expired
<1>3. pc' = "banner" => pc = "banner" /\ hop' = hop
  BY <1>0, SilenceKeeps
<1>4. pc' = "drain" => pc \in {"banner", "drain"} /\ hop' = hop
  BY <1>0, SilenceKeeps
<1>5. pc' = "version" => pc = "version" /\ ReadMore
  BY DEF Silence, ReadBanner, NoBanner, EndDrain, SkipProbe, EndVersion, ProbeMotd,
     VersionFails, EndElevate, ReadMore, EndCommand, LinkError, Close, Cancel, Fail,
        Failed, Unconnected, Escape,
     Connecting, Listening
<1>6. pc' \in {"banner", "drain", "version"} => net # <<>> /\ buf' = buf \cup {net[1]}
  <2> SUFFICES ASSUME pc' \in {"banner", "drain", "version"}
               PROVE  net # <<>> /\ buf' = buf \cup {net[1]}
    OBVIOUS
  <2>1. (ReadBanner /\ ~Fail) \/ ReadMore
    BY <1>0, <1>5, SilenceKeeps DEF Fail, Failed, Unconnected, Escape, Connecting
  <2>2. net # <<>> /\ buf' = buf \cup {Head(net)}
    BY <2>1 DEF ReadBanner, ReadMore
  <2> QED
    BY <1>0, <2>2 DEF TypeOK
<1>7. ASSUME NEW node, SignedAt(node), pc' \in {"banner", "drain", "version"}
      PROVE  SignedAt(node)'
  <2>1. 1 \in DOMAIN net
    BY <1>0, <1>6, <1>7 DEF TypeOK
  <2>2. SignedBy(buf)' \subseteq Around(node)
    BY <1>6, <1>7, <2>1 DEF SignedAt, SignedBy
  <2> QED
    BY <1>1, <1>7, <2>2 DEF SignedAt
<1>8. pc' \in {"hop", "connected"} => EndDrain
  BY <1>0, SilenceKeeps
<1>9. EndDrain => net' = <<>> /\ (pc' = "connected" => SignedBy(motd)' \subseteq Around(Hops))
  <2> SUFFICES ASSUME EndDrain
               PROVE  net' = <<>> /\ (pc' = "connected" => SignedBy(motd)' \subseteq Around(Hops))
    OBVIOUS
  <2>1. pc = "drain" /\ MayExpire /\ net' = net /\ motd' = buf
    BY DEF EndDrain
  <2>2. net' = <<>>
    BY <1>2, <2>1 DEF Leaving
  <2>3. pc' = "connected" => hop = Hops
    BY <1>0, HopsAssumption DEF EndDrain, TypeOK
  <2>4. SignedBy(buf) \subseteq Around(hop)
    BY <2>1 DEF Sourced, SignedAt
  <2>5. SignedBy(motd)' = SignedBy(buf)
    BY <2>1 DEF SignedBy
  <2> QED
    BY <2>2, <2>3, <2>4, <2>5
<1>10. family' \subseteq Around(Hops)
  <2>1. CASE ProbeMotd
    BY <2>1 DEF ProbeMotd, Sourced
  <2>2. CASE EndVersion
    BY <2>2 DEF EndVersion, Sourced, SignedAt
  <2>3. CASE ~ProbeMotd /\ ~EndVersion
    <3>1. family' = family
      BY <2>3 DEF Silence, ReadBanner, NoBanner, EndDrain, SkipProbe, VersionFails,
         EndElevate, ReadMore, EndCommand, LinkError, Close, Cancel, Fail, Failed,
            Unconnected, Escape
    <3> QED
      BY <3>1 DEF Sourced
  <2> QED
    BY <2>1, <2>2, <2>3
<1>11. pc' \in {"banner", "drain"} => SignedAt(hop)'
  <2> SUFFICES ASSUME pc' \in {"banner", "drain"} PROVE SignedAt(hop)'
    OBVIOUS
  <2>1. SignedAt(hop) /\ hop' = hop
    BY <1>3, <1>4 DEF Sourced
  <2> QED
    BY <1>7, <2>1 DEF SignedAt
<1>12. pc' = "version" => SignedAt(Hops)'
  BY <1>5, <1>7 DEF Sourced, SignedAt
<1> QED
  BY <1>8, <1>9, <1>10, <1>11, <1>12 DEF Sourced

LEMMA SpeaksSourced ==
  ASSUME Inv, Sourced, NEW line, Speaks(line) PROVE Sourced'
<1>0. TypeOK
  BY DEF Inv
<1>1. UNCHANGED <<net, hop, motd, path>> /\ line.verb \in Verbs
  BY <1>0, SpeaksOnCue DEF Lines, Verbs, config
<1> USE <1>1 DEF Around, Signatures
<1>2. family' \subseteq Around(Hops)
  <2>1. CASE line.verb = "version"
    <3>1. ProbeMotd
      BY <2>1 DEF Speaks, Line
    <3> QED
      BY <3>1 DEF ProbeMotd, Sourced
  <2>2. CASE line.verb # "version"
    BY <1>0, <2>2, SpeaksOnCue DEF Sourced
  <2> QED
    BY <2>1, <2>2
<1>3. CASE line.verb \in {"C", "version"}
  <2>1. pc \in {"hop", "connected"} /\ pc' \in {"banner", "version"} /\ buf' = {}
    BY <1>0, <1>3, SpeaksOnCue
  <2>2. net' = <<>>
    BY <1>1, <2>1 DEF Sourced
  <2>3. \A node : SignedAt(node)'
    BY <2>1, <2>2 DEF SignedAt, SignedBy
  <2> QED
    BY <1>2, <2>1, <2>3 DEF Sourced, SignedAt
<1>4. CASE line.verb \notin {"C", "version"}
  <2>1. pc' \in {"challenge", "verdict", "reply", "bye", "closing"}
    BY <1>0, <1>1, <1>4, SpeaksOnCue DEF Verbs
  <2> QED
    BY <1>2, <2>1 DEF Sourced
<1> QED
  BY <1>3, <1>4

LEMMA AnsweredSourced ==
  ASSUME Inv, Own, Placed, path.punctual, Sourced,
         NEW verb \in Verbs, NEW chunks \in Said, Answering(verb, chunks)
  PROVE  Sourced'
<1>0. TypeOK
  BY DEF Inv
<1>1. /\ Hears(verb) /\ UNCHANGED <<pc, hop, motd, family, buf, path>>
  BY DEF Answering, client, config
<1> USE DEF Around, Signatures
<1>2. sent # <<>> /\ sent[1] = Head(sent) /\ sent[1].verb = verb /\ 1 \in DOMAIN sent
  BY <1>0, <1>1, Heard
<1>3. \A i \in DOMAIN net' :
        \/ i \in DOMAIN net /\ net'[i] = net[i]
        \/ \E j \in DOMAIN chunks :
             net'[i].from = chunks[j][1] /\ net'[i].text = chunks[j][2]
  BY <1>0, Replied DEF Answering
<1>4. pc \notin {"hop", "drain", "connected"}
  BY <1>2 DEF Placed, Own
<1>5. ASSUME pc = "banner" PROVE SignedAt(hop)'
  <2>1. verb = "C" /\ Head(sent).to = hop
    BY <1>2, <1>5 DEF Placed, Walking
  <2>2. \A j \in DOMAIN chunks :
          chunks[j][2] \in Signatures => chunks[j][1] \in Around(hop)
    <3>1. at = hop - 1 /\ (at' = at \/ at' = hop)
      BY <1>0, <1>2, <1>5, <2>1 DEF Placed, Walking, Answering
    <3> QED
      BY <2>1, <3>1 DEF Answering
  <2>3. SignedAt(hop)
    BY <1>5 DEF Sourced
  <2> QED
    BY <1>1, <1>3, <2>2, <2>3 DEF SignedAt, SignedBy
<1>6. ASSUME pc = "version" PROVE SignedAt(Hops)'
  <2>1. at = Hops /\ verb \notin {"C", "bye"}
    BY <1>0, <1>2, <1>6 DEF Placed, Working, Quiet, TypeOK
  <2>2. \A j \in DOMAIN chunks :
          chunks[j][2] \in Signatures => chunks[j][1] \in Around(Hops)
    BY <2>1 DEF Answering
  <2>3. SignedAt(Hops)
    BY <1>6 DEF Sourced
  <2> QED
    BY <1>1, <1>3, <2>2, <2>3 DEF SignedAt, SignedBy
<1> QED
  BY <1>1, <1>4, <1>5, <1>6 DEF Sourced

LEMMA SignedStep ==
  Inv /\ Own /\ Located /\ Signed /\ [Next]_vars => Signed'
<1> SUFFICES ASSUME Inv, Own, Located, Signed, [Next]_vars, path'.stable, path'.punctual
             PROVE  Sourced'
  BY DEF Signed
<1>0. TypeOK
  BY DEF Inv
<1>1. path.stable /\ path.punctual /\ Sourced /\ Placed
  <2>1. path.stable /\ path.punctual
    BY <1>0, ConfigKept
  <2> QED
    BY <2>1 DEF Signed, Located, Certain, BannersTold
<1>2. CASE Silence
  BY <1>1, <1>2, SilenceSourced
<1>3. CASE \E line : Speaks(line)
  BY <1>1, <1>3, SpeaksSourced
<1>4. CASE Answered
  BY <1>1, <1>4, AnsweredSourced DEF Answered
<1>5. ~HopDrops
  BY <1>1 DEF HopDrops
<1>6. CASE LinkDies
  <2>1. net' \in {net, <<>>} /\ UNCHANGED <<pc, hop, motd, family, buf, path>>
    BY <1>6 DEF LinkDies, client, config
  <2>2. SignedBy(buf)' = SignedBy(buf) /\ SignedBy(motd)' = SignedBy(motd)
    BY <2>1 DEF SignedBy, Signatures
  <2>3. \A node : SignedAt(node) => SignedAt(node)'
    <3>1. \A i \in DOMAIN net' : i \in DOMAIN net /\ net'[i] = net[i]
      BY <2>1
    <3> QED
      BY <2>1, <2>2, <3>1 DEF SignedAt, Around, Signatures
  <2>4. /\ pc = "version" => SignedAt(Hops)'
        /\ pc \in {"banner", "drain"} => SignedAt(hop)'
    BY <1>1, <2>1, <2>3 DEF Sourced, SignedAt
  <2> QED
    BY <1>1, <2>1, <2>2, <2>4 DEF Sourced, Around
<1>7. CASE UNCHANGED vars
  BY <1>1, <1>7 DEF vars, client, config, Sourced, SignedAt, SignedBy, Around,
     Signatures
<1> QED
  BY <1>0, <1>2, <1>3, <1>4, <1>5, <1>6, <1>7, StepKinds

\* However long the path: where links hold and replies are complete in time, the
\* family the probe recognises is that of the target, or of the node before it
\* where connect lines name one.
THEOREM TargetFamily == Spec => []FamilyOfTarget
<1>1. Init => Signed
  BY DEF Init, Signed, Sourced, SignedAt, SignedBy
<1>2. Signed => FamilyOfTarget
  BY DEF Signed, Sourced, Around, FamilyOfTarget
<1> QED
  BY <1>1, <1>2, SignedStep, SpecInv, OwnInv, LocatedInv, PTL DEF Spec

-----------------------------------------------------------------------------
(* A session comes to its end.  Whatever the coroutine does not do itself     *)
(* uses up the base, a line in flight, a link of the path or a chunk, in this *)
(* order.                                                                     *)
ToGo ==
  CASE pc = "hop"       -> 3 * (Hops - hop) + 14
    [] pc = "banner"    -> 3 * (Hops - hop) + 13
    [] pc = "drain"     -> 3 * (Hops - hop) + 12
    [] pc = "connected" -> 11
    [] pc = "version"   -> 10
    [] pc = "ready"     -> IF sysActive THEN 6 ELSE 9
    [] pc = "challenge" -> 8
    [] pc = "verdict"   -> 7
    [] pc = "reply"     -> 5
    [] pc = "exit"      -> 4
    [] pc = "bye"       -> 3
    [] pc = "closing"   -> 2
    [] OTHER            -> 0

LessInFlight ==
  \/ up /\ ~up'
  \/ up' = up /\ Len(sent') < Len(sent)
  \/ up' = up /\ sent' = sent /\ at' < at
  \/ up' = up /\ sent' = sent /\ at' = at /\ Len(net') < Len(net)

Nearer == ToGo' < ToGo \/ (ToGo' = ToGo /\ LessInFlight)

LEMMA Measured ==
  TypeOK => ToGo \in Nat /\ Len(sent) \in Nat /\ at \in Nat /\ Len(net) \in Nat
<1> SUFFICES ASSUME TypeOK
             PROVE  ToGo \in Nat /\ Len(sent) \in Nat /\ at \in Nat /\ Len(net) \in Nat
  OBVIOUS
<1>1. Hops - hop \in Nat
  BY HopsAssumption DEF TypeOK
<1>2. ToGo \in Nat
  BY <1>1 DEF ToGo
<1> QED
  BY <1>2, HopsAssumption DEF TypeOK, Positions

\* The coroutine goes on to its next station or hop, or reads a chunk.
LEMMA TransportNearer == TypeOK /\ (Transport \/ LinkError \/ Cancel) => Nearer
<1> SUFFICES ASSUME TypeOK, Transport \/ LinkError \/ Cancel PROVE Nearer
  OBVIOUS
<1>0. hop \in Nat /\ Hops \in Nat /\ hop <= Hops
  BY HopsAssumption DEF TypeOK
<1>1. CASE pc' = pc /\ (ReadBanner \/ ReadMore) /\ ~Fail
  <2>1. Len(Tail(net)) = Len(net) - 1 /\ Len(net) \in Nat
    BY <1>1 DEF ReadBanner, ReadMore, TypeOK
  <2>2. /\ net' = Tail(net) /\ hop' = hop /\ sysActive' = sysActive
        /\ up' = up /\ sent' = sent /\ at' = at
    BY <1>1 DEF ReadBanner, ReadMore, nodes
  <2>3. ToGo' = ToGo
    BY <1>1, <2>2 DEF ToGo
  <2>4. Len(net') < Len(net)
    BY <2>1, <2>2
  <2> QED
    BY <2>2, <2>3, <2>4 DEF Nearer, LessInFlight
<1> USE <1>0 DEF Nearer, ToGo, Fail, Failed, Unconnected, Escape, Connecting, Listening
<1>2. CASE SendHop \/ (ReadBanner /\ (pc' # pc \/ Fail)) \/ NoBanner
  BY <1>2 DEF SendHop, ReadBanner, NoBanner
<1>3. CASE EndDrain
  BY <1>3 DEF EndDrain
<1>4. CASE SkipProbe \/ ProbeMotd \/ EndVersion \/ VersionFails
  BY <1>4 DEF SkipProbe, ProbeMotd, EndVersion, VersionFails
<1>5. CASE SendElevate \/ AnswerChallenge \/ EndElevate
  BY <1>5 DEF SendElevate, AnswerChallenge, EndElevate
<1>6. CASE RunCommand \/ EndCommand
  BY <1>6 DEF RunCommand, EndCommand
<1>10. CASE LinkError \/ Cancel
  <2>1. pc \in Listening \cup {"bye", "closing"} /\ pc' \in {"done", "exit"}
    BY <1>10 DEF LinkError, Cancel
  <2>2. pc' = "exit" => pc \notin {"bye", "closing"}
    BY <1>10 DEF LinkError, Cancel
  <2>3. hop' = hop /\ sysActive' = sysActive
    BY <1>10 DEF LinkError, Cancel
  <2> QED
    BY <2>1, <2>2, <2>3
<1>7. CASE Disconnect
  BY <1>7 DEF Disconnect, SayBye, Close
<1>8. ReadMore => pc' = pc /\ ~Fail
  <2>1. ReadMore => pc' = pc
    BY DEF ReadMore
  <2>2. Fail /\ pc \in Listening => pc' # pc
    OBVIOUS
  <2> QED
    BY <2>1, <2>2 DEF ReadMore
<1> HIDE DEF Nearer, ToGo, Fail, Failed, Unconnected, Escape, Connecting, Listening
<1>9. CASE Transport
  BY <1>1, <1>2, <1>3, <1>4, <1>5, <1>6, <1>7, <1>8, <1>9 DEF Transport, Connect, Work
<1> QED
  BY <1>9, <1>10

\* A node hears a line, a link of the path is lost, or the base.
LEMMA NodesNearer == TypeOK /\ Nodes => Nearer
<1> SUFFICES ASSUME TypeOK, Nodes PROVE Nearer
  OBVIOUS
<1>1. UNCHANGED client => ToGo' = ToGo
  BY DEF client, ToGo
<1>2. CASE Answered
  <2>1. PICK verb \in Verbs, chunks \in Said : Answering(verb, chunks)
    BY <1>2 DEF Answered
  <2>2. Hears(verb) /\ UNCHANGED client /\ up' \in BOOLEAN
    BY <2>1 DEF Answering, TypeOK
  <2>3. Len(sent') < Len(sent)
    BY <2>2, Heard
  <2>4. up = TRUE
    BY <2>2, Heard DEF TypeOK
  <2> QED
    BY <1>1, <2>2, <2>3, <2>4 DEF Nearer, LessInFlight
<1>3. CASE HopDrops
  <2>1. UNCHANGED client /\ up' = up /\ sent' = sent /\ at' < at
    BY <1>3, Measured DEF HopDrops
  <2> QED
    BY <1>1, <2>1 DEF Nearer, LessInFlight
<1>4. CASE LinkDies
  BY <1>1, <1>4 DEF LinkDies, Nearer, LessInFlight
<1> QED
  BY <1>2, <1>3, <1>4, NodesAnswer

\* For every length of the path, every step brings the session nearer to its
\* end: three stations a hop and eleven more at most, and between them only what
\* is in flight is used up.
THEOREM NoCircle ==
  Spec => [](ToGo \in Nat /\ Len(sent) \in Nat /\ at \in Nat /\ Len(net) \in Nat)
            /\ [][Nearer]_vars
<1>1. TypeOK /\ [Next]_vars => [Nearer]_vars
  BY TransportNearer, NodesNearer DEF Next, Returned
<1> QED
  BY <1>1, Typing, Measured, PTL DEF Spec
=============================================================================
