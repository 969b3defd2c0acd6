----------------------------- MODULE TelnetRead -----------------------------
(* What the read loops read: every chunk passes through _strip_iac on its    *)
(* own, wherever TCP has cut the stream, and is appended to a buffer that    *)
(* _read_until searches for a prompt at its end.  A decoder that sees the    *)
(* whole stream says what the text should have been.                         *)
EXTENDS ReadLoop, SequencesExt

CONSTANTS
  Prompt,    \* the text _read_until waits for, as a sequence of bytes
  MaxChunk   \* max_bytes of a read

\* WILL stands for the four commands that an option byte follows; after IAC any
\* other byte but IAC is a whole command.
Bytes  == {"IAC", "WILL", "a", "b"}

ASSUME TelnetAssumption ==
  /\ Prompt \in Seq(Bytes) /\ Prompt # <<>>
  /\ MaxChunk \in Nat \ {0}

Chunks == UNION {[1 .. n -> Bytes] : n \in 1 .. MaxChunk}

VARIABLES
  tail,    \* the longest beginning of the prompt that the buffer ends with
  state,   \* where the stream is: in "data", after "IAC", before an "option"
  meant,   \* as tail, of the text that the stream holds
  intact,  \* the buffer has held that text so far
  cut      \* a chunk has ended inside a command

stream == <<tail, state, meant, intact, cut>>

TelnetTypeOK ==
  /\ TypeOK
  /\ \A text \in {tail, meant} : IsPrefix(text, Prompt)
  /\ state \in {"data", "IAC", "option"}
  /\ intact \in BOOLEAN /\ cut \in BOOLEAN

TelnetInit ==
  /\ Init
  /\ tail = <<>> /\ meant = <<>>
  /\ state = "data"
  /\ intact = TRUE
  /\ cut = FALSE

\* Variant: the option byte is taken for the first byte of text.
StripTwo(data) ==
  LET from[i \in 1 .. Len(data) + 1] ==
        IF i > Len(data) THEN <<>>
        ELSE IF data[i] # "IAC" \/ i = Len(data)
             THEN <<data[i]>> \o from[i + 1]
        ELSE IF data[i + 1] = "IAC" THEN <<"IAC">> \o from[i + 2]
        ELSE from[i + 2]
  IN from[1]

\* _strip_iac: a last lone IAC is data, a command without its option is
\* dropped, IAC IAC is a data byte.
StripIac(data) ==
  LET from[i \in 1 .. Len(data) + 1] ==
        IF i > Len(data) THEN <<>>
        ELSE IF data[i] # "IAC" \/ i = Len(data)
             THEN <<data[i]>> \o from[i + 1]
        ELSE IF data[i + 1] = "WILL"
             THEN IF i + 2 <= Len(data) THEN from[i + 3] ELSE <<>>
        ELSE IF data[i + 1] = "IAC" THEN <<"IAC">> \o from[i + 2]
        ELSE from[i + 2]
  IN from[1]

\* The telnet stream, byte by byte.
OneByte(d, byte) ==
  CASE d.state = "option" -> [d EXCEPT !.state = "data"]
    [] d.state = "IAC" /\ byte = "IAC" ->
         [state |-> "data", text |-> Append(d.text, "IAC")]
    [] d.state = "IAC" /\ byte # "IAC" ->
         [d EXCEPT !.state = IF byte = "WILL" THEN "option" ELSE "data"]
    [] d.state = "data" /\ byte = "IAC" -> [d EXCEPT !.state = "IAC"]
    [] OTHER -> [d EXCEPT !.text = Append(@, byte)]

Decode(start, data) ==
  LET upTo[i \in 0 .. Len(data)] ==
        IF i = 0 THEN [state |-> start, text |-> <<>>]
        ELSE OneByte(upTo[i - 1], data[i])
  IN upTo[Len(data)]

EndOf(text) ==
  LET n == CHOOSE k \in 0 .. Len(Prompt) :
             /\ IsSuffix(SubSeq(Prompt, 1, k), text)
             /\ \A l \in k + 1 .. Len(Prompt) :
                  ~IsSuffix(SubSeq(Prompt, 1, l), text)
  IN SubSeq(Prompt, 1, n)

\* Variant: only the chunk is searched.
ChunkAlone(buffered, text) == EndOf(text)

\* buf += ..., pattern.search(buf): the prompt may come in pieces.
Buffered(buffered, text) == EndOf(buffered \o text)

ReceiveChunk ==
  /\ Receive
  /\ \E chunk \in Chunks :
       LET whole == Decode(state, chunk)
       IN /\ tail' = Buffered(tail, StripIac(chunk))
          /\ state' = whole.state
          /\ meant' = EndOf(meant \o whole.text)
          /\ intact' = (intact /\ StripIac(chunk) = whole.text)
          /\ cut' = (cut \/ whole.state # "data")
  /\ matched' = (loop = "until" /\ tail' = Prompt)

TelnetNext ==
  \/ ReceiveChunk
  \/ /\ Step \/ PeerCloses \/ Tick \/ Ended
     /\ UNCHANGED stream

telnetVars == <<vars, stream>>

TelnetSpec == /\ TelnetInit
              /\ [][TelnetNext]_telnetVars
              /\ WF_vars(Step) /\ SF_vars(Tick)

(***************************************************************************)
(* Properties                                                              *)
(***************************************************************************)
\* DESIGN.md:108, negotiation sequences are stripped: as long as no chunk ends
\* inside a command, the text is that of the stream, neither an option taken
\* for text nor text for an option, doubled IACs and lone command bytes included.
TextIntact == ~cut => intact

\* A prompt at the end of what has arrived is found, in however many pieces it
\* came and whatever was negotiated between them.
PromptFound == loop = "until" /\ ~cut /\ meant = Prompt => matched

\* xnet.py:393, "truncated, leave for next chunk": the text does not depend on
\* where the stream was cut.
CutsDontMatter == intact
=============================================================================
