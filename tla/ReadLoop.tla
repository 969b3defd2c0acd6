------------------------------ MODULE ReadLoop ------------------------------
(* The three loops that read a session, in discrete time: _read_until_idle   *)
(* (run_command, the drains, the elevations), _read_until (prompts, banners) *)
(* and capture (a fixed window).  One read at a time, each with a timeout of *)
(* its own; the loop looks at its deadline only between reads.               *)
EXTENDS Integers

CONSTANTS
  Idle,     \* idle_ms
  MaxWait,  \* max_wait_s, the timeout of _read_until, the window of capture
  Poll,     \* longest single read of _read_until and capture
  Lag       \* how late the event loop may wake a coroutine

ASSUME TimesAssumption ==
  /\ Idle \in Nat \ {0}
  /\ MaxWait \in Nat
  /\ Poll \in Nat \ {0}
  /\ Lag \in Nat

Loops == {"idle", "until", "capture"}

VARIABLES
  loop,     \* which loop runs
  pc,       \* "test" the deadline, "read", "ended"
  now,      \* time.monotonic(), from the start of the loop
  expires,  \* when the read in progress times out
  lastData, \* last_data_at, or None
  eof,      \* the peer has closed: every read returns b"" at once
  matched   \* the pattern of _read_until was found

vars == <<loop, pc, now, expires, lastData, eof, matched>>

None == -1

TypeOK ==
  /\ loop \in Loops
  /\ pc \in {"test", "read", "ended"}
  /\ now \in Nat
  /\ expires \in Nat
  /\ lastData \in Nat \cup {None}
  /\ eof \in BOOLEAN
  /\ matched \in BOOLEAN

Init ==
  /\ loop \in Loops
  /\ pc = "test"
  /\ now = 0
  /\ expires = 0
  /\ lastData = None
  /\ eof = FALSE
  /\ matched = FALSE

Lesser(m, n) == IF m < n THEN m ELSE n

\* Variant: the polls do not look at what remains.
WholePoll(l, t) == IF l = "idle" THEN Idle ELSE Poll

\* The timeout of one read.
Timeout(l, t) == IF l = "idle" THEN Idle ELSE Lesser(Poll, MaxWait - t)

StartRead ==
  /\ pc = "test"
  /\ now < MaxWait
  /\ expires' = now + Timeout(loop, now)
  /\ pc' = "read"
  /\ UNCHANGED <<loop, now, lastData, eof, matched>>

\* Variant: without data the deadline is set anew.
ExpireWithData ==
  /\ pc = "test"
  /\ now >= MaxWait
  /\ IF lastData = None
     THEN now' = 0 /\ pc' = pc
     ELSE now' = now /\ pc' = "ended"
  /\ UNCHANGED <<loop, expires, lastData, eof, matched>>

\* The deadline: the idle loop and capture return, _read_until raises.
Expire ==
  /\ pc = "test"
  /\ now >= MaxWait
  /\ pc' = "ended"
  /\ UNCHANGED <<loop, now, expires, lastData, eof, matched>>

\* Variant: the time left is taken for the time of the last chunk.
ReceiveUntimed ==
  /\ pc = "read"
  /\ ~eof
  /\ lastData' = now - expires
  /\ \/ pc' = "test" /\ matched' = FALSE
     \/ loop = "until" /\ pc' = "ended" /\ matched' = TRUE
  /\ UNCHANGED <<loop, now, expires, eof>>

\* A chunk: only _read_until may be content with it.
Receive ==
  /\ pc = "read"
  /\ ~eof
  /\ lastData' = now
  /\ \/ pc' = "test" /\ matched' = FALSE
     \/ loop = "until" /\ pc' = "ended" /\ matched' = TRUE
  /\ UNCHANGED <<loop, now, expires, eof>>

\* Variant: silence counts without a first chunk.
AnySilence(t, last) == t - last >= Idle

\* Silence counts only after a first chunk.
Silent(t, last) == last # None /\ t - last >= Idle

\* b"": the read has timed out, or the stream is at its end.
ReadNothing ==
  /\ pc = "read"
  /\ eof \/ now >= expires
  /\ pc' = IF loop = "idle" /\ Silent(now, lastData) THEN "ended" ELSE "test"
  /\ UNCHANGED <<loop, now, expires, lastData, eof, matched>>

PeerCloses ==
  /\ pc = "read"
  /\ ~eof
  /\ eof' = TRUE
  /\ UNCHANGED <<loop, pc, now, expires, lastData, matched>>

\* Time passes while a read is pending, and a little beyond its timeout.
Tick ==
  /\ pc = "read"
  /\ now < expires + Lag
  /\ now' = now + 1
  /\ UNCHANGED <<loop, pc, expires, lastData, eof, matched>>

Step == StartRead \/ Expire \/ ReadNothing

Ended == pc = "ended" /\ UNCHANGED vars

Next == Step \/ Receive \/ PeerCloses \/ Tick \/ Ended

Spec == Init /\ [][Next]_vars

\* The event loop runs what is ready, and time does not stand still.
FairSpec == Spec /\ WF_vars(Step) /\ SF_vars(Tick)

(***************************************************************************)
(* Properties                                                              *)
(***************************************************************************)
\* When a loop has ended, it has not overrun its limit: the last read of the
\* idle loop may start just before the deadline and last a full idle window;
\* the other loops shorten their last read to what remains.
EndsInTime ==
  pc = "ended" =>
    now <= MaxWait + Lag + IF loop = "idle" THEN Idle ELSE 0

\* The idle loop gives up before max_wait_s only after a chunk and a full idle
\* window of silence after it, so a slow first chunk is never missed; capture
\* never returns early; _read_until only with a match.
NeverEarly ==
  pc = "ended" /\ now < MaxWait =>
    CASE loop = "idle"    -> lastData # None /\ now >= lastData + Idle
      [] loop = "until"   -> matched
      [] loop = "capture" -> FALSE

\* Every loop ends, with data that never stops, none at all, or a closed peer.
LoopEnds == <>(pc = "ended")
=============================================================================
