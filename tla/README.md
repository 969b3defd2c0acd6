# pr-digi-mcp: TLA+ models and proofs

`pr-digi-mcp` is an MCP server that gives a language-model client about eighty
tools for the text consoles of packet-radio nodes ((X)Net, BPQ32/LinBPQ,
PC/Flexnet). One tool call opens a session on a node (optionally through an SSH
jump host, optionally through other nodes over AX.25), logs in, elevates to
sysop if the tool needs it, runs one command, and closes. Consoles have no
message boundaries: when a reply has ended, whether the elevation was accepted,
and which node the terminal is on are all inferred from text and silence. That
inference, what happens when it fails half-way, and the gate that asks the
operator before a dangerous command are what these models are about.

Paths below are under `src/pr_digi_mcp/` of the repository; documents are the
repository's `DESIGN.md`, `README.md` and `docs/`. `PROJECT.json` lists the
hazards of this code line by line, with the properties that watch each of them.

## 1. Inventory

| Component | Source | State it keeps | Operations | What makes it correct | Modelled in |
|---|---|---|---|---|---|
| Console session | `transports/xnet.py`, `transports/bpq.py` | `_ssh`, `_reader/_writer`, `_sys_active`; per call: what it has read | `connect`, `_login`, `elevate_sys`, `run_command`, `capture`, `disconnect` | the reply belongs to the command; sysop commands run at the sysop prompt; secrets are never typed at a command prompt; a command runs once; sessions end closed and calls return | `Session` (refines `ToolCall`), `SessionProofs` |
| Read loops | `transports/xnet.py` 252-281, 322-372 | deadline, time of the last data | `_read_chunk`, `_read_until`, `_read_until_idle`, `capture` | neither late nor early, never for ever | `ReadLoop`, `ReadLoopProofs` |
| Chained session | `transports/chained.py`, `transports/family.py` | `motd`, position inferred from banners | hop walk, `probe_family`, SYS at the target, two-step teardown | command, SYS answer and family are the target's, not a transit node's | `Chain` (refines `ToolCall`), `ChainProofs` |
| Route discovery | `discovery.py`, `parsers.py` | best candidate per node, ranked list | `_resolve_alias`, `_probe_node`, `discover_routes` | the answer depends on the nodes' tables, not on which node answers first | `Discovery` (refines `RoutePlan`), `DiscoveryProofs` |
| `remote_run` | `server.py` 1695-1811, `transports/__init__.py` 46-70 | attempts, the open transport | gate, discover, connect, fall back, run, close | one execution, best route first, one session at a time, the tool returns | `RemoteRun` (refines `RoutePlan` and `ToolCall`), `RemoteRunProofs` |
| Node table | `config.py`, `transports/__init__.py` 20-43 | `_NODES` | `load_nodes`, `resolve_chain`, `open_transport` | what is served can be resolved by every later call | `NodeTable`, `NodeTableProofs` |
| Gate and tools | `safety.py`, `server.py` 97-1556, `commands.py` | none between calls | `_get_node`, classification, confirm gates, 78 tools | a dangerous command runs only as it was shown and approved | `Tools`, `Gate`, `GateProofs` |
| Credentials | `credentials.py` | a thread and a queue per lookup | keychain with a 2 s limit, then YAML | a password belongs to the account asked for; a hung keychain costs bounded time and leaves nothing that can do harm | `Keyring`, in `Sweep` |
| Aggregation | `server.py` 1583-1668 | the entries collected | `network_topology`, `find_callsign`: a session to every node at once | one node failing stays that node's error; no session's delay costs another its answer | `Sweep`, `SweepProofs` |
| Telnet negotiation | `transports/xnet.py` 374-403 | none | `_strip_iac` | no byte of text is lost or invented | `TelnetRead`, `ReadLoopProofs` |
| HTTP front | `http_auth.py`, `server.py` 1814-1875 | token set | bearer gate, bind checks | nothing is served before the token matched | not modelled |
| Parsers, CLI, logging | `parsers.py`, `server.py` 1560-1580, 1877-1938 | none | regular expressions, arguments | (text layout) | not modelled |

How they interact: a tool handler (`Gate`/`Tools`) looks its node up in
`_NODES` (`NodeTable`), and opens a transport. A direct node gets a `Session`; a
chained one resolves its path (`NodeTable`), logs into the base as `Session`
does and walks the hops (`Chain`). `remote_run` first runs read commands on
every configured node at once (`Discovery`), then connects chained sessions one
after the other until one succeeds (`RemoteRun`). The two aggregations open a
session to every node at once (`Sweep`); a session that is asked for a password
looks it up synchronously (`Keyring`), and all sessions of the process wait. All
reads go through the loops of `ReadLoop`, and through `_strip_iac` chunk by chunk
(`TelnetRead`). There is no shared mutable state between calls other than the
constant `_NODES`; concurrency is inside discovery and the aggregations
(`asyncio.gather`), between the event loop and the keychain threads, and between
each session and its node, link and canceller.

Hard behaviours: chunks cut and delayed anywhere, replies later than the idle
window, links that die silently or with an error, AX.25 hops that drop under a
session, cancellation at any await, exceptions before and after `__aenter__` has
returned, retries along other routes, configuration that loops, a server
restarted between the approval block and the approved call, an event loop held
by a keychain that does not answer, late answers nobody waits for.

## 2. The modules

Each action is one step of the code between two awaits, named after the
function or the exchange it is part of; the line-by-line correspondence of every
definition is the `map` of `PROJECT.json`. Operators introduced with
"Variant:" are deliberately wrong forms of the definition that follows; no
specification uses them. For each property there is one such variant that
breaks it, listed under `mutants`.

**`Session`** is one call on a direct node. `pc` is the await the coroutine is
suspended at, `chan` the open channels (`_ssh`, `_writer`), `sysActive` is
`_sys_active`. The node is a small prompt automaton (`mode`) that executes lines
into `log`; `net` and `sent` are the two directions of the stream. A chunk says
which line it answers and what its text is (`Texts`). The configuration (kind of
node, kind of tool, jump host, login, whether a wrong SYS answer is reported) is
the record `call`. Exceptions are `Raise`: inside `connect()` the call ends
without `__aexit__`, later it goes through `disconnect()`. `Cancel` may strike
at every await. `call.punctual` distinguishes nodes whose replies are complete
before an idle window ends: the code can only infer the end of a reply from
silence, so what it returns is claimed for punctual nodes only.

The code's patterns are loose, and searched in all that a read has collected:
any five short numbers are a BPQ challenge (bpq.py:36) and are looked for before
the Ok, the word "ok" is BPQ's consent (bpq.py:43, 83, 98, 111), a line with a
name, a `>` and three numbers a challenge of (X)Net (xnet.py:47-53), "invalid" or
"denied" a refusal. So `call.words` says which of the patterns that the call
searches (`Searched`) the node's free text matches by accident, and `call.told`
whether only its welcome text does (`FreeTexts`); `Finds` is the search. What is
claimed of elevation and secrets is then limited, in the property, to where no
such text can be read in its place: `Unmistaken`. The two login prompts are the
exception: their patterns are anchored at the end of the buffer, and free text
is not given a match of them.

**`Chain`** is one session of `Ax25ChainedTransport`, from the logged-in base.
`at` is the node the terminal really is at, `hop` what the transport believes.
Welcome texts may be plain, carry a family signature, look like a challenge, or
contain the words of the connect banner; where a path is `named`, the connect
lines and prompts of its nodes carry a family's name, too, as BPQ's do
(`BPQBOL:IW2OHX-13} Connected to ...`), and the text kept of the last hop begins
with such a line (chained.py:107). Hops may be refused, drop later (`HopDrops`),
or take a line for something else (`NodeMistakes`). An error ends in `Fail`, or,
if it is one of asyncssh's, which `remote_run` does not catch, in `Escape`
without a `disconnect()`. `Cancel` may strike at every await, those of the
teardown included: between the two BYEs it skips the base class's `disconnect()`
and leaves the channels open. The base login is not repeated here.

**`ToolCall`** is the abstract promise of every tool that sends a command, in
five actions: sessions are opened and closed, the command is executed once at
most and only if it may be, and the call returns with no session open unless its
task was cancelled. The channels that a `connect()` leaves behind when it raises
(finding 1) belong to no session; they are not hidden but counted apart (`left`),
and come from the `connect()` that ends the call, or from one the call goes on
without (`Abandon`), as discovery does. `Session`, `Chain` and `RemoteRun`
each map their state to it (`TC`), and `KeepsToolCall` is the refinement. It says
nothing of liveness, which the three state for themselves.

**`RoutePlan`** is the abstract promise of discovery: one step that gives the
ranked candidates as a function of the tables. **`Discovery`** is the code: alias
questions and probes answered in any order, `consider()` keeping the best per
node, the final sort. A query that fails may leave channels open (`stranded`):
discovery swallows the error (discovery.py:128, 171, 189) and nothing closes them.
That the rows of an answer to `N <callsign>` are of that callsign is left to the
node, as the code leaves it (`NetRomAnswer`, parsers.py:277-285), and so is that
one of them at most is marked as the route in use (`TablesAssumption`).
**`RemoteRun`** extends it with the tool's gate, connect
loop, run and `finally`; `KeepsPlan` says that discovery inside the tool
implements the safety part of `RoutePlan`, and `ToolReturns` that the plan is
given unless the gate refuses.

**`NodeTable`** loads a file entry by entry, walks every chained entry as
`resolve_chain` does, serves, and then resolves again on every call.

**`ReadLoop`** is the three loops in discrete time, with a `Lag` by which the
event loop may be late. **`TelnetRead`** extends it with what is read: chunks of
every content over the alphabet that matters (`IAC`, a command with an option, two
bytes of text), each stripped on its own as the code does, and the buffer that
`_read_until` searches. Of the buffer it keeps only what the search can still
use, the longest beginning of the prompt at its end (`tail`). A decoder that
reads the stream byte by byte, across chunks, says what the text should have
been (`meant`, `intact`), and `cut` whether a chunk has ended inside a command.

**`Keyring`** is `get_password`: every lookup has its own thread and queue, waits
for `KT`, and then asks the file; an abandoned thread stays and may answer later.
**`Sweep`** is the two aggregations, one session per node, composed with it.
`Poll` is an iteration of the event loop: it takes up every session that has data
or an expired timer; `Resume` runs them one by one, and a session that comes to a
prompt starts a lookup that blocks the loop until `Answer`. Time passes (`Tick`)
while the loop is blocked or idle, and all deadlines with it. A session waits for
its password prompt (the two prompts of a login are one wait), for the end of the
welcome text, for a challenge, its verdict and a reply. All but the first are
reads of `_read_until_idle`: they wait `Limit` for a first piece, and after a
piece for `Idle` only (`Collect`), so that a lookup of another session may end
one with the answer in the socket; an echo may come before the answer
(`NodeBegins`). What was read by then (`got`) decides how the exchange goes on
(`EndWait`). A node may also close its end. The code's reads of a closed stream
return nothing at once and are repeated until the deadline (xnet.py:338-347,
364-372); `asyncio.wait_for` suspends for such a read before Python 3.12 and does
not from then on, so the model has both (the package asks for 3.10 or later): the
closed stream is silent, or it holds the loop (`Spin`, `spun`) as a lookup does.

**`Tools`** tabulates the 78 tools of `server.py` that send a command to one
configured node (the other four are `list_nodes`, the two aggregations and
`remote_run`): accepted types, verb and fixed tokens, what kind of arguments it
takes, gate; and the classifier of `safety.py` on those. `xnet_service`
and `bpq_wl2ksysop` have one row for each of their two commands. An argument is
the words the node will read of it and whether it holds a control character. Most
tools accept any text without one (`checked`: `validate_token`; a callsign or an
alias may be `DEL`, too), some a number or one of a few words, one passes free
text on (`xnet_destinations`, server.py:273), three take the whole command. The
words of the argument follow the verb in the command (`CommandsOf`), and the
classifier sees them there. **`Gate`** is
the exchange over several calls: ask, refuse with a block, approve, call again
with `confirm=True`, with server restarts that load another table in between.
The client in the model sets `confirm` only on a call whose block the operator
approved, which is what `safety.py:11-13` demands of it; the model does not show
what a client that ignores that would do. A text of two lines counts as one
command, whose first verb the classifier reads, as `is_dangerous_command` does.

`MCRemoteRun` (with the tables of `MCDiscovery`), `MCNodeTable`, `MCTelnetRead`,
`MCSweep` and `MCGate` give the constants of the checked instances.
`SessionProofs`, `ChainProofs`, `DiscoveryProofs`, `RemoteRunProofs`,
`NodeTableProofs`, `ReadLoopProofs` (with those of `TelnetRead`), `SweepProofs` and
`GateProofs` hold the theorems.

## 3. What the runs show

| Run | Instance | Shows |
|---|---|---|
| `session` (772,000 states) | all combinations of kind, tool, jump host, login, silent, punctual, and of the patterns that free text matches | `OutputIsOwn`: output contains nothing of banner, login or elevation. `OutputMeansRun`: text returned comes from a node that executed the command. `RunsElevated`: a tool that elevates runs at the sysop prompt (BPQ whatever the timing unless other text may hold an "ok"; (X)Net when it rejects aloud and in time and no other text looks like a challenge). `NoSecretRun`: the password is never executed, an answer not unless late or free text looks like a challenge. `KeepsToolCall` whatever the timing, loss and cancellation. `CallReturns`: every call ends. |
| `session_leak` | same | violation of `ClosedOnReturn`, see section 4 |
| `chain` (1,173,000) | base, one transit node, target; four kinds of welcome text, paths with and without names in their connect lines | while the links hold, the command and the SYS answer reach the target only (`RunsAtTarget`, unless a late welcome text speaks the words of the banner); the family reported is the target's, or where connect lines name one that of the node before it (`FamilyOfTarget`); output is the command's; in every case, cancelled or not, the session implements `ToolCall` and ends. |
| `chain_unnoticed` | same | violation of `FailureMarkersRaise` |
| `remote_run` (195,000) | (X)Net, LinBPQ and BPQ nodes, 216 combinations of tables, two attempts | `KeepsPlan`: the routes are those of `RoutePlan` in every order of answers. `KeepsToolCall`: one execution over all routes, nothing opened before the approval, no session open after an answer, and what discovery's failed connects leave open said to be. `OneSession` (of the sessions the connect loop opens), `BestFirst`. `ToolReturns`: the tool returns, and has ranked the routes unless the gate refused. |
| `remote_run_fallback` | same | violation of `FallsBack` |
| `node_table` (5,700) | every file of up to three entries over four names, at most one incomplete | the walk is a simple chain; a table is served exactly when every chained entry is grounded; no later resolve fails; the path handed out reaches the node asked for |
| `telnet_read` (46,000) | Idle 3, MaxWait 10, Poll 2, Lag 1; chunks of one to three bytes, a prompt of two | `EndsInTime`: a loop overruns its limit by at most its last idle window and the lag; `NeverEarly`; `TextIntact`: as long as no chunk ends inside a command, the text is the stream's; `PromptFound`: a prompt is found in however many pieces it comes, negotiation between them or not; `LoopEnds` even with data that never stops, none, or a closed peer |
| `telnet_cut` | same | violation of `CutsDontMatter` |
| `sweep` (801,000) | an (X)Net and a BPQ node, either tool; `network_topology` with a login at both or neither, `find_callsign` with one at the (X)Net node or at none; KT 1, Limit 2, Idle 1; passwords in the keychain only or in the file only | `OwnPassword`: a password goes where its own account was asked for, and an abandoned thread always has room for its answer; `Blameless`: however long the keychain hangs, an answer that comes with more time to the end of its read than the other sessions' lookups can take is heard, as long as no closed stream has held the loop; `AnswerWhole`: the answer has an entry for every node and leaves no session running; `SweepAnswers`: there is an answer, though no node and no keychain ever gives one |
| `gate` (294,000) | one name that restarts give any of four types or drop; arguments that are a number, a `DEL`, or two lines; five typed verbs with each of them | `ApprovedAsShown`: whatever tool a command comes through, if the dialect of the node it reaches calls it dangerous it ran only under an approved block for this node and this command, arguments included, those of ungated tools excepted; `ApprovedFamily`: a typed command approved for one family does not run on the other after a restart; `ChainedAsDocumented`: only the tools `docs/tools.md` lists reach a PC/Flexnet node; `BlockRuns`: an approved block leads to a run |
| `gate_abbreviations` | same | violation of `AbbreviationsRefused` |

Bounds. A session is a fixed sequence of at most five exchanges, so nothing in
`Session` needs a bound: streams are as long as the exchanges make them. One
transit node (`Hops = 2`) is the least path in which the terminal can be at a
node that is neither base nor target; the theorems hold for any number. Three
sources are enough for two to tie or conflict while a third
fails, and cover the three types. Three entries contain every shape of a chain
that goes wrong: a cycle of one, two and three, a cycle entered from outside, a
missing transit node, a dead end. In `ReadLoop` `Idle` does not divide `MaxWait`
and `Poll` is below both, so a deadline can pass in the middle of every kind of
read; time passes only while a read is pending and never more than `Lag` past its
expiry, so no cap is needed. A chunk of three bytes holds a whole negotiation
command, and two commands of two; with a prompt of two bytes both it and any
command can be cut at every place. Two nodes are the least in which one session's
lookup can cost another its deadline. The times of `sweep` are the least in the
order of the code's: `Limit` above `KT`, as 5 s (the elevation, bpq.py:80, 96, and
the password prompt), 10 s (the welcome text) and 15 s (a command) are above 2 s,
and `Idle` not above it, as 0.5 s and 0.6 s are below 2 s; so an answer in front of
which nothing has come can be early, and one behind an echo cannot. The lookups
of one session follow each other, so the BPQ node's user and SYS lookups, and the
two calls of `find_callsign`, give the late thread of one lookup the chance to
meet the next. Two sessions to a BPQ node with a login, four lookups in a row, are
left out: they multiply the states by six. In `Gate` one name suffices because
handlers share nothing but the table; an argument with a `DEL` stands for every
word of `DANGEROUS_ARG_TOKENS`. In `Session` free text matches at most the
patterns that the call searches, since no other is looked for. None of the runs
uses symmetry.

Deadlock is checked in every run; a session, chain or tool that has ended
stutters by an explicit action.

Fairness. `Session`, `Chain` and `RemoteRun` assume weak fairness of the
coroutine's own steps only: every read has a timeout, `BYE` has one, a dial ends
with the operating system's, so an await ends without the node's help. Of the
node, the links and the canceller nothing is assumed. The liveness properties of
`Session` and `Chain` are stated for nodes that are not punctual, since only
there is the node free never to answer; this includes all behaviours of the
others. `ReadLoop` and `TelnetRead` assume weak fairness of the loop's steps and strong
fairness of the clock, which goes on between chunks that arrive at any rate.
`Sweep` assumes that the event loop runs, that time passes, and that a dial ends
(with the operating system's own timeout); of a connected node and of the
keychain nothing. `Discovery` needs weak fairness of the answers only where
`RemoteRun` uses it: each probe is a session, which ends. `NodeTable` and `Gate`
state safety only.

## 4. Where code and documents disagree

1. *Channels left open* (`session_leak`). `connect()` runs inside `__aenter__`;
   if it raises after a channel is open, `__aexit__` does not run and nothing
   closes it. DESIGN.md:45 says every call tears its transport down. A discovery
   whose queries fail in this way goes on, and `remote_run` answers with the
   channels still open (`left` in `ToolCall`).
2. *A hop lost while the banner is drained* (`chain_unnoticed`). Failure markers
   are searched in what precedes the connect banner only; a drop reported in the
   drain that follows becomes part of the MOTD, and the session works at an
   earlier node. DESIGN.md:128-131 says failure markers raise.
3. *Connect errors that do not fall back* (`remote_run_fallback`). A
   `LookupError` of the credentials or an error class of asyncssh ends
   `remote_run` with candidates left. DESIGN.md:151-153 describes the fall-back
   on connect failure.
4. *Cut negotiation* (`telnet_cut`). `_strip_iac` sees one chunk at a time and
   keeps nothing: of a command that the end of a chunk cuts, the head is dropped
   (a lone `IAC` is kept as text) and the rest is text of the next chunk. The
   comment at xnet.py:393 says it is left for the next chunk.
5. *Short abbreviations* (`gate_abbreviations`). The comment at safety.py:19-22
   says `RE` is treated as dangerous, and verbs prefixed by a dangerous one too;
   `is_dangerous_command` compares abbreviations of three letters or more.

Smaller ones, without a run. DESIGN.md:103-104 says a read is bounded by
`max_wait_s`, while it may last one idle window longer (the bound that holds is
`EndsInTime`). DESIGN.md:194-197 lists parameter writes among the gated
commands, `docs/tools.md` and the code do not gate them. `load_nodes` accepts any
type that has the fields of a direct node (config.py:159), DESIGN.md:70 says it
rejects unknown ones; `open_transport` refuses them call by call. `list_nodes`
says that BPQ tools return an error until later phases (server.py:170), and they
exist. A node that stays silent after its login appears in `network_topology` as
a node without neighbours, not with an error: an empty reply is a reply.
xnet.py:350 says a read ends when the stream has been silent, while a loop held
by a lookup for longer than an idle window can end it with data in the socket.
chained.py:104-105 calls the text kept the target's, and it begins with the
connect line of the node before it, which family.py:28 may recognise. And
safety.py:64-66 says a `DEL` among a command's words makes it destructive, while
the arguments of tools without a gate are not looked at (server.py:722-725, 1216):
`xnet_set_param` or `bpq_iproute` send it without approval, and
`xnet_destinations` (server.py:273) does not even ask that its filter be one
line, which commands.py:8-11 promises of every argument of a builder.

## 5. What is proved

TLAPS checks the following for every value of the constants; the modules with
the proofs extend the checked ones unchanged. Every type invariant, safety
invariant, action property and refinement that a passing run checks is stated by
a theorem. What remains with TLC is liveness; of it, too, the part that needs no
fairness is proved (`NoCircle`, at the end of this section).

**`SessionProofs`.** `Typing`, `SecretsKept` (`NoSecretRun`), `OwnOutput`
(`OutputIsOwn`), `TextMeansRun` (`OutputMeansRun`), `ElevatedRuns`
(`RunsElevated`), and `ImplementsToolCall` (`KeepsToolCall`) with the two
invariants it rests on, `ExecutedOnce` and `Closed`. No assumption on constants
is needed: `Session` has none. The stated properties are not inductive: that the
log holds no secret says nothing about a password still on its way to a node at
its command prompt. The invariant adds what makes it so. `Waiting`: lines are in
flight only to a node that is up, and `BYE` is the last of them. `Once`: the
command is in flight or executed, never both, at most once, and neither before
it has been sent. `Awaited` for the password, `Answering` for the answer: a secret
in flight is the next line the node reads, and the node waits for it; of the
answer this holds where what the transport takes for a challenge is one
(`Unmistaken`). It does because transport and node move in
lockstep up to the password (`Lockstep`), and because a transport that has read
a challenge faces a node that waits for the answer, having said nothing since it
asked (`Elevating`). The preservation proof has one step per action. The
refinement then maps each step to one of `ToolCall`'s or to a stutter: what
changes the set of executions adds one to an empty set (`Once`), and what ends
the call ends it closed or with an outcome that excuses it (`Resulted`).

What is returned rests on a second invariant, of what the transport may conclude
from what it has read or will read (`Told`). `LoggingIn`, whatever the timing:
when the banner is drained, the node has the password before it, has let the
transport in, or has said that it did not. For a punctual node a read ends with
nothing in flight, so at each pause the node is where its last words say
(`Settled`), and while the reply is read everything in flight is of the command
and its text means an execution (`Replying`). `ElevatedRuns` adds that the
elevation is asked for once and answered before anything else is said
(`AskedOnce`), and that BPQ's Ok is said at the sysop prompt only, and not before
the elevation (`OkMeant`); that an Ok is found only where one is said is the
hypothesis (`Trusted`), or for a welcome text that has one follows from its having
been drained in time.

**`ChainProofs`**, for every `Hops` (`HopsAssumption`: at least one): `Typing`,
`ImplementsToolCall` (`KeepsToolCall`) as for `Session`, `OwnOutput`
(`OutputIsOwn`), `AtTarget` (`RunsAtTarget`), `TargetFamily` (`FamilyOfTarget`).
The steps are first sorted into what the transport says, what it reads, and what
a node answers (`StepKinds`), so that each invariant is checked against those
three. `AtTarget` is the one with an argument: the transport never sees where it
is, so the invariant (`Placed`) ties the real position to the station of the
walk. While a hop is being connected the `C` command is still in flight, or it
was obeyed and its banner is the only one on the way (`Walking`); hence the
transport goes on to the next hop only where the terminal has gone before it, and
no `C` or `BYE` is in flight before a line meant for the target. `TargetFamily`
follows the origin of every signature in flight: each is of the node the exchange
is with or, in a connect line, of the one before it (`Sourced`).

**`DiscoveryProofs`** and **`RemoteRunProofs`.** `RoutesAsPromised` (`KeepsPlan`)
says that the routes are those of `RoutePlan` for any nodes and tables, in
whatever order the answers come. The assumptions are those of the data: nodes are
finitely many and distinct (`SourcesAssumption`), a node answers with a finite
table of numbers (`TablesAssumption`), and the marks of the model are not
callsigns (`CallsignsAssumption`). The invariant `DInv` says what the answers so
far amount to: those to the alias are the tables' (`Asked`), what they were
resolved to is the meaning of the plan (`Understood`), and the candidate kept of
each node is one of the best of all it has offered (`BestOffered`). Three facts
carry the last step: `consider()` over several rounds gives a best of the union
(`Considered`); the two candidates a node offers have the key that the plan
assigns (`BestIsBestKey`); and a finite set under a strict order is listed by the
number of elements below each one without gap or repetition (`Listed`), which is
what makes the stable sort of the code and the definition of the plan the same
sequence (`RankedIsPlan`).

Of the tool itself: `Typing`, `ImplementsToolCall` (`KeepsToolCall`),
`SessionsOneByOne` (`OneSession`), `RoutesInOrder` (`BestFirst`), for any number
of attempts from 1 to 8 (`RemoteRunAssumption`, the tool's own limits) and any
behaviour of the connects. The invariant says what each phase of the tool
knows: a session is held only by the candidate being tried (`Held`), the command
is approved before anything is opened and has not been executed before the last
phase (`Ordered`), and the attempts made are those of the routes before this one,
all failed (`InTurn`).

**`NodeTableProofs`.** `Typing`, `Simple`, `NeverBreaks`, `ReachesTarget`,
`ServesGrounded` (`ServedMeansGrounded`), for any finite set of names and any
file over them (`FilesAssumption`: a file maps names to well-formed entries).
A hard one is `NeverBreaks`: a call's walk succeeds because the validation's walk
of the same node did. The invariant says that the path walked so far is a linked
list of distinct chained nodes (`Walked`), that every checked node has a witness,
a whole such list down to a direct base (`Validated`), and that the walk of a
later call is a prefix of the witness of its node (`Repeated`): from a node there
is one way on, so it can neither meet a cycle nor miss a transit node. `Connects`
relates the path handed out to the chain just walked. `ServesGrounded` compares
the walk with a definition that knows no walk, the node reached after as many
steps as there are names (`Grounded`). A witness is no longer than the number of
names, since its nodes are distinct, and from a direct node one stays where one
is (`RoutedGrounded`); a walk that comes back to a node it has passed goes round
for ever and through chained nodes only (`CycleUngrounded`), and one that leaves
the file does not come back (`StrayUngrounded`).

**`ReadLoopProofs`.** `Typing`, `InTime`, `NotEarly` for all `Idle`, `MaxWait`,
`Poll` and `Lag` that satisfy `TimesAssumption`. The invariant relates the
expiry of the read in progress to the limit (`Timely`), and an end before the
limit to what justified it (`Justified`). Of `TelnetRead`: `TelnetTyping`,
`StreamInTime` (the same bounds for the loops with their bytes), `TextOfStream`
(`TextIntact`) and `PromptIsFound` (`PromptFound`), for chunks of any length and
any non-empty prompt (`TelnetAssumption`). `_strip_iac` reads a chunk from the
front and jumps over commands, the decoder goes byte by byte: that they agree on
a chunk that ends outside a command (`Agree`) is an induction from the end of the
chunk, over what is left of it. The rest of the invariant is that buffer and
stream then end with the same beginning of the prompt (`Sound`).

**`SweepProofs`.** `Typed` (`TypeOK`), `PasswordsStay` (`OwnPassword`),
`NoneBlamed` (`Blameless`), `Whole` (`AnswerWhole`), for any finite set of nodes
(`SweepAssumption`), any keychain and any `KT` and `Limit` (`KeyringAssumption`).
`Blameless` is the one that needs an argument: that an iteration of the loop has
found no expiry for a session heard in time says nothing of the iterations still
to come. The invariant (`InTime`) bounds what can still happen: as long as no
closed stream has held the loop, such a session has more time left than the
running lookup may take (`wait`) and one lookup for every session of this iteration
that has not been run (`ReadySet`), since each of them starts at most one. A
session taken up makes room for its own lookup (`TakenUp`), and a session that
answers has Slack for all the others (`SlackSuffices`). What a session has read
and what holds the loop are kept in step with what its node has sent by `Sent`,
`Taken` and `Holder`.

**`GateProofs`.** `Typing`, `FamilyKept` (`ApprovedFamily`), `BlocksRun`
(`BlockRuns`), `ChainedReached` (`ChainedAsDocumented`), `NoneUnapproved`
(`ApprovedAsShown`) for any node tables of known types (`GateAssumption`), any
typed verbs and any arguments with any words in them, with the table of tools as
it is; of an argument that is a number it is assumed that it is none of the words
that delete and holds no control character (`ArgsAssumption`). The invariant
says what a block tells of the moment it was given: its arguments had passed the
builder, and, where the tool looks its node up before it gates, the node was of
a type the tool accepts (`Kept`); and that a confirmed call is the call of its
block (`SameCall`). Facts of the tool table carry the rest: the tools that
classify what is typed accept one family each (`ClassifiedFamily`), no tool
that accepts only (X)Net nodes gates first (`NotGateFirst`), every tool takes its
arguments in one of the five ways (`ArgKinds`), and what a tool without a gate always sends
is harmless in the dialect of every node the tool accepts. The
last one is an assumption, `HarmlessVerbs`: the classifier compares verbs letter
by letter, and strings have no letters for the provers. It has no parameter, only
the tables of `safety.py` and `server.py` in it, and TLC evaluates it in the
`gate` runs; a tool added without its gate would make it false.

**`NoCircle`** is proved of `Session`, `Chain`, `RemoteRun` and `Sweep`: every
step, of the code or of what surrounds it, makes a measure smaller, and the
measure is well-founded. The measure is read in order, as a dictionary is: first
the stations the coroutine has still before it (`ToGo`), then what its
surroundings have to use up, lines and chunks in flight, links that are up,
pieces not yet read, questions not yet asked, time left, threads that have not
answered. So none of
these has an infinite run, whatever nodes, links, canceller and keychain do, and a
call passes a bounded number of stations: twelve for a session, three for each hop
and eleven more for a chain, three for each node and eight more for `remote_run`
besides its questions. That such a component also reaches its end, and does not
stop before it, is left to the runs: they show that it cannot be stuck
(deadlock), and under the fairness of section 3 that it ends.

How induction is done. The induction theorems of the library take an operator as
a parameter, which the provers cannot instantiate, but a set can take its place:
that a set of numbers which is not empty has a least one follows from the
library's `NatLessThanWellFounded` and `WFMin` (`Least`), and induction up or down
an interval is a least counterexample (`Upward`, `Downward`). For the recursive
functions of the models the existence of the function itself is proved that way
first (`FollowExists` in `NodeTableProofs`, `Stripped` and `Decoded` in
`ReadLoopProofs`); `CHOOSE` then gives that function.

Only model-checked: the liveness properties `CallReturns`, `SessionEnds`,
`ToolReturns`, `LoopEnds` and `SweepAnswers`. They follow from fairness, which is
defined by `ENABLED`, and that is out of the prover's reach. A read loop has no
`NoCircle`, since chunks may arrive in any number at one moment; that it ends
rests on the clock alone. The five runs that show a disagreement refute, and
refutations need no proof.

## 6. Not modelled

Text layout and regular expressions: a pattern either matches a chunk or does
not, by meaning or by accident (`call.words`); matches that only the pieces of
two chunks make together are not. In `Chain` accidental matches are given to
welcome texts, connect lines and prompts, not to replies. What a builder of
`commands.py` composes is reduced to its words and to whether it rejects its
arguments, as is the positional challenge, whose answer is right or wrong.
`filter_monitor_text`, `list_nodes`, the structured parse attached to results,
argument parsing and logging keep no state and have no ordering. The parsers
are pure functions of a transcript. The HTTP front compares one header with a
set of tokens that is constant from the start, before any handler runs; what
could go wrong there is a comparison, and a unit test reaches it. In `Sweep`
what the replies say is left out, and of the pieces of a reply all but the
first and the rest. SSH and TCP are the operating system's and asyncssh's,
modelled as channels that open, carry lines in order, and die; that `BYE`
itself raises an error of asyncssh's, past the handlers of disconnect()
(xnet.py:146, chained.py:165), is left out: it is written to a channel just
checked not to be closing, and asyncssh reports a write to a broken one as
`BrokenPipeError`, which they catch; what remains is a connection lost while
`drain()` waits for room to send. The nodes' own software is external; its
automata are read off the patterns the code expects.

## 7. Plan

Written in this order, the most important first: `Session`, `Chain`,
`RoutePlan`/`Discovery`/`RemoteRun`, `NodeTable`, `ReadLoop`, `Tools`/`Gate`, then
`ToolCall` and its refinements, `TelnetRead`, `Keyring`/`Sweep`, each with the
theorems above.

What is left:

1. A progress theorem for the read loops, which would have to count the chunks
   that may still arrive at one moment; without a bound on them there is no
   measure, and with one it says less than `LoopEnds`.
2. The other half of `NoCircle` without `ENABLED`: for each component an invariant
   that names, in every state before the end, a step of the code whose guard
   holds. The deadlock check of the runs shows it of the instances.
3. `HarmlessVerbs` as a theorem instead of an assumption that TLC evaluates, if
   verbs are ever modelled as sequences of letters.
4. The facts about least elements and intervals are stated in each proof module
   that needs them; they could share one.
