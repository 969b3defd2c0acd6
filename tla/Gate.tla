-------------------------------- MODULE Gate --------------------------------
(* The approval gate across calls: a client asks a tool for a command, the   *)
(* server refuses with an approval block, the operator approves what the     *)
(* block shows, the client calls again with confirm=True.  The server keeps  *)
(* nothing between calls, and may be restarted with another nodes.yaml at    *)
(* any moment; the client keeps the block and the approval.                  *)
EXTENDS Tools

CONSTANTS
  Nodes,    \* the callsigns a client names
  Tables,   \* the node tables a start of the server may load: callsign to type
  Typed,    \* the verbs of the commands a client types
  Args,     \* the arguments a client gives: their tokens, which the node reads
            \* after the verb, and whether a control character is among them
  Numbers   \* those that are a number, or a word of a fixed choice

ASSUME GateAssumption ==
  \A t \in Tables : /\ DOMAIN t \subseteq Nodes
                    /\ \A n \in DOMAIN t : t[n] \in Types

ASSUME ArgsAssumption ==
  /\ Numbers \subseteq Args
  /\ \A a \in Numbers :
       ~a.control /\ a.tokens \cap DangerousArgTokens = {}

VARIABLES
  table,      \* _NODES of the running server
  call,       \* the call the server is handling
  block,      \* the last approval block the client was given, until used
  approved,   \* the operator approved it
  outcome,    \* how the last call ended
  ran         \* the command the last call sent to its node

vars == <<table, call, block, approved, outcome, ran>>

NoTool  == Tool("none", {}, "", {}, "none", "none")
NoArg   == [tokens |-> {}, control |-> FALSE]
Blank   == [verb |-> "", later |-> {}, arg |-> NoArg]
NoBlock == [tool |-> NoTool, node |-> "none", type |-> "none", command |-> Blank]
NoCall  == [tool |-> NoTool, node |-> "none", command |-> Blank,
            under |-> NoBlock]
Nothing == [tool |-> NoTool, node |-> "none", type |-> "none",
            command |-> Blank, under |-> NoBlock]

\* What a tool sends: its verb, or the one typed, its own words, the argument.
CommandsOf(tool) ==
  {[verb |-> v, later |-> tool.later \cup a.tokens, arg |-> a] :
     v \in IF tool.args = "typed" THEN Typed ELSE {tool.verb},
     a \in IF tool.args = "none" THEN {NoArg} ELSE Args}

Init ==
  /\ table \in Tables
  /\ call = NoCall
  /\ block = NoBlock
  /\ approved = FALSE
  /\ outcome = "none"
  /\ ran = Nothing

Restart ==
  /\ table' \in Tables \ {table}
  /\ call' = NoCall
  /\ outcome' = "none"
  /\ ran' = Nothing
  /\ UNCHANGED <<block, approved>>

(***************************************************************************)
(* The client and the operator                                             *)
(***************************************************************************)
Ask ==
  /\ call = NoCall
  /\ \E tool \in AllTools, node \in Nodes :
       \E command \in CommandsOf(tool) :
         call' = [tool |-> tool, node |-> node, command |-> command,
                  under |-> NoBlock]
  /\ outcome' = "none"
  /\ ran' = Nothing
  /\ UNCHANGED <<table, block, approved>>

Approve ==
  /\ block # NoBlock
  /\ ~approved
  /\ approved' = TRUE
  /\ UNCHANGED <<table, call, block, outcome, ran>>

\* The same call again, with confirm=True; an approval is for one call.
Confirm ==
  /\ call = NoCall
  /\ approved
  /\ call' = [tool |-> block.tool, node |-> block.node,
              command |-> block.command, under |-> block]
  /\ block' = NoBlock
  /\ approved' = FALSE
  /\ outcome' = "none"
  /\ ran' = Nothing
  /\ UNCHANGED table

(***************************************************************************)
(* The handler of a tool                                                   *)
(***************************************************************************)
\* A builder, validate_token or the declared type rejects the argument.
Malformed(c) ==
  \/ c.tool.args = "checked" /\ c.command.arg.control
  \/ c.tool.args = "number" /\ c.command.arg \notin Numbers

TypeOf(node) == IF node \in DOMAIN table THEN table[node] ELSE "none"

\* Variant: the type of the node is not looked at.
Configured(c) == c.node \in DOMAIN table

\* _get_node: the node is configured and of a type the tool accepts.
Served(c) == c.node \in DOMAIN table /\ table[c.node] \in c.tool.needs

\* Variant: every typed command is classified in the (X)Net dialect.
OneDialect(tool) == DangerousCommands

\* The dialect a typed command is classified in.
Dialect(tool) ==
  IF tool.needs = Bpq THEN BpqDangerousCommands ELSE DangerousCommands

NeedsApproval(c) ==
  \/ c.tool.gate = "always"
  \/ /\ c.tool.gate = "classified"
     /\ IsDangerous(c.command, Dialect(c.tool))

Confirmed(c) == c.under # NoBlock

Stopped(c) == NeedsApproval(c) /\ ~Confirmed(c)

\* Variant: every gate comes before the node is looked up.
AlwaysGateFirst(tool) == TRUE

\* The structured BPQ tools gate a command before they look the node up.
GateFirst(tool) == tool.gate = "always" /\ tool.needs \subseteq Bpq

\* The approval block: the node and the command, as they will be sent.
Shown(c) ==
  [tool |-> c.tool, node |-> c.node, type |-> TypeOf(c.node),
   command |-> c.command]

Raise ==
  /\ call # NoCall
  /\ \/ Malformed(call)
     \/ /\ ~Served(call)
        /\ ~(Stopped(call) /\ GateFirst(call.tool))
  /\ outcome' = "raised"
  /\ call' = NoCall
  /\ UNCHANGED <<table, block, approved, ran>>

Refuse ==
  /\ call # NoCall
  /\ ~Malformed(call)
  /\ Stopped(call)
  /\ Served(call) \/ GateFirst(call.tool)
  /\ block' = Shown(call)
  /\ outcome' = "refused"
  /\ call' = NoCall
  /\ approved' = FALSE
  /\ UNCHANGED <<table, ran>>

Run ==
  /\ call # NoCall
  /\ ~Malformed(call)
  /\ ~Stopped(call)
  /\ Served(call)
  /\ ran' = [tool |-> call.tool, node |-> call.node, type |-> TypeOf(call.node),
             command |-> call.command, under |-> call.under]
  /\ outcome' = "ran"
  /\ call' = NoCall
  /\ UNCHANGED <<table, block, approved>>

Next == Restart \/ Ask \/ Approve \/ Confirm \/ Raise \/ Refuse \/ Run

Spec == Init /\ [][Next]_vars

(***************************************************************************)
(* Properties                                                              *)
(***************************************************************************)
\* Types of the state; a command is only ever sent to a node of a type its
\* tool accepts, whatever table the server was last started with.
TypeOK ==
  /\ table \in Tables
  /\ call = NoCall \/ (call.tool \in AllTools /\ call.node \in Nodes)
  /\ \A b \in {block, call.under} :
       b = NoBlock \/ (b.tool \in AllTools /\ b.type \in Types \cup {"none"})
  /\ outcome \in {"none", "raised", "refused", "ran"}
  /\ ran = Nothing \/ ran.type \in ran.tool.needs

\* The tools whose commands the gate leaves to their caller: the one documented
\* for reads, and the view of the Winlink record, which has no SET.
LeftToCaller(tool) ==
  \/ tool = RunCommandTool
  \/ (tool.name = "bpq_wl2ksysop" /\ tool.gate = "none")

DialectOf(type) ==
  IF type \in Bpq THEN BpqDangerousCommands ELSE DangerousCommands

\* What a tool always sends.
Fixed(tool) == [verb |-> tool.verb, later |-> tool.later]

\* What an ungated tool always sends is harmless in the dialect of every node it
\* accepts: a fact of the two tables, letter by letter.
ASSUME HarmlessVerbs ==
  \A tool \in AllTools :
    tool.gate = "none" /\ ~LeftToCaller(tool) =>
      \A type \in tool.needs : ~IsDangerous(Fixed(tool), DialectOf(type))

\* The part of a command that its tool answers for.  An ungated tool does not
\* look at its argument's words (server.py:722-725, 1216): a DEL there runs.
Judged(c) == IF c.tool.gate = "none" THEN Fixed(c.tool) ELSE c.command

\* safety.py:3-13: whichever tool it comes through, what the dialect of the node
\* it reaches calls dangerous is run only after the operator approved a block
\* that showed this node and this command, arguments included; except for the
\* arguments of tools without a gate.  And commands.py:8-11, an argument is no
\* second command, unless its tool passes free text on.
ApprovedAsShown ==
  ran # Nothing /\ ~LeftToCaller(ran.tool) =>
    /\ IsDangerous(Judged(ran), DialectOf(ran.type)) =>
         /\ ran.under # NoBlock
         /\ ran.under.node = ran.node
         /\ ran.under.command = ran.command
    /\ ran.command.arg.control => ran.tool.args \in {"free", "typed"}

\* A typed command approved for a node of one family never runs on a node of the
\* other, though nodes.yaml may have changed between the block and the call.
ApprovedFamily ==
  ran.tool.gate = "classified" /\ ran.under # NoBlock
    => (ran.under.type \in Xnet <=> ran.type \in Xnet)

\* docs/tools.md:36-48: the tools that reach a chained node are the generic reads
\* and the two that take a typed command.
ChainedAsDocumented ==
  ran # Nothing /\ ran.type = "xnet_chained"
    => ran.tool \in GenericReads \cup {RunCommandTool, SysCommandTool}

\* A block an (X)Net tool or a typed command was refused with is worth approving:
\* if the node has kept its type, the confirmed call runs.
BlockRuns ==
  [][ /\ Confirmed(call)
      /\ (call.tool.needs \subseteq Xnet \/ call.tool.gate = "classified")
      /\ call.under.type = TypeOf(call.node)
      /\ call' = NoCall /\ table' = table
      => outcome' = "ran" ]_vars

\* safety.py:19-22: a typed verb that begins a dangerous command, or begins with
\* one, is refused until it is approved; the one-letter reads are excepted
\* (safety.py:71-73).
AbbreviationsRefused ==
  /\ ran # Nothing
  /\ ran.tool.gate = "classified"
  /\ Len(ran.command.verb) >= 2
  /\ \E word \in Dialect(ran.tool) :
        Abbreviates(ran.command.verb, word) \/ Abbreviates(word, ran.command.verb)
  => ran.under # NoBlock
=============================================================================
