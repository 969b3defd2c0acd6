----------------------------- MODULE GateProofs -----------------------------
(* For every set of node tables, typed commands and arguments, over restarts *)
(* of the server: what a block was shown for is what the approved call does, *)
(* or nothing is done.                                                       *)
EXTENDS Gate, TLAPS

\* A tool of the table, or none.
Known(tool) == tool \in AllTools \/ tool = NoTool

\* The gate of this tool comes after the lookup of the node.
LooksFirst(tool) == tool.needs \subseteq Xnet \/ tool.gate = "classified"

\* A tool that takes no argument sends none.
Sends(tool, command) == tool.args = "none" => command.arg = NoArg

\* What a block tells of the moment it was given: the arguments had passed the
\* builder, and where the lookup came first the node was of an accepted type.
Kept(b) ==
  /\ Known(b.tool)
  /\ b.type \in Types \cup {"none"}
  /\ b # NoBlock =>
       /\ b.tool \in AllTools
       /\ b.node \in Nodes
       /\ ~Malformed(b)
       /\ LooksFirst(b.tool) => b.type \in b.tool.needs

\* A confirmed call is the one its block was given for.
SameCall(c) ==
  c.under # NoBlock =>
    c.tool = c.under.tool /\ c.node = c.under.node /\ c.command = c.under.command

\* A command runs on a node its tool accepts, with the approval its gate asks.
RanGated ==
  ran # Nothing =>
    /\ ran.tool \in AllTools
    /\ ran.type \in ran.tool.needs
    /\ Sends(ran.tool, ran.command)
    /\ ~Malformed(ran)
    /\ \/ ran.tool.gate = "always"
       \/ ran.tool.gate = "classified" /\ IsDangerous(ran.command, Dialect(ran.tool))
       => ran.under # NoBlock
    /\ SameCall(ran)

Inv ==
  /\ TypeOK
  /\ approved => block # NoBlock
  /\ Kept(block)
  /\ Kept(call.under)
  /\ SameCall(call)
  /\ ApprovedFamily

\* Every call, block and run is of a command its tool may send.
Meant ==
  /\ call # NoCall => Sends(call.tool, call.command)
  /\ block # NoBlock => Sends(block.tool, block.command)
  /\ RanGated

-----------------------------------------------------------------------------
(* Facts of the table of tools.                                              *)

\* Every tool accepts some types, and only known ones.
LEMMA ToolNeeds ==
  ASSUME NEW t \in AllTools
  PROVE  t.needs # {} /\ t.needs \subseteq Types
<1>1. CASE t \in TypedTools
  <2>1. t.needs = Generic \/ t.needs = Bpq \/ t.needs = Xnet
    <3>1. t \in {RunCommandTool, SysopTool, SysCommandTool}
      BY <1>1 DEF TypedTools
    <3>2. RunCommandTool.needs = Generic
      BY DEF RunCommandTool, Tool
    <3>3. SysopTool.needs = Bpq /\ SysCommandTool.needs = Xnet
      BY DEF SysopTool, SysCommandTool, Tool
    <3> QED
      BY <3>1, <3>2, <3>3
  <2> QED
    BY <2>1 DEF Types, Generic, Xnet, Bpq
<1> USE DEF Tool, Plain, WithArgs, Gated, WithNumber, Types, Xnet, Bpq, Generic
<1>2. CASE t \in GenericReads
  BY <1>2 DEF GenericReads
<1>3. CASE t \in RouterTools \cup IpTools \cup ParamTools
  BY <1>3 DEF RouterTools, IpTools, ParamTools
<1>4. CASE t \in DiagnosticTools \cup FileTools
  BY <1>4 DEF DiagnosticTools, FileTools
<1>5. CASE t \in PortAndIdentityTools \cup SystemTools
  BY <1>5 DEF PortAndIdentityTools, SystemTools
<1>6. CASE t \in BpqReads \cup FlexNetReads \cup BpqDiagnosticTools
  BY <1>6 DEF BpqReads, FlexNetReads, BpqDiagnosticTools
<1>7. CASE t \in BpqRoutingTools \cup BpqPortTools \cup BpqPersistenceTools
  BY <1>7 DEF BpqRoutingTools, BpqPortTools, BpqPersistenceTools
<1>8. CASE t \in BpqParamTools \cup BpqSystemTools
  BY <1>8 DEF BpqParamTools, BpqSystemTools
<1> QED
  BY <1>1, <1>2, <1>3, <1>4, <1>5, <1>6, <1>7, <1>8
     DEF AllTools, XnetStructured, BpqStructured

\* The tools that classify what is typed are for one family each.
LEMMA ClassifiedFamily ==
  ASSUME NEW t \in AllTools, t.gate = "classified"
  PROVE  t.needs = Xnet \/ t.needs = Bpq
<1> USE DEF Tool, Plain, WithArgs, Gated, WithNumber
<1>1. CASE t \in TypedTools
  <2>1. t \in {RunCommandTool, SysopTool, SysCommandTool}
    BY <1>1 DEF TypedTools
  <2>2. RunCommandTool.gate # "classified"
    BY DEF RunCommandTool
  <2>3. SysopTool.needs = Bpq /\ SysCommandTool.needs = Xnet
    BY DEF SysopTool, SysCommandTool
  <2> QED
    BY <2>1, <2>2, <2>3
<1>2. t \notin GenericReads
  BY DEF GenericReads
<1>3. t \notin RouterTools \cup IpTools \cup ParamTools
  BY DEF RouterTools, IpTools, ParamTools
<1>4. t \notin DiagnosticTools \cup FileTools
  BY DEF DiagnosticTools, FileTools
<1>5. t \notin PortAndIdentityTools \cup SystemTools
  BY DEF PortAndIdentityTools, SystemTools
<1>6. t \notin BpqReads \cup FlexNetReads \cup BpqDiagnosticTools
  BY DEF BpqReads, FlexNetReads, BpqDiagnosticTools
<1>7. t \notin BpqRoutingTools \cup BpqPortTools \cup BpqPersistenceTools
  BY DEF BpqRoutingTools, BpqPortTools, BpqPersistenceTools
<1>8. t \notin BpqParamTools \cup BpqSystemTools
  BY DEF BpqParamTools, BpqSystemTools
<1> QED
  BY <1>1, <1>2, <1>3, <1>4, <1>5, <1>6, <1>7, <1>8
     DEF AllTools, XnetStructured, BpqStructured

\* Every tool takes its arguments in one of five ways.
LEMMA ArgKinds ==
  ASSUME NEW t \in AllTools
  PROVE  t.args \in {"none", "number", "checked", "free", "typed"}
<1> USE DEF Tool, Plain, WithArgs, Gated, WithNumber
<1>1. CASE t \in TypedTools
  <2>1. SysopTool.args = "typed" /\ SysCommandTool.args = "typed"
    BY DEF SysopTool, SysCommandTool
  <2>2. RunCommandTool.args = "typed"
    BY DEF RunCommandTool
  <2> QED
    BY <1>1, <2>1, <2>2 DEF TypedTools
<1>2. CASE t \in GenericReads
  BY <1>2 DEF GenericReads
<1>3. CASE t \in RouterTools \cup IpTools \cup ParamTools
  BY <1>3 DEF RouterTools, IpTools, ParamTools
<1>4. CASE t \in DiagnosticTools \cup FileTools
  BY <1>4 DEF DiagnosticTools, FileTools
<1>5. CASE t \in PortAndIdentityTools \cup SystemTools
  BY <1>5 DEF PortAndIdentityTools, SystemTools
<1>6. CASE t \in BpqReads \cup FlexNetReads \cup BpqDiagnosticTools
  BY <1>6 DEF BpqReads, FlexNetReads, BpqDiagnosticTools
<1>7. CASE t \in BpqRoutingTools \cup BpqPortTools \cup BpqPersistenceTools
  BY <1>7 DEF BpqRoutingTools, BpqPortTools, BpqPersistenceTools
<1>8. CASE t \in BpqParamTools \cup BpqSystemTools
  BY <1>8 DEF BpqParamTools, BpqSystemTools
<1> QED
  BY <1>1, <1>2, <1>3, <1>4, <1>5, <1>6, <1>7, <1>8
     DEF AllTools, XnetStructured, BpqStructured

\* Every gate is one of three.
LEMMA Gates ==
  ASSUME NEW t \in AllTools
  PROVE  t.gate \in {"none", "always", "classified"}
<1> USE DEF Tool, Plain, WithArgs, Gated, WithNumber
<1>1. CASE t \in TypedTools
  <2>1. SysopTool.gate = "classified" /\ SysCommandTool.gate = "classified"
    BY DEF SysopTool, SysCommandTool
  <2>2. RunCommandTool.gate = "none"
    BY DEF RunCommandTool
  <2> QED
    BY <1>1, <2>1, <2>2 DEF TypedTools
<1>2. CASE t \in GenericReads
  BY <1>2 DEF GenericReads
<1>3. CASE t \in RouterTools \cup IpTools \cup ParamTools
  BY <1>3 DEF RouterTools, IpTools, ParamTools
<1>4. CASE t \in DiagnosticTools \cup FileTools
  BY <1>4 DEF DiagnosticTools, FileTools
<1>5. CASE t \in PortAndIdentityTools \cup SystemTools
  BY <1>5 DEF PortAndIdentityTools, SystemTools
<1>6. CASE t \in BpqReads \cup FlexNetReads \cup BpqDiagnosticTools
  BY <1>6 DEF BpqReads, FlexNetReads, BpqDiagnosticTools
<1>7. CASE t \in BpqRoutingTools \cup BpqPortTools \cup BpqPersistenceTools
  BY <1>7 DEF BpqRoutingTools, BpqPortTools, BpqPersistenceTools
<1>8. CASE t \in BpqParamTools \cup BpqSystemTools
  BY <1>8 DEF BpqParamTools, BpqSystemTools
<1> QED
  BY <1>1, <1>2, <1>3, <1>4, <1>5, <1>6, <1>7, <1>8
     DEF AllTools, XnetStructured, BpqStructured

\* The tools that accept a chained node.
LEMMA ChainedTools ==
  ASSUME NEW t \in AllTools, "xnet_chained" \in t.needs
  PROVE  t \in GenericReads \cup {RunCommandTool, SysCommandTool}
<1> USE DEF Tool, Plain, WithArgs, Gated, WithNumber, Bpq
<1>1. CASE t \in TypedTools
  <2>1. SysopTool.needs = Bpq
    BY DEF SysopTool
  <2>2. t # SysopTool
    BY <2>1
  <2> QED
    BY <1>1, <2>2 DEF TypedTools
<1>2. t \notin RouterTools \cup IpTools \cup ParamTools
  BY DEF RouterTools, IpTools, ParamTools
<1>3. t \notin DiagnosticTools \cup FileTools
  BY DEF DiagnosticTools, FileTools
<1>4. t \notin PortAndIdentityTools \cup SystemTools
  BY DEF PortAndIdentityTools, SystemTools
<1>5. t \notin BpqReads \cup FlexNetReads \cup BpqDiagnosticTools
  BY DEF BpqReads, FlexNetReads, BpqDiagnosticTools
<1>6. t \notin BpqRoutingTools \cup BpqPortTools \cup BpqPersistenceTools
  BY DEF BpqRoutingTools, BpqPortTools, BpqPersistenceTools
<1>7. t \notin BpqParamTools \cup BpqSystemTools
  BY DEF BpqParamTools, BpqSystemTools
<1> QED
  BY <1>1, <1>2, <1>3, <1>4, <1>5, <1>6, <1>7
     DEF AllTools, XnetStructured, BpqStructured

\* Where the lookup comes first, the gate never does.
LEMMA NotGateFirst ==
  ASSUME NEW t \in AllTools, LooksFirst(t)
  PROVE  ~GateFirst(t)
BY ToolNeeds DEF LooksFirst, GateFirst, Xnet, Bpq

\* A node whose type is one the tool accepts is served.
LEMMA ServedByType ==
  ASSUME NEW c, c.tool \in AllTools, TypeOf(c.node) \in c.tool.needs
  PROVE  Served(c)
BY ToolNeeds DEF TypeOf, Served, Types

LEMMA TypeOfType ==
  ASSUME table \in Tables, NEW n
  PROVE  TypeOf(n) \in Types \cup {"none"}
BY GateAssumption DEF TypeOf

-----------------------------------------------------------------------------
LEMMA InitInv == Init => Inv
<1> SUFFICES ASSUME Init PROVE Inv
  OBVIOUS
<1>1. Kept(NoBlock)
  BY DEF Kept, Known, NoBlock
<1>2. NoCall.under = NoBlock /\ Nothing.under = NoBlock
  BY DEF NoCall, Nothing
<1>3. TypeOK
  BY <1>2 DEF Init, TypeOK
<1> QED
  BY <1>1, <1>2, <1>3 DEF Init, Inv, SameCall, ApprovedFamily

\* A confirmed call whose node still has the type the block showed is served.
LEMMA ConfirmedServed ==
  ASSUME Inv, Confirmed(call), LooksFirst(call.tool),
         call.under.type = TypeOf(call.node)
  PROVE  ~Malformed(call) /\ Served(call)
<1>1. /\ call.tool = call.under.tool
      /\ call.command = call.under.command
  BY DEF Inv, SameCall, Confirmed
<1>2. /\ call.under.tool \in AllTools
      /\ ~Malformed(call.under)
      /\ call.under.type \in call.under.tool.needs
  BY <1>1 DEF Inv, Kept, Confirmed
<1>3. ~Malformed(call)
  BY <1>1, <1>2 DEF Malformed
<1> QED
  BY <1>1, <1>2, <1>3, ServedByType

LEMMA NextInv == Inv /\ [Next]_vars => Inv'
<1> SUFFICES ASSUME Inv, [Next]_vars PROVE Inv'
  OBVIOUS
<1>0. /\ Kept(NoBlock)
      /\ NoCall.under = NoBlock /\ Nothing.under = NoBlock
      /\ SameCall(NoCall)
  BY DEF Kept, Known, NoBlock, NoCall, Nothing, SameCall
<1>1. CASE Restart
  <2>1. TypeOK'
    BY <1>0, <1>1 DEF Inv, Restart, TypeOK
  <2>2. ApprovedFamily'
    BY <1>0, <1>1 DEF Restart, ApprovedFamily
  <2> QED
    BY <1>0, <1>1, <2>1, <2>2 DEF Inv, Restart, Kept, SameCall
<1>2. CASE Ask
  <2>1. PICK tool \in AllTools, node \in Nodes :
          \E command \in CommandsOf(tool) :
            call' = [tool |-> tool, node |-> node, command |-> command,
                     under |-> NoBlock]
    BY <1>2 DEF Ask
  <2>2. call'.tool = tool /\ call'.node = node /\ call'.under = NoBlock
    BY <2>1
  <2>3. TypeOK'
    BY <1>0, <1>2, <2>2 DEF Inv, Ask, TypeOK
  <2>4. ApprovedFamily'
    BY <1>0, <1>2 DEF Ask, ApprovedFamily
  <2> QED
    BY <1>0, <1>2, <2>2, <2>3, <2>4 DEF Inv, Ask, Kept, SameCall
<1>3. CASE Approve
  BY <1>3 DEF Inv, Approve, TypeOK, ApprovedFamily, Kept, SameCall
<1>4. CASE Confirm
  <2>1. block # NoBlock /\ block.tool \in AllTools /\ block.node \in Nodes
    BY <1>4 DEF Inv, Confirm, Kept
  <2>2. /\ call'.tool = block.tool /\ call'.node = block.node
        /\ call'.command = block.command /\ call'.under = block
    BY <1>4 DEF Confirm
  <2>3. TypeOK'
    BY <1>0, <1>4, <2>1, <2>2 DEF Inv, Confirm, TypeOK
  <2>4. ApprovedFamily'
    BY <1>0, <1>4 DEF Confirm, ApprovedFamily
  <2> QED
    BY <1>0, <1>4, <2>2, <2>3, <2>4 DEF Inv, Confirm, Kept, SameCall
<1>5. CASE Raise
  <2>1. TypeOK'
    BY <1>0, <1>5 DEF Inv, Raise, TypeOK
  <2> QED
    BY <1>0, <1>5, <2>1 DEF Inv, Raise, ApprovedFamily, Kept, SameCall
<1>6. CASE Refuse
  <2>1. /\ call.tool \in AllTools /\ call.node \in Nodes
        /\ table \in Tables
    BY <1>6 DEF Inv, Refuse, TypeOK
  <2>2. /\ block'.tool = call.tool /\ block'.node = call.node
        /\ block'.type = TypeOf(call.node) /\ block'.command = call.command
    BY <1>6 DEF Refuse, Shown
  <2>3. block'.type \in Types \cup {"none"}
    BY <2>1, <2>2, TypeOfType
  <2>4. LooksFirst(call.tool) => TypeOf(call.node) \in call.tool.needs
    BY <1>6, <2>1, NotGateFirst DEF Refuse, Served, TypeOf
  <2>5. Kept(block)'
    <3>1. ~Malformed(block)'
      BY <1>6, <2>2 DEF Refuse, Malformed
    <3> QED
      BY <1>6, <2>1, <2>2, <2>3, <2>4, <3>1 DEF Refuse, Kept, Known, LooksFirst
  <2>6. TypeOK'
    BY <1>0, <1>6, <2>1, <2>2, <2>3 DEF Inv, Refuse, TypeOK
  <2> QED
    BY <1>0, <1>6, <2>5, <2>6 DEF Inv, Refuse, ApprovedFamily, Kept, SameCall
<1>7. CASE Run
  <2>1. call.tool \in AllTools /\ TypeOf(call.node) \in call.tool.needs
    BY <1>7 DEF Inv, Run, TypeOK, Served, TypeOf
  <2>2. /\ ran'.tool = call.tool /\ ran'.type = TypeOf(call.node)
        /\ ran'.under = call.under
    BY <1>7 DEF Run
  <2>3. TypeOK'
    BY <1>0, <1>7, <2>1, <2>2 DEF Inv, Run, TypeOK
  <2>4. ApprovedFamily'
    <3> SUFFICES ASSUME call.tool.gate = "classified", call.under # NoBlock
                 PROVE  call.under.type \in Xnet <=> TypeOf(call.node) \in Xnet
      BY <2>2 DEF ApprovedFamily
    <3>1. call.under.type \in call.tool.needs
      BY DEF Inv, SameCall, Kept, LooksFirst
    <3> QED
      BY <2>1, <3>1, ClassifiedFamily DEF Xnet, Bpq
  <2> QED
    BY <1>0, <1>7, <2>3, <2>4 DEF Inv, Run, Kept, SameCall
<1>8. CASE UNCHANGED vars
  BY <1>8 DEF Inv, vars, TypeOK, ApprovedFamily, Kept, SameCall
<1> QED
  BY <1>1, <1>2, <1>3, <1>4, <1>5, <1>6, <1>7, <1>8 DEF Next

LEMMA MeantStep == Inv /\ Meant /\ [Next]_vars => Meant'
<1> SUFFICES ASSUME Inv, Meant, [Next]_vars PROVE Meant'
  OBVIOUS
<1> USE DEF Meant, RanGated
<1>1. CASE Restart
  BY <1>1 DEF Restart
<1>2. CASE Ask
  <2>1. PICK tool \in AllTools, node \in Nodes :
          \E command \in CommandsOf(tool) :
            call' = [tool |-> tool, node |-> node, command |-> command,
                     under |-> NoBlock]
    BY <1>2 DEF Ask
  <2>2. PICK command \in CommandsOf(tool) :
          call' = [tool |-> tool, node |-> node, command |-> command,
                   under |-> NoBlock]
    BY <2>1
  <2>3. Sends(tool, command)
    BY DEF Sends, CommandsOf
  <2> QED
    BY <1>2, <2>2, <2>3 DEF Ask
<1>3. CASE Approve \/ Raise
  BY <1>3 DEF Approve, Raise
<1>4. CASE Confirm
  BY <1>4 DEF Confirm, Inv
<1>5. CASE Refuse
  BY <1>5 DEF Refuse, Shown
<1>6. CASE Run
  <2>1. call.tool \in AllTools /\ TypeOf(call.node) \in call.tool.needs
    BY <1>6 DEF Inv, Run, TypeOK, Served, TypeOf
  <2>2. /\ ran'.tool = call.tool /\ ran'.type = TypeOf(call.node)
        /\ ran'.under = call.under /\ ran'.command = call.command
        /\ ran'.node = call.node
    BY <1>6 DEF Run
  <2>3. NeedsApproval(call) => call.under # NoBlock
    BY <1>6 DEF Run, Stopped, Confirmed
  <2>4. /\ \/ call.tool.gate = "always"
           \/ call.tool.gate = "classified" /\ IsDangerous(call.command, Dialect(call.tool))
           => call.under # NoBlock
        /\ SameCall(call) /\ Sends(call.tool, call.command)
    BY <1>6, <2>3 DEF NeedsApproval, Inv, Run
  <2>5. SameCall(ran)'
    BY <2>2, <2>4 DEF SameCall
  <2>6. UNCHANGED block /\ call' = NoCall
    BY <1>6 DEF Run
  <2>7. ~Malformed(ran)'
    BY <1>6, <2>2 DEF Run, Malformed
  <2> QED
    BY <2>1, <2>2, <2>4, <2>5, <2>6, <2>7
<1>7. CASE UNCHANGED vars
  BY <1>7 DEF vars
<1> QED
  BY <1>1, <1>2, <1>3, <1>4, <1>5, <1>6, <1>7 DEF Next

LEMMA Invariance == Spec => [](Inv /\ Meant)
<1>1. Init => Meant
  BY DEF Init, Meant, RanGated
<1> QED
  BY <1>1, InitInv, NextInv, MeantStep, PTL DEF Spec

-----------------------------------------------------------------------------
\* A command is only ever sent to a node of a type its tool accepts, for every
\* set of node tables, commands and arguments: server.py's _get_node.
THEOREM Typing == Spec => []TypeOK
BY Invariance, PTL DEF Inv

\* A typed command approved for a node of one family never runs on a node of
\* the other, however often nodes.yaml changes and the server restarts.
THEOREM FamilyKept == Spec => []ApprovedFamily
BY Invariance, PTL DEF Inv

\* docs/tools.md: only the generic reads and the two tools that take a typed
\* (X)Net command ever reach a chained node, whatever the tables and restarts.
THEOREM ChainedReached == Spec => []ChainedAsDocumented
<1>1. Inv /\ Meant => ChainedAsDocumented
  BY ChainedTools DEF Meant, RanGated, ChainedAsDocumented
<1> QED
  BY <1>1, Invariance, PTL

\* What a dangerous command is depends on the node it reaches, and the tool that
\* reaches it asks in the same dialect.
LEMMA SameDialect ==
  ASSUME NEW t \in AllTools, t.gate = "classified", NEW type \in t.needs
  PROVE  Dialect(t) = DialectOf(type)
<1>1. t.needs = Xnet \/ t.needs = Bpq
  BY ClassifiedFamily
<1>2. CASE t.needs = Bpq
  BY <1>2 DEF Dialect, DialectOf
<1>3. CASE t.needs = Xnet
  <2>1. Xnet # Bpq /\ type \notin Bpq
    BY <1>3 DEF Xnet, Bpq
  <2> QED
    BY <1>3, <2>1 DEF Dialect, DialectOf
<1> QED
  BY <1>1, <1>2, <1>3

\* safety.py's promise, for every set of node tables, typed commands and
\* arguments and over restarts: a command the dialect of its node calls
\* dangerous runs only under a block that showed this node and this command, the
\* arguments of ungated tools excepted, and only free text may be two lines.
THEOREM NoneUnapproved == Spec => []ApprovedAsShown
<1>1. Inv /\ Meant => ApprovedAsShown
  <2> SUFFICES ASSUME Inv, Meant, ran # Nothing, ~LeftToCaller(ran.tool)
               PROVE  /\ IsDangerous(Judged(ran), DialectOf(ran.type)) =>
                           /\ ran.under # NoBlock
                           /\ ran.under.node = ran.node
                           /\ ran.under.command = ran.command
                      /\ ran.command.arg.control =>
                           ran.tool.args \in {"free", "typed"}
    BY DEF ApprovedAsShown
  <2>1. /\ ran.tool \in AllTools /\ ran.type \in ran.tool.needs
        /\ Sends(ran.tool, ran.command) /\ ~Malformed(ran) /\ SameCall(ran)
    BY DEF Meant, RanGated
  <2>2. ASSUME ran.command.arg.control
        PROVE  ran.tool.args \in {"free", "typed"}
    <3>1. ran.tool.args # "none"
      BY <2>1, <2>2 DEF Sends, NoArg
    <3>2. ran.tool.args \notin {"checked", "number"}
      BY <2>1, <2>2, ArgsAssumption DEF Malformed
    <3> QED
      BY <2>1, <3>1, <3>2, ArgKinds
  <2>3. ASSUME IsDangerous(Judged(ran), DialectOf(ran.type))
        PROVE  ran.under # NoBlock
    <3>1. CASE ran.tool.gate = "always"
      BY <3>1 DEF Meant, RanGated
    <3>2. CASE ran.tool.gate = "classified"
      <4>1. IsDangerous(ran.command, Dialect(ran.tool))
        BY <2>1, <2>3, <3>2, SameDialect DEF Judged
      <4> QED
        BY <3>2, <4>1 DEF Meant, RanGated
    <3>3. CASE ran.tool.gate = "none"
      BY <2>1, <2>3, <3>3, HarmlessVerbs DEF Judged
    <3> QED
      BY <2>1, <3>1, <3>2, <3>3, Gates
  <2> QED
    BY <2>1, <2>2, <2>3 DEF SameCall
<1> QED
  BY <1>1, Invariance, PTL

\* The confirmed call of a block whose node has kept its type runs: the lookup
\* and the builders that the block went through accept it again.
THEOREM BlocksRun == Spec => BlockRuns
<1> DEFINE Worth == /\ Confirmed(call)
                    /\ \/ call.tool.needs \subseteq Xnet
                       \/ call.tool.gate = "classified"
                    /\ call.under.type = TypeOf(call.node)
                    /\ call' = NoCall /\ table' = table
<1>1. Inv /\ [Next]_vars => [Worth => outcome' = "ran"]_vars
  <2> SUFFICES ASSUME Inv, Next, Worth PROVE outcome' = "ran"
    OBVIOUS
  <2>1. ~Malformed(call) /\ Served(call)
    BY ConfirmedServed DEF LooksFirst
  <2>2. call # NoCall
    BY DEF Confirmed, NoCall
  <2>3. ~Restart
    BY DEF Restart
  <2>4. ~Ask /\ ~Approve /\ ~Confirm
    BY <2>2 DEF Ask, Approve, Confirm
  <2>5. ~Raise
    BY <2>1 DEF Raise
  <2>6. ~Refuse
    BY DEF Refuse, Stopped
  <2>7. CASE Run
    BY <2>7 DEF Run
  <2> QED
    BY <2>3, <2>4, <2>5, <2>6, <2>7 DEF Next
<1> QED
  BY <1>1, Invariance, PTL DEF Spec, BlockRuns
=============================================================================
