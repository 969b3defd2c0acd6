------------------------------- MODULE Tools -------------------------------
(* The tools of server.py that send a command to a node: the node types each *)
(* one accepts, the command it builds, whether it can reject its arguments,  *)
(* and its approval gate; with the classifier of safety.py.  Commands are    *)
(* written in upper case, as the classifier reads them.                      *)
EXTENDS Sequences, Integers

Types   == {"xnet", "xnet_chained", "bpq", "linbpq"}
Xnet    == {"xnet", "xnet_chained"}
Bpq     == {"bpq", "linbpq"}
Generic == Xnet \cup Bpq

(***************************************************************************)
(* safety.py: which commands need the operator's approval                  *)
(***************************************************************************)
DangerousCommands ==
  {"ATTACH", "DETACH", "RESET", "PRGEXIT", "RUN", "RM", "LOAD", "EDIT", "MY",
   "MYIP", "TIME", "PASSWD", "IPSTOP", "IPTRANS", "IFCONFIG", "SUBNET",
   "MCROUTE", "COMPH", "STOP", "EXECUTE", "RATTACH"}

BpqDangerousCommands ==
  {"REBOOT", "RECONFIG", "STOPPORT", "STOPCMS", "KISS", "TELRECONFIG",
   "WL2KSYSOP"}

DangerousArgTokens == {"DEL", "DELETE", "KILL", "FLUSH", "CLEAR", "REMOVE"}

MinPrefixLen == 3

Abbreviates(verb, command) ==
  /\ Len(verb) <= Len(command)
  /\ SubSeq(command, 1, Len(verb)) = verb

IsDangerous(command, dangerous) ==
  \/ command.verb \in dangerous
  \/ /\ Len(command.verb) >= MinPrefixLen
     /\ \E word \in dangerous : Abbreviates(command.verb, word)
  \/ command.later \cap DangerousArgTokens # {}

(***************************************************************************)
(* The tools.  later: the words a tool puts after its verb, whatever it is   *)
(* given.  args: "none" taken; "number", a number or one of a few words;     *)
(* "checked", any text without control characters (a callsign may be DEL,    *)
(* too); "free", any text; "typed", the whole command.  gate: "none",        *)
(* "always", or the commands "classified" as dangerous.                      *)
(***************************************************************************)
Tool(name, needs, verb, later, args, gate) ==
  [name |-> name, needs |-> needs, verb |-> verb, later |-> later,
   args |-> args, gate |-> gate]

Plain(name, needs, verb)   == Tool(name, needs, verb, {}, "none", "none")
WithArgs(name, needs, verb) == Tool(name, needs, verb, {}, "checked", "none")
Gated(name, needs, verb)   == Tool(name, needs, verb, {}, "checked", "always")
WithNumber(name, needs, verb) == Tool(name, needs, verb, {}, "number", "none")

\* Every typed command goes through one of three tools.
RunCommandTool == Tool("xnet_run_command",  Generic, "", {}, "typed", "none")
SysopTool      == Tool("bpq_sysop_command", Bpq, "", {}, "typed", "classified")
SysCommandTool == Tool("xnet_sys_command",  Xnet, "", {}, "typed", "classified")

TypedTools == {RunCommandTool, SysopTool, SysCommandTool}

GenericReads ==
  { Plain("xnet_links", Generic, "L"), Plain("xnet_l_star", Generic, "L"),
    Tool("xnet_destinations", Generic, "D", {}, "free", "none"),
    Plain("xnet_mh", Generic, "MH"),     Plain("xnet_users", Generic, "U"),
    Plain("xnet_info", Generic, "INFO") }

BpqReads ==
  { Plain("bpq_ports", Bpq, "PORTS"), Plain("bpq_routes", Bpq, "ROUTES"),
    Plain("bpq_nodes", Bpq, "NODES") }

FlexNetReads ==
  { Plain("bpq_flexnet_links", {"linbpq"}, "FL"),
    WithArgs("bpq_flexnet_destinations", {"linbpq"}, "D") }

RouterTools ==
  { WithNumber("xnet_router_list", {"xnet"}, "ROUTER"),
    Tool("xnet_router_add", {"xnet"}, "ROUTER", {"ADD"}, "checked", "none"),
    Tool("xnet_router_del", {"xnet"}, "ROUTER", {"DEL"}, "checked", "always"),
    Gated("xnet_disconnect", {"xnet"}, "DISC") }

IpTools ==
  { Plain("xnet_iproute_list", {"xnet"}, "IPROUTE"),
    Tool("xnet_iproute_add", {"xnet"}, "IPROUTE", {"ADD"}, "checked", "always"),
    Tool("xnet_iproute_del", {"xnet"}, "IPROUTE", {"DEL"}, "checked", "always"),
    Plain("xnet_arp_list", {"xnet"}, "ARP"),
    Tool("xnet_arp_add", {"xnet"}, "ARP", {"ADD"}, "checked", "none"),
    Tool("xnet_arp_del", {"xnet"}, "ARP", {"DEL"}, "checked", "always"),
    WithArgs("xnet_set_nameserver", {"xnet"}, "NAMESRV") }

\* xnet_service has a row for each action: only the stop is gated.
ParamTools ==
  { WithArgs("xnet_set_param", {"xnet"}, "PARAM"),
    WithArgs("xnet_port_param", {"xnet"}, "PORT"),
    WithArgs("xnet_service", {"xnet"}, "START"),
    Gated("xnet_service", {"xnet"}, "STOP") }

DiagnosticTools ==
  { WithNumber("xnet_monitor", {"xnet"}, "MONITOR"),
    WithArgs("xnet_ipdump", {"xnet"}, "IPDUMP"),
    Plain("xnet_netstat", {"xnet"}, "NETSTAT"),
    Plain("xnet_processes", {"xnet"}, "PS"),
    Plain("xnet_statistics", {"xnet"}, "STATI"),
    Plain("xnet_log", {"xnet"}, "LOG"), WithArgs("xnet_ping", {"xnet"}, "PING") }

\* Variant: the file tools also accept a chained node.
FileToolsOnChained ==
  { WithArgs("xnet_dir", Xnet, "DIR"), WithArgs("xnet_read_file", Xnet, "READ"),
    WithArgs("xnet_copy_file", Xnet, "CP"),
    WithArgs("xnet_rename_file", Xnet, "RENAME") }

FileTools ==
  { WithArgs("xnet_dir", {"xnet"}, "DIR"),
    WithArgs("xnet_read_file", {"xnet"}, "READ"),
    WithArgs("xnet_copy_file", {"xnet"}, "CP"),
    WithArgs("xnet_rename_file", {"xnet"}, "RENAME") }

PortAndIdentityTools ==
  { Gated("xnet_attach", {"xnet"}, "ATTACH"),
    Gated("xnet_detach", {"xnet"}, "DETACH"),
    Gated("xnet_set_identity", {"xnet"}, "MY"),
    Gated("xnet_set_ip", {"xnet"}, "MYIP") }

SystemTools ==
  { Gated("xnet_set_subnet", {"xnet"}, "SUBNET"),
    Gated("xnet_set_time", {"xnet"}, "TIME"),
    Gated("xnet_remove_file", {"xnet"}, "RM"),
    Tool("xnet_ipstop", {"xnet"}, "IPSTOP", {}, "none", "always"),
    Tool("xnet_reset", {"xnet"}, "RESET", {}, "none", "always") }

BpqDiagnosticTools ==
  { Plain("bpq_version", Bpq, "VERSION"), WithArgs("bpq_stats", Bpq, "STATS"),
    WithArgs("bpq_listen", Bpq, "LISTEN"),
    WithArgs("bpq_validcall", Bpq, "VALIDCALL"),
    WithArgs("bpq_iproute", Bpq, "IPROUTE"), Plain("bpq_arp", Bpq, "ARP"),
    Plain("bpq_nat", Bpq, "NAT"), WithArgs("bpq_ping", Bpq, "PING"),
    WithArgs("bpq_telstatus", Bpq, "TELSTATUS"),
    WithNumber("bpq_axresolver", Bpq, "AXRESOLVER"),
    WithNumber("bpq_axmheard", Bpq, "AXMHEARD") }

BpqRoutingTools ==
  { Tool("bpq_node_add", Bpq, "NODE", {"ADD"}, "checked", "none"),
    Tool("bpq_node_del", Bpq, "NODE", {"DEL"}, "checked", "always"),
    WithArgs("bpq_route_set", Bpq, "ROUTES") }

BpqPortTools ==
  { WithNumber("bpq_startport", Bpq, "STARTPORT"),
    Tool("bpq_stopport", Bpq, "STOPPORT", {}, "number", "always"),
    WithNumber("bpq_startcms", Bpq, "STARTCMS"),
    Tool("bpq_stopcms", Bpq, "STOPCMS", {}, "number", "always"),
    Gated("bpq_kiss", Bpq, "KISS"),
    Tool("bpq_telreconfig", Bpq, "TELRECONFIG", {}, "number", "always") }

BpqPersistenceTools ==
  { Plain("bpq_savemh", Bpq, "SAVEMH"), Plain("bpq_savenodes", Bpq, "SAVENODES"),
    Plain("bpq_sendnodes", Bpq, "SENDNODES"),
    Plain("bpq_getportctext", Bpq, "GETPORTCTEXT") }

\* One port parameter stands for those of the allowlist.
BpqParamTools ==
  { WithNumber("bpq_get_param", Bpq, "TXDELAY"),
    WithArgs("bpq_set_param", Bpq, "TXDELAY") }

\* bpq_wl2ksysop has a row for the record's view and one for its SET.
BpqSystemTools ==
  { Plain("bpq_findbuffs", Bpq, "FINDBUFFS"),
    Plain("bpq_wl2ksysop", Bpq, "WL2KSYSOP"),
    Tool("bpq_wl2ksysop", Bpq, "WL2KSYSOP", {"SET"}, "none", "always"),
    Tool("bpq_reconfig", Bpq, "RECONFIG", {}, "none", "always"),
    Tool("bpq_reboot", Bpq, "REBOOT", {}, "none", "always") }

BpqStructured ==
  BpqReads \cup FlexNetReads \cup BpqDiagnosticTools \cup BpqRoutingTools
    \cup BpqPortTools \cup BpqPersistenceTools \cup BpqParamTools
    \cup BpqSystemTools

XnetStructured ==
  GenericReads \cup RouterTools \cup IpTools \cup ParamTools
    \cup DiagnosticTools \cup FileTools \cup PortAndIdentityTools
    \cup SystemTools

AllTools == TypedTools \cup XnetStructured \cup BpqStructured
=============================================================================
