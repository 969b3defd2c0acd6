---------------------------- MODULE MCRemoteRun ----------------------------
(* An instance of RemoteRun: three console nodes, the (X)Net one behind a    *)
(* jump host, the tables of MCDiscovery, two attempts.                       *)
EXTENDS RemoteRun, MCDiscovery

MCJumped == {"xnet"}
=============================================================================
