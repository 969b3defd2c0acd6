---------------------------- MODULE MCNodeTable ----------------------------
(* An instance of NodeTable: every file of up to three entries, four names.   *)
EXTENDS NodeTable

MCNames == {"a", "b", "c", "d"}
MCTypes == {"xnet", "xnet_chained"}

\* At most one entry is incomplete; `via` of a direct node means nothing.
MCFiles ==
  UNION {{f \in [S -> [type : MCTypes, via : MCNames, complete : BOOLEAN]] :
            /\ Cardinality({n \in S : ~f[n].complete}) <= 1
            /\ \A n \in S : f[n].type = "xnet" => f[n].via = "a"} :
         S \in {{"a"}, {"a", "b"}, {"a", "b", "c"}}}
=============================================================================
