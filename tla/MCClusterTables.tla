-------------------------- MODULE MCClusterTables --------------------------
(* Instances of ClusterTables for TLC: two session ids, one bundle id and    *)
(* one tunnel id, and a packet that a full queue leaves too small for all.   *)
EXTENDS ClusterTables

SmallTables == [k \in Kind |-> IF k = "sess" THEN 2 ELSE 1]
Structs     == [k \in Kind |-> CASE k = "sess" -> 3 [] k = "tunn" -> 2 [] k = "bund" -> 1]
Packed      == [k \in Kind |-> 1]
=============================================================================
