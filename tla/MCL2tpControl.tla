---------------------------- MODULE MCL2tpControl ----------------------------
EXTENDS L2tpControl

Narrow == [e \in End |-> 1]
Wide   == [e \in End |-> 2]
=============================================================================
