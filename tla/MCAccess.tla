------------------------------- MODULE MCAccess -------------------------------
EXTENDS Access

MCSwap == 0 :> 0 @@ 1 :> 2 @@ 2 :> 1 @@ 3 :> 3
MCNamed == {[ip |-> 2, id |-> 1]}
=============================================================================
