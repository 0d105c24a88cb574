-------------------------------- MODULE MCTbf --------------------------------
EXTENDS Tbf
=============================================================================
