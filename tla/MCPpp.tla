-------------------------------- MODULE MCPpp --------------------------------
EXTENDS Ppp
=============================================================================
