-------------------------------- MODULE MCBgp --------------------------------
EXTENDS Bgp
=============================================================================
