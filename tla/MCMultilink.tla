---------------------------- MODULE MCMultilink ----------------------------
EXTENDS Multilink
=============================================================================
