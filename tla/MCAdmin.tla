------------------------------ MODULE MCAdmin ------------------------------
EXTENDS Admin, TLC
Children == Permutations(Cli)
=============================================================================
