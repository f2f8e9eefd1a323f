---------------------------- MODULE MCFederation ----------------------------
EXTENDS Federation, TLC
NodeSymmetry == Permutations(Nodes)
=============================================================================
