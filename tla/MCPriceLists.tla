---------------------------- MODULE MCPriceLists ----------------------------
EXTENDS PriceLists, TLC

Symmetry == Permutations(Workers)
=============================================================================
