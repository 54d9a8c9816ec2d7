-------------------------- MODULE MCServerBootstrap --------------------------
EXTENDS ServerBootstrap, TLC

Symmetry == Permutations(Slots) \union Permutations(Calls) \union Permutations(Values)
=============================================================================
