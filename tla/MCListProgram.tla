---------------------------- MODULE MCListProgram ----------------------------
EXTENDS ListProgram, TLC

\* Threads run the same code, and the addresses of nodes are never compared.
Symmetry == Permutations(Threads) \cup Permutations(Nodes)
=============================================================================
