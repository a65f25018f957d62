---------------------------- MODULE MCCollections ----------------------------
EXTENDS Collections, TLC

Symmetry == Permutations(Users) \cup Permutations(Links) \cup Permutations(Handlers)
=============================================================================
