---------------------------- MODULE MCCardImages ----------------------------
EXTENDS CardImages, TLC

CONSTANT k1

InOneCollection == [c \in Item |-> k1]

\* Items and deletions are each interchangeable.
ImageSymmetry == Permutations(Deleter) \cup Permutations(Item)
=============================================================================
