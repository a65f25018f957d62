--------------------------- MODULE MCAccessTokens ---------------------------
EXTENDS AccessTokens, TLC

Symmetry == Permutations(Handler) \cup Permutations(Token)
=============================================================================
