--------------------------- MODULE MCResponseCache ---------------------------
EXTENDS ResponseCache, TLC

Sym == Permutations(Keys)
=============================================================================
