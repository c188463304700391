--------------------------- MODULE MCDictIteration ---------------------------
EXTENDS DictIteration, TLC

Symmetry == Permutations(Keys) \union Permutations(Cursors)
=============================================================================
