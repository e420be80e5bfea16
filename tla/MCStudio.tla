------------------------------ MODULE MCStudio ------------------------------
EXTENDS Studio, TLC

Symmetry == Permutations(Projects) \union Permutations(Chapters)
=============================================================================
