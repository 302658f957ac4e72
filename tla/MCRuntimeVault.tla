--------------------------- MODULE MCRuntimeVault ---------------------------
\* Instances of RuntimeVault for TLC: attempts and inodes are interchangeable.
EXTENDS RuntimeVault, TLC

Symmetry == Permutations(Att) \cup Permutations(Inodes)
=============================================================================
