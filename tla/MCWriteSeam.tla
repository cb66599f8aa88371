--------------------------- MODULE MCWriteSeam ---------------------------
\* Instances of WriteSeam for TLC.
EXTENDS WriteSeam, TLC

\* Sessions, file ids and texts are interchangeable.
Symmetry == Permutations(Writers) \union Permutations(Files) \union Permutations(Texts)
=============================================================================
