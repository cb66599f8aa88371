------------------------------- MODULE MCTree -------------------------------
\* Instances of Tree for TLC.
EXTENDS Tree, TLC

\* Sessions, folder ids and file ids are interchangeable.
Symmetry == Permutations(Writers) \union Permutations(Folders) \union Permutations(Docs)
=============================================================================
