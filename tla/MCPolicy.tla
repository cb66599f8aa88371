------------------------------ MODULE MCPolicy ------------------------------
\* Instances of Policy for TLC.
EXTENDS Policy, TLC

\* Folder ids and file ids are interchangeable.
Symmetry == Permutations(Folders) \union Permutations(Docs)
=============================================================================
