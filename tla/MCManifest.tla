----------------------------- MODULE MCManifest -----------------------------
\* Instances of Manifest for TLC.
EXTENDS Manifest, TLC

\* Sessions, manifests, folder ids and file ids are interchangeable.
Symmetry ==
  Permutations(Writers) \union Permutations(Manifests) \union Permutations(Folders)
=============================================================================
