---------------------------- MODULE MCChunkIndex ----------------------------
\* Instances of ChunkIndex for TLC.
EXTENDS ChunkIndex, TLC

CONSTANTS t, u, blank, p, q

\* Two texts that share a chunk, and one without any.
MCCut == t :> {p, q} @@ u :> {q} @@ blank :> {}

Symmetry == Permutations(Writers) \union Permutations(Files)
=============================================================================
