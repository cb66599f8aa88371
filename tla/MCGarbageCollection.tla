----------------------- MODULE MCGarbageCollection -----------------------
\* Instances of GarbageCollection for TLC.
EXTENDS GarbageCollection
=============================================================================
