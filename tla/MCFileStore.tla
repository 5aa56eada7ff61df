---------------------------- MODULE MCFileStore ----------------------------
\* FileStore for TLC.
EXTENDS FileStore, TLC

Symmetry == Permutations(Threads) \cup Permutations(Files)
=============================================================================
