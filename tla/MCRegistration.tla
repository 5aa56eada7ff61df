--------------------------- MODULE MCRegistration ---------------------------
\* Registration for TLC.
EXTENDS Registration, TLC

Symmetry == Permutations(Users) \cup Permutations(PDs)
=============================================================================
