------------------------------ MODULE MCLocalGc ------------------------------
\* TLC instances of LocalGc.
EXTENDS LocalGc, TLC

\* No definition tells part ids apart.
Symmetry == Permutations(Parts)
==============================================================================
