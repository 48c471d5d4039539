--------------------------- MODULE MCLeaderElection ---------------------------
\* LeaderElection on two instances: TLC's instance. Its run checks liveness
\* too, so no symmetry is used.
EXTENDS LeaderElection
=============================================================================
