---------------------------- MODULE MCEdgeIngest ----------------------------
(* EdgeIngest: TLC's instances.                                            *)
EXTENDS EdgeIngest, TLC

ConsumerSymmetry == Permutations(Consumers)

\* Bound: with the Worker draining, or edge mode ended, one fault less, and
\* one less again after a purge.
FewerFaultsAroundDrain ==
    dMode = "drain" \/ (\E i \in DOMAIN log : log[i].kind = "end") =>
        faults < (IF dPurge = NoPoint THEN MaxFaults ELSE MaxFaults - 1)
=============================================================================
