----------------------------- MODULE MCPartLog -----------------------------
(* PartLog on two processes: TLC's instance.                               *)
EXTENDS PartLog, TLC

WriterSymmetry == Permutations(Writers)

\* Bound: with a process of a second epoch, one at a time, the log stays short;
\* in one epoch it goes on to MaxLog.
ShortSecondEpoch ==
    /\ Cardinality({w \in Writers : epoch[w] > 1}) <= 1
    /\ (\E w \in Writers : epoch[w] > 1) => Len(log) < MaxLog /\ built < MaxBuilt
=============================================================================
