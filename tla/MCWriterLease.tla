--------------------------- MODULE MCWriterLease ---------------------------
(* WriterLease on two pod generations: TLC's instance.                     *)
EXTENDS WriterLease, TLC

PodSymmetry == Permutations(Pods)
=============================================================================
