--------------------------- MODULE IngestionLeaseMC ----------------------------
\* Model-checking instances of IngestionLease; the replicas are interchangeable.
EXTENDS IngestionLease, TLC

Symmetry == Permutations(Replicas)
================================================================================
