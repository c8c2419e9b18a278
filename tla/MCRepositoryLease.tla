--------------------------- MODULE MCRepositoryLease ---------------------------
EXTENDS RepositoryLease, TLC

\* Controllers of one kind are alike.
KindSymmetry == Permutations(Contained) \cup Permutations(Proc \ Contained)
=============================================================================
