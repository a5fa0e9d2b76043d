-------------------------- MODULE MCNetBoxRollback --------------------------
\* Instances of NetBoxRollback for TLC.
EXTENDS NetBoxRollback, TLC

CONSTANTS a, b, o1, o2, p, q

NetBoxSymmetry ==
  Permutations({a, b}) \cup Permutations({o1, o2}) \cup Permutations({p, q})
=============================================================================
