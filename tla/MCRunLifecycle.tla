--------------------------- MODULE MCRunLifecycle ---------------------------
\* Instances of RunLifecycle for TLC.
EXTENDS RunLifecycle, TLC

CONSTANTS l1, l2, t1, b1, s1, i1, i2

IdSymmetry == Permutations({i1, i2})

RunSymmetry == Permutations({i1, i2}) \cup Permutations({l1, l2})
=============================================================================
