--------------------------- MODULE MCHelmRollback ---------------------------
\* Instances of HelmRollback for TLC.
EXTENDS HelmRollback

CONSTANTS v, n, c1, c2, A, B

SelectionSymmetry == Permutations({A, B})
ContentSymmetry == Permutations({c1, c2})
HelmSymmetry == SelectionSymmetry \cup ContentSymmetry
=============================================================================
