----------------------------- MODULE MCCatalog -----------------------------
\* Instances of Catalog for TLC.
EXTENDS Catalog, TLC

CONSTANTS p1, p2, l1, x1, x2, x3
=============================================================================
