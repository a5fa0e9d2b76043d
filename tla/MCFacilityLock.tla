--------------------------- MODULE MCFacilityLock ---------------------------
\* Instances of FacilityLock for TLC.
EXTENDS FacilityLock, TLC

CONSTANTS a1, a2, a3

\* The attempts that checkpoint are interchangeable; a3 is a switch.
LaunchSymmetry == Permutations({a1, a2})

\* The state without what no later step and no property reads: the iteration
\* counter once the loop is left, a read once the call it was for is over.
LiveView ==
  <<clock, lock, nextUid, pc, phase, now, acquired, hurt,
    [a \in Attempt |-> IF pc[a] \in {"create", "held-read"} THEN tries[a] ELSE 0],
    [a \in Attempt |-> IF pc[a] \in {"reclaim-delete", "refresh", "release-delete"}
                         THEN seen[a] ELSE NoLock],
    [a \in Attempt |-> IF pc[a] = "refresh" THEN stamp[a] ELSE 0]>>
=============================================================================
