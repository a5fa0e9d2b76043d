------------------------------ MODULE MCSwitch ------------------------------
\* Instances of Switch for TLC.
EXTENDS Switch, TLC

CONSTANTS s1, s2, l1, A, B

SourceSymmetry == Permutations({A, B})

Live(r) == pc[r] \notin {"idle", "rescue", "always", "done", "killed"}

\* The state without what no later step and no property reads: the facts of a
\* run that is over, revisions nobody rolls back to, and the names of the strays.
SwitchView ==
  <<owner, believers, aged \cap {owner}, coord, Last(revs), deployed, spec, pod, restarts,
    pc, strays = {},
    [r \in Attempt |->
       [events |-> IF pc[r] \in {"done", "killed"} THEN Len(events[r]) ELSE events[r],
        facts |-> IF Live(r)
                    THEN <<target[r], base[r].active, revs[base[r].rev], base[r].flow,
                           polls[r], checks[r], r \in emitted, r \in touched,
                           r \in applied, r \in settled>>
                    ELSE <<>>]]>>
=============================================================================
