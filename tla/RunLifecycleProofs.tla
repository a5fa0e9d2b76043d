------------------------ MODULE RunLifecycleProofs -------------------------
(***************************************************************************)
(* Theorems of RunLifecycle, for every set of runs and run ids and every   *)
(* combination of faults.                                                  *)
(***************************************************************************)
EXTENDS RunLifecycle, FacilityLeaseProofs, TLAPS

USE RunAssumption, NoOneAssumption

-----------------------------------------------------------------------------
(***************************************************************************)
(* The inductive invariant: what each run is, has and has said where it is *)
(* (Local), what the snapshots are worth (SnapshotsOK), and what the one   *)
(* of the run that owns the facility covers (CoverOK).                     *)
(***************************************************************************)

\* The snapshot of an id is eligible or of a complete run, or a sweep made it moot.
Recoverable(i) ==
  status[i] \in Eligible \cup {"run_complete"} \/ sweptBy[i] # {}

\* Which kind of run gets where.
KindOK(r) ==
  /\ pc[r] \in {"snapshot", "capacity", "run-complete", "refuse-check", "refuse-patch",
                "rescue-patch"} => r \in Launch
  /\ pc[r] \in {"sweep-guard", "list", "sweep", "rescue-check"} => r \in Launch \cup Teardown
  /\ pc[r] \in {"read", "terminal-patch", "terminal-release"} => r \in Rollback
  /\ pc[r] = "complete" => r \in Launch \cup Rollback
  /\ pc[r] = "refuse-release" => r \in Launch \cup Rollback

\* Where a launch has a snapshot of its own, where a run has marked its mutation
\* started, where it has no snapshot yet, where it has swept nothing.
Prepared == {"capacity", "sweep-guard", "list", "sweep", "guard", "stage", "complete",
             "run-complete", "refuse-check", "refuse-patch", "rescue-patch"}
Mutating == {"guard", "stage", "complete", "run-complete", "finish"}
Early == {"idle", "lock", "verify"}
Planning == Early \cup {"snapshot", "capacity", "read"} \cup Refusing

FlagsOK(r) ==
  /\ pc[r] \in Early \cup {"snapshot"} => r \notin created
  /\ r \in Launch /\ pc[r] \in Prepared => r \in created
  /\ r \in Launch \cup Teardown /\ pc[r] \in Mutating => r \in started
  /\ r \in Launch \cap touched => r \in created /\ r \in started
  /\ pc[r] \in Planning \cup {"sweep-guard", "list", "sweep"} => r \notin touched
  /\ pc[r] \in Planning => \A i \in Id : r \notin sweptBy[i]
  /\ pc[r] \in Refusing => r \in marked

\* Where a run has said nothing yet.
Quiet == Early \cup Body \cup {"finish", "refuse-check", "refuse-patch", "rescue-check",
                               "rescue-patch"}

MarkersOK(r) ==
  /\ pc[r] \in Quiet => markers[r] = <<>>
  /\ r \in Launch \cup Teardown => Len(markers[r]) <= 1
  /\ Said(r, "refused") => \A i \in Id : r \notin sweptBy[i]

Local(r) == KindOK(r) /\ FlagsOK(r) /\ MarkersOK(r)

\* Where a run is not about to give its snapshot up.
Safe == Quiet \ {"refuse-patch", "rescue-check", "rescue-patch"}

\* One snapshot per id, by one run, with a history that begins with it.
SnapshotsOK ==
  /\ \A i \in Id : status[i] = "none" => since[i] = {}
  /\ \A r \in created : status[runId[r]] # "none"
  /\ \A r, m \in created : runId[r] = runId[m] => r = m
  /\ \A r \in created : pc[r] \in Safe \/ r \in touched => Recoverable(runId[r])

\* While a run owns the facility, its snapshot covers what was done, the other
\* snapshots that its sweep is through with cannot be restored, and the one it
\* restores was worth it.
CoverOK ==
  /\ \A r \in created : owner = r => Strangers(runId[r]) = {}
  /\ \A r \in Launch \cup Teardown : owner = r =>
       /\ pc[r] \in {"guard", "stage"} =>
            \A i \in Id \ (late \cup {runId[r]}) : status[i] \notin Eligible
       /\ pc[r] = "sweep" =>
            \A i \in Id \ (late \cup {runId[r]} \cup todo[r]) : status[i] \notin Eligible
  /\ \A r \in Rollback : owner = r /\ pc[r] \in {"guard", "stage", "complete", "terminal-patch"} =>
       runId[r] \in late \/ Strangers(runId[r]) \cap (Launch \cup Teardown) = {}

\* The types and the flow of every run are an invariant on their own.
FlowInv == RunTypeOK /\ \A r \in Attempt : Local(r)

CoverInv == FlowInv /\ SnapshotsOK /\ CoverOK /\ BaselinesCoverMutations

-----------------------------------------------------------------------------
(***************************************************************************)
(* Type correctness.                                                       *)
(***************************************************************************)

\* A step of one run.
Act(r) ==
  \/ Start(r) \/ Acquire(r) \/ Verify(r)
  \/ Snapshot(r) \/ Capacity(r) \/ SweepGuard(r) \/ List(r) \/ Sweep(r)
  \/ Read(r) \/ Guard(r) \/ Stage(r) \/ Complete(r) \/ RunComplete(r) \/ Finish(r)
  \/ TerminalPatch(r) \/ TerminalRelease(r)
  \/ RefuseCheck(r) \/ RefusePatch(r) \/ RefuseRelease(r)
  \/ RescueCheck(r) \/ RescuePatch(r) \/ RescueRelease(r) \/ Always(r)
  \/ CallFails(r) \/ Kill(r)

\* It concerns the run itself only, but for the lease and the ledger.
Frame(r) ==
  /\ runId' = runId
  /\ \A m \in Attempt \ {r} :
       /\ pc'[m] = pc[m] /\ markers'[m] = markers[m] /\ todo'[m] = todo[m]
       /\ (m \in believers' <=> m \in believers)
       /\ (m \in created' <=> m \in created) /\ (m \in started' <=> m \in started)
       /\ (m \in marked' <=> m \in marked) /\ (m \in touched' <=> m \in touched)
       /\ \A i \in Id : m \in sweptBy'[i] <=> m \in sweptBy[i]

\* Moving to a label, emitting a marker, failing: only the run itself is concerned.
Moves(r) ==
  /\ pc' \in [Attempt -> RunLabel]
  /\ markers' \in [Attempt -> Seq(Token)]
  /\ believers' \subseteq Attempt
  /\ \A m \in Attempt \ {r} : pc'[m] = pc[m] /\ markers'[m] = markers[m]
                              /\ (m \in believers' <=> m \in believers)

\* Going to a label.
LEMMA GotoMoves ==
  ASSUME RunTypeOK, NEW r \in Attempt, NEW l \in RunLabel, Goto(r, l)
  PROVE  /\ pc' \in [Attempt -> RunLabel] /\ pc'[r] = l
         /\ believers' \subseteq Attempt
         /\ \A m \in Attempt \ {r} : pc'[m] = pc[m] /\ (m \in believers' <=> m \in believers)
  BY DEF RunTypeOK, LeaseTypeOK, Goto

\* Emitting a marker.
LEMMA EmitMoves ==
  ASSUME RunTypeOK, NEW r \in Attempt, NEW t \in Token, Emit(r, t)
  PROVE  /\ markers' \in [Attempt -> Seq(Token)]
         /\ markers'[r] = Append(markers[r], t)
         /\ Len(markers'[r]) = Len(markers[r]) + 1
         /\ \A m \in Attempt \ {r} : markers'[m] = markers[m]
  BY DEF RunTypeOK, Emit

\* Both.
LEMMA EmitGotoMoves ==
  ASSUME RunTypeOK, NEW r \in Attempt, NEW t \in Token, NEW l \in RunLabel, Emit(r, t), Goto(r, l)
  PROVE  Moves(r)
  BY GotoMoves, EmitMoves DEF Moves

\* Failing.
LEMMA RaiseMoves ==
  ASSUME RunTypeOK, NEW r \in Attempt, Raise(r)
  PROVE  Moves(r)
<1> USE DEF RunLabel, Token, Rescue, Body, Refusing, Moves
<1>1. CASE pc[r] \in {"lock", "verify"}
  BY <1>1, GotoMoves, EmitMoves DEF Raise, RunTypeOK, AfterMarked
<1>2. CASE pc[r] \in Body \cup Refusing \cup {"finish", "terminal-release"}
  BY <1>2, GotoMoves, EmitMoves DEF Raise, RunTypeOK, AfterMarked
<1>3. CASE pc[r] \in Rescue \cup {"always"}
  BY <1>3, GotoMoves DEF Raise, RunTypeOK
<1>4. QED
  BY <1>1, <1>2, <1>3 DEF Raise

\* One step keeps every type.
LEMMA ActType == ASSUME RunTypeOK, NEW r \in Attempt, KindOK(r), Act(r) PROVE RunTypeOK' /\ Frame(r)
<1> USE DEF RunLabel, Token, Rescue, Body, Refusing, Eligible, Stale, Frame, KindOK
<1>1. ASSUME NEW l \in RunLabel, ThenGoto(r, l) PROVE Moves(r)
  BY <1>1, GotoMoves, RaiseMoves DEF ThenGoto, AnswerLost, RunTypeOK, Moves
<1>2. ASSUME NEW l \in RunLabel, Checkpoint(r, l) PROVE RunTypeOK' /\ Frame(r)
  <2>1. Moves(r)
    <3>1. CASE Raise(r)
      BY <3>1, RaiseMoves
    <3>2. CASE owner = r /\ Goto(r, l) /\ UNCHANGED <<markers, marked>>
      BY <3>2, GotoMoves DEF RunTypeOK, Moves
    <3>3. CASE Emit(r, "lock-lost") /\ Goto(r, AfterMarked(r))
      BY <3>3, EmitGotoMoves DEF AfterMarked
    <3>4. QED
      BY <1>2, <3>1, <3>2, <3>3 DEF Checkpoint
  <2>2. marked' \subseteq Attempt /\ \A m \in Attempt \ {r} : m \in marked' <=> m \in marked
    BY <1>2 DEF Checkpoint, RunTypeOK
  <2>3. QED
    BY <1>2, <2>1, <2>2 DEF Checkpoint, RunTypeOK, LeaseTypeOK, ledger, leaseRunVars, Moves
<1>3. ASSUME NEW l \in RunLabel, ReleaseLock(r, l), UNCHANGED marked PROVE RunTypeOK' /\ Frame(r)
  <2>1. Moves(r)
    <3>1. CASE ThenGoto(r, l)
      BY <3>1, <1>1
    <3>2. CASE Goto(r, l) /\ UNCHANGED markers
      BY <3>2, GotoMoves DEF RunTypeOK, Moves
    <3>3. CASE Raise(r)
      BY <3>3, RaiseMoves
    <3>4. QED
      BY <1>3, <3>1, <3>2, <3>3 DEF ReleaseLock
  <2>2. owner' \in Attempt \cup {NoOne} /\ aged' = aged
    BY <1>3 DEF ReleaseLock, Release, RunTypeOK, LeaseTypeOK, leaseRunVars
  <2>3. QED
    BY <1>3, <2>1, <2>2 DEF ReleaseLock, RunTypeOK, LeaseTypeOK, ledger, Moves
<1>4. ASSUME Refuse(r) PROVE RunTypeOK' /\ Frame(r)
  BY <1>4, GotoMoves, EmitMoves DEF Refuse, RunTypeOK, LeaseTypeOK, ledger, leaseRunVars
<1>5. ASSUME NEW s \in Eligible \cup Stale, Patch(r, s)
      PROVE status' \in [Id -> Eligible \cup Stale \cup {"none"}] /\ late' \subseteq Id
            /\ since' = since /\ sweptBy' = sweptBy
  BY <1>5 DEF Patch, RunTypeOK
<1>6. ASSUME NEW s \in Eligible \cup Stale, Patch(r, s), NEW t \in Token, NEW l \in RunLabel,
             (Emit(r, t) /\ Goto(r, l)) \/ AnswerLost(r),
             UNCHANGED <<leaseRunVars, runId, flags, todo, touched>>
      PROVE RunTypeOK' /\ Frame(r)
  <2>1. Moves(r)
    <3>1. CASE Emit(r, t) /\ Goto(r, l)
      BY <3>1, EmitGotoMoves
    <3>2. CASE AnswerLost(r)
      BY <3>2, RaiseMoves DEF AnswerLost
    <3>3. QED
      BY <1>6, <3>1, <3>2
  <2>2. QED
    BY <1>6, <1>5, <2>1 DEF RunTypeOK, LeaseTypeOK, flags, leaseRunVars, Moves
<1> USE DEF ledger, leaseRunVars, flags, Moves
<1>10. CASE Start(r) BY <1>10, GotoMoves, EmitMoves DEF Start, RunTypeOK, LeaseTypeOK
<1>11. CASE Acquire(r)
  <2>1. Moves(r)
    <3>1. CASE Grant(r) /\ Goto(r, "verify") /\ UNCHANGED markers
      BY <3>1, GotoMoves DEF RunTypeOK
    <3>2. CASE Evict /\ UNCHANGED <<pc, markers>>
      BY <3>2 DEF Evict, RunTypeOK, LeaseTypeOK
    <3>3. CASE Goto(r, "done") /\ IF r \in Switch THEN UNCHANGED markers ELSE Emit(r, "refused")
      BY <3>3, GotoMoves, EmitMoves DEF RunTypeOK
    <3>4. QED
      BY <1>11, <3>1, <3>2, <3>3 DEF Acquire
  <2>2. owner' \in Attempt \cup {NoOne} /\ aged' = aged
    BY <1>11 DEF Acquire, Grant, Evict, RunTypeOK, LeaseTypeOK
  <2>3. QED
    BY <1>11, <2>1, <2>2 DEF Acquire, RunTypeOK, LeaseTypeOK
<1>12. CASE Verify(r)
  <2>1. CASE Confirm(r) /\ UNCHANGED markers
    BY <1>12, <2>1 DEF Verify, Confirm, RunTypeOK, LeaseTypeOK
  <2>2. CASE owner # r /\ Goto(r, "done") /\ UNCHANGED <<leaseRunVars, started>>
               /\ IF r \in Switch THEN UNCHANGED markers ELSE Emit(r, "refused")
    <3>1. Moves(r)
      BY <2>2, GotoMoves, EmitMoves DEF RunTypeOK
    <3>2. QED
      BY <1>12, <2>2, <3>1 DEF Verify, RunTypeOK, LeaseTypeOK
  <2>3. QED
    BY <1>12, <2>1, <2>2 DEF Verify
<1>13. CASE Snapshot(r)
  <2>1. CASE Refuse(r)
    BY <2>1, <1>4
  <2>2. CASE ~Refuse(r)
    <3>1. created' \subseteq Launch /\ \A m \in Attempt \ {r} : m \in created' <=> m \in created
      BY <1>13, <2>2 DEF Snapshot, RunTypeOK
    <3>2. Moves(r)
      BY <1>13, <2>2, GotoMoves, RaiseMoves DEF Snapshot, AnswerLost, RunTypeOK
    <3>3. QED
      BY <1>13, <2>2, <3>1, <3>2, <1>5 DEF Snapshot, RunTypeOK, LeaseTypeOK
  <2>3. QED
    BY <2>1, <2>2
<1>14. CASE Capacity(r) BY <1>14, <1>4, GotoMoves DEF Capacity, RunTypeOK, LeaseTypeOK
<1>15. CASE SweepGuard(r) BY <1>15, <1>2 DEF SweepGuard
<1>16. CASE List(r) BY <1>16, GotoMoves DEF List, AfterSweep, Candidates, RunTypeOK, LeaseTypeOK
<1>17. CASE Sweep(r)
  BY <1>17, GotoMoves, RaiseMoves DEF Sweep, AfterSweep, AnswerLost, RunTypeOK, LeaseTypeOK
<1>18. CASE Read(r) BY <1>18, <1>4, GotoMoves DEF Read, RunTypeOK, LeaseTypeOK
<1>19. CASE Guard(r) BY <1>19, <1>2 DEF Guard
<1>20. CASE Stage(r)
  <2>1. Moves(r)
    BY <1>20, GotoMoves, RaiseMoves DEF Stage, RunTypeOK
  <2>2. /\ since' \in [Id -> SUBSET Attempt] /\ touched' \subseteq Attempt
        /\ \A m \in Attempt \ {r} : m \in touched' <=> m \in touched
    <3>1. CASE Mutate(r)
      BY <3>1 DEF Mutate, RunTypeOK
    <3>2. CASE UNCHANGED <<since, touched>>
      BY <3>2 DEF RunTypeOK
    <3>3. QED
      BY <1>20, <3>1, <3>2 DEF Stage
  <2>3. QED
    BY <1>20, <2>1, <2>2 DEF Stage, RunTypeOK, LeaseTypeOK
<1>21. CASE Complete(r) BY <1>21, <1>2 DEF Complete
<1>22. CASE RunComplete(r) BY <1>22, <1>1, <1>5 DEF RunComplete, RunTypeOK, LeaseTypeOK
<1>23. CASE Finish(r) BY <1>23, <1>3 DEF Finish
<1>24. CASE TerminalPatch(r) BY <1>24, <1>6 DEF TerminalPatch
<1>25. CASE TerminalRelease(r) BY <1>25, <1>3 DEF TerminalRelease
<1>26. CASE RefuseCheck(r) BY <1>26, GotoMoves, EmitMoves DEF RefuseCheck, RunTypeOK, LeaseTypeOK
<1>27. CASE RefusePatch(r) BY <1>27, <1>6 DEF RefusePatch
<1>28. CASE RefuseRelease(r) BY <1>28, <1>3 DEF RefuseRelease, AfterMarked
<1>29. CASE RescueCheck(r)
  BY <1>29, GotoMoves, EmitMoves DEF RescueCheck, Outcome, RunTypeOK, LeaseTypeOK
<1>30. CASE RescuePatch(r) BY <1>30, <1>6 DEF RescuePatch, Outcome
<1>31. CASE RescueRelease(r) BY <1>31, <1>3 DEF RescueRelease
<1>32. CASE Always(r) BY <1>32, <1>3 DEF Always
<1>33. CASE CallFails(r) BY <1>33, RaiseMoves DEF CallFails, RunTypeOK, LeaseTypeOK
<1>34. CASE Kill(r) BY <1>34, GotoMoves DEF Kill, RunTypeOK, LeaseTypeOK
<1>40. QED
  BY <1>10, <1>11, <1>12, <1>13, <1>14, <1>15, <1>16, <1>17, <1>18, <1>19, <1>20, <1>21, <1>22,
       <1>23, <1>24, <1>25, <1>26, <1>27, <1>28, <1>29, <1>30, <1>31, <1>32, <1>33, <1>34 DEF Act

-----------------------------------------------------------------------------
(***************************************************************************)
(* Where a run goes, and with which flags and markers.                     *)
(***************************************************************************)

\* Only a refusal says "refused".
LEMMA SaidOnEmit ==
  ASSUME RunTypeOK, NEW r \in Attempt, NEW t \in Token \ {"refused"}, Emit(r, t)
  PROVE  Said(r, "refused")' => Said(r, "refused")
<1>1. markers'[r] = Append(markers[r], t) /\ markers[r] \in Seq(Token)
  BY EmitMoves DEF RunTypeOK
<1>2. ASSUME NEW k \in 1..Len(markers'[r]), markers'[r][k] = "refused"
      PROVE  k \in 1..Len(markers[r]) /\ markers[r][k] = "refused"
  BY <1>1, <1>2 DEF Token
<1>3. QED
  BY <1>2 DEF Said

\* A failure leads to the rescue, the always or the end; a launch or a teardown
\* that reaches its rescue has no marker yet, and none gets a second one.
LEMMA RaiseLocal ==
  ASSUME RunTypeOK, NEW r \in Attempt, Local(r), Raise(r)
  PROVE  /\ pc'[r] \in {"done", "rescue-check", "rescue-release", "always"}
         /\ pc'[r] = "rescue-check" => r \in Launch \cup Teardown /\ markers'[r] = <<>>
         /\ r \in Launch \cup Teardown => Len(markers'[r]) <= 1
         /\ Said(r, "refused")' => Said(r, "refused")
<1> USE DEF RunLabel, Token
<1>1. CASE pc[r] \in {"lock", "verify"}
  <2>1. Goto(r, "done") /\ markers[r] = <<>>
    BY <1>1 DEF Raise, Local, MarkersOK, Quiet, Early, Rescue, Body, Refusing
  <2>2. CASE r \in Switch /\ UNCHANGED markers
    BY <2>1, <2>2, GotoMoves DEF Said
  <2>3. CASE Emit(r, IF r \in Rollback THEN "rollback_incomplete" ELSE "preflight-error")
    BY <2>1, <2>3, GotoMoves, EmitMoves, SaidOnEmit
  <2>4. QED
    BY <1>1, <2>2, <2>3 DEF Raise, Rescue, Body, Refusing
<1>2. CASE pc[r] \in Body \cup Refusing \cup {"finish", "terminal-release"}
  <2>1. CASE r \in marked /\ Goto(r, AfterMarked(r)) /\ UNCHANGED markers
    BY <2>1, GotoMoves DEF AfterMarked, Rescue, Body, Refusing, Said, Local, MarkersOK
  <2>2. CASE r \in (Launch \cup Teardown) \ marked /\ Goto(r, "rescue-check") /\ UNCHANGED markers
    <3>1. markers[r] = <<>>
      BY <1>2, <2>2 DEF Local, KindOK, FlagsOK, MarkersOK, Quiet, Body, Refusing, Planning
    <3>2. QED
      BY <2>2, <3>1, GotoMoves DEF Rescue, Body, Refusing, Said
  <2>3. CASE r \in Rollback /\ Emit(r, "rollback_incomplete") /\ Goto(r, "rescue-release")
    BY <2>3, GotoMoves, SaidOnEmit DEF Rescue, Body, Refusing
  <2>4. CASE r \in Switch /\ Goto(r, "rescue-release") /\ UNCHANGED markers
    BY <2>4, GotoMoves DEF Rescue, Body, Refusing, Said
  <2>5. QED
    BY <1>2, <2>1, <2>2, <2>3, <2>4 DEF Raise, Rescue, Body, Refusing
<1>3. CASE pc[r] \in Rescue \cup {"always"}
  <2>1. UNCHANGED markers /\ (Goto(r, "always") \/ Goto(r, "done"))
    BY <1>3 DEF Raise, Rescue, Body, Refusing
  <2>2. QED
    BY <2>1, GotoMoves DEF Rescue, Body, Refusing, Said, Local, MarkersOK
<1>4. QED
  BY <1>1, <1>2, <1>3 DEF Raise

\* A run that has left the body, the way in and the refusals, where little is asked of it.
Away == {"done", "killed", "always", "rescue-release"}

\* What is asked of a run that is away.
LEMMA AwayLocal ==
  ASSUME RunTypeOK, NEW r \in Attempt,
         pc'[r] \in Away \/ (pc'[r] = "terminal-release" /\ r \in Rollback),
         r \in Launch \cup Teardown => Len(markers'[r]) <= 1,
         Said(r, "refused")' => \A i \in Id : r \notin sweptBy'[i],
         r \in Launch \cap touched' => r \in created' /\ r \in started'
  PROVE  Local(r)'
  BY DEF Away, Local, KindOK, FlagsOK, MarkersOK, Early, Body, Planning, Prepared, Mutating,
         Refusing, Quiet

\* A run that fails, where nothing but its own sweep has just changed.
LEMMA FailLocal ==
  ASSUME RunTypeOK, NEW r \in Attempt, Local(r), Raise(r),
         sweptBy' = sweptBy \/ pc[r] = "sweep",
         r \in Launch \cap touched' => r \in created' /\ r \in started'
  PROVE  Local(r)'
<1>1. Said(r, "refused")' => \A i \in Id : r \notin sweptBy'[i]
  <2>1. CASE sweptBy' = sweptBy
    BY <2>1, RaiseLocal DEF Local, MarkersOK
  <2>2. CASE pc[r] = "sweep"
    BY <2>2, RaiseLocal DEF Local, MarkersOK, Said, Quiet, Body
  <2>3. QED
    BY <2>1, <2>2
<1>2. KindOK(r)' /\ FlagsOK(r)'
  BY RaiseLocal DEF KindOK, FlagsOK, Early, Planning, Prepared, Mutating, Refusing
<1>3. MarkersOK(r)'
  BY <1>1, RaiseLocal DEF MarkersOK, Quiet, Early, Body
<1>4. QED
  BY <1>2, <1>3 DEF Local

\* A run that has said nothing yet says it, and is away.
LEMMA EmitAway ==
  ASSUME RunTypeOK, NEW r \in Attempt, Local(r), NEW t \in Token \ {"refused"},
         NEW l \in Away \cup {"terminal-release"}, l = "terminal-release" => r \in Rollback,
         Emit(r, t), Goto(r, l), pc[r] \in Quiet,
         UNCHANGED <<created, started, touched, sweptBy>>
  PROVE  Local(r)'
<1>1. l \in RunLabel
  BY DEF Away, RunLabel, Rescue
<1>2. pc'[r] = l /\ markers[r] = <<>> /\ Len(markers'[r]) <= 1
  BY <1>1, GotoMoves, EmitMoves DEF Local, MarkersOK
<1>3. ~Said(r, "refused")'
  BY <1>2, SaidOnEmit DEF Said
<1>4. QED
  BY <1>2, <1>3, AwayLocal DEF Local, FlagsOK

\* A run goes away in silence.
LEMMA GotoAway ==
  ASSUME RunTypeOK, NEW r \in Attempt, Local(r), NEW l \in Away, Goto(r, l),
         UNCHANGED <<markers, created, started, touched, sweptBy>>
  PROVE  Local(r)'
<1>1. pc'[r] = l
  BY GotoMoves DEF Away, RunLabel, Rescue
<1>2. QED
  BY <1>1, AwayLocal DEF Local, FlagsOK, MarkersOK, Said

\* A run that refuses before its mutation.
LEMMA RefuseLocal ==
  ASSUME RunTypeOK, NEW r \in Attempt, Local(r), Refuse(r),
         pc[r] \in {"snapshot", "capacity", "read"}
  PROVE  Local(r)'
<1>1. /\ markers[r] = <<>> /\ r \notin touched /\ \A i \in Id : r \notin sweptBy[i]
      /\ r \in Launch \cup Rollback
  BY DEF Local, KindOK, FlagsOK, MarkersOK, Planning, Quiet, Body
<1>2. UNCHANGED <<created, started, touched, sweptBy>> /\ r \in marked'
  BY DEF Refuse, ledger
<1>3. CASE r \in created
  <2>1. pc'[r] = "refuse-check" /\ markers'[r] = <<>> /\ r \in Launch
    BY <1>1, <1>3, GotoMoves DEF Refuse, RunLabel, Refusing, RunTypeOK
  <2>2. KindOK(r)' /\ FlagsOK(r)'
    BY <1>1, <1>2, <1>3, <2>1 DEF KindOK, FlagsOK, Early, Planning, Prepared, Mutating, Refusing
  <2>3. MarkersOK(r)'
    BY <1>1, <1>2, <2>1 DEF MarkersOK, Said
  <2>4. QED
    BY <2>2, <2>3 DEF Local
<1>4. CASE r \notin created
  <2>1. pc'[r] = "refuse-release" /\ Len(markers'[r]) <= 1
    <3>1. Emit(r, "refused") /\ Goto(r, "refuse-release")
      BY <1>4 DEF Refuse
    <3>2. pc'[r] = "refuse-release"
      BY <3>1, GotoMoves DEF RunLabel, Refusing
    <3>3. Len(markers'[r]) <= 1
      BY <1>1, <3>1, EmitMoves DEF Token
    <3>4. QED
      BY <3>2, <3>3
  <2>2. KindOK(r)' /\ FlagsOK(r)'
    BY <1>1, <1>2, <1>4, <2>1 DEF KindOK, FlagsOK, Early, Planning, Prepared, Mutating, Refusing
  <2>3. MarkersOK(r)'
    BY <1>1, <1>2, <2>1 DEF MarkersOK, Quiet, Early, Body
  <2>4. QED
    BY <2>2, <2>3 DEF Local
<1>5. QED
  BY <1>3, <1>4

\* A run at a checkpoint: past it, or away.
LEMMA CheckpointLocal ==
  ASSUME RunTypeOK, NEW r \in Attempt, Local(r), NEW l \in {"list", "stage", "run-complete", "terminal-patch"},
         Checkpoint(r, l), pc[r] \in Quiet
  PROVE  \/ Local(r)'
         \/ /\ pc'[r] = l /\ markers'[r] = <<>>
            /\ UNCHANGED <<created, started, touched, sweptBy>>
<1>1. UNCHANGED <<created, started, touched, sweptBy>>
  BY DEF Checkpoint, ledger
<1>2. CASE Goto(r, l) /\ UNCHANGED markers
  BY <1>1, <1>2, GotoMoves DEF RunLabel, Body, Local, MarkersOK
<1>3. CASE Emit(r, "lock-lost") /\ Goto(r, AfterMarked(r))
  BY <1>1, <1>3, EmitAway DEF Token, Away, AfterMarked
<1>4. CASE Raise(r)
  BY <1>1, <1>4, FailLocal DEF Local, FlagsOK
<1>5. QED
  BY <1>2, <1>3, <1>4 DEF Checkpoint

\* A run that gives the facility back.
LEMMA ReleaseLocal ==
  ASSUME RunTypeOK, NEW r \in Attempt, Local(r), NEW l \in Away, ReleaseLock(r, l)
  PROVE  Local(r)'
<1>1. UNCHANGED <<created, started, touched, sweptBy>>
  BY DEF ReleaseLock, ledger
<1>2. CASE Goto(r, l) /\ UNCHANGED markers
  BY <1>1, <1>2, GotoAway
<1>3. CASE Raise(r)
  BY <1>1, <1>3, FailLocal DEF Local, FlagsOK
<1>4. QED
  BY <1>2, <1>3 DEF ReleaseLock, ThenGoto, AnswerLost

\* Each of its steps keeps what is asked of a run.
LEMMA LocalStep ==
  ASSUME RunTypeOK, NEW r \in Attempt, Local(r), Act(r)
  PROVE  Local(r)'
<1> USE DEF RunLabel, Token, Rescue, Body, Refusing, Early, Planning, Prepared, Mutating, Quiet
<1>1. ASSUME NEW l \in {"verify", "capacity", "sweep-guard", "list", "sweep", "guard", "stage",
                        "complete", "run-complete", "finish", "terminal-patch", "refuse-patch", "rescue-patch"},
             pc'[r] = l, KindOK(r)', FlagsOK(r)', markers'[r] = <<>>
      PROVE  Local(r)'
  BY <1>1 DEF Local, MarkersOK, Said
<1> USE DEF flags, ledger
<1>10. CASE Start(r)
  <2>1. markers[r] = <<>> /\ r \notin touched /\ \A i \in Id : r \notin sweptBy[i]
    BY <1>10 DEF Start, Local, FlagsOK, MarkersOK
  <2>2. CASE Goto(r, "lock") /\ UNCHANGED markers
    BY <1>10, <2>1, <2>2, GotoMoves DEF Start, Local, KindOK, FlagsOK, MarkersOK, Said
  <2>3. CASE Goto(r, "done") /\ Emit(r, "refused")
    <3>1. pc'[r] = "done" /\ Len(markers'[r]) <= 1
      BY <2>1, <2>3, GotoMoves, EmitMoves
    <3>2. QED
      BY <1>10, <2>1, <3>1, AwayLocal DEF Start, Away
  <2>4. CASE Goto(r, "done") /\ UNCHANGED markers
    BY <1>10, <2>4, GotoAway DEF Start, Away
  <2>5. QED
    BY <1>10, <2>2, <2>3, <2>4 DEF Start
<1>11. CASE Acquire(r)
  <2>1. markers[r] = <<>> /\ r \notin touched /\ \A i \in Id : r \notin sweptBy[i]
    BY <1>11 DEF Acquire, Local, FlagsOK, MarkersOK
  <2>2. CASE Goto(r, "verify") /\ UNCHANGED markers
    BY <1>11, <2>1, <2>2, GotoMoves DEF Acquire, Local, KindOK, FlagsOK, MarkersOK, Said
  <2>3. CASE Goto(r, "done") /\ Emit(r, "refused")
    <3>1. pc'[r] = "done" /\ Len(markers'[r]) <= 1
      BY <2>1, <2>3, GotoMoves, EmitMoves
    <3>2. QED
      BY <1>11, <2>1, <3>1, AwayLocal DEF Acquire, Away
  <2>4. CASE Goto(r, "done") /\ UNCHANGED markers
    BY <1>11, <2>4, GotoAway DEF Acquire, Away
  <2>5. CASE UNCHANGED <<pc, markers>>
    BY <1>11, <2>5 DEF Acquire, Local, KindOK, FlagsOK, MarkersOK, Said
  <2>6. QED
    BY <1>11, <2>2, <2>3, <2>4, <2>5 DEF Acquire
<1>12. CASE Verify(r)
  <2>1. /\ markers[r] = <<>> /\ r \notin touched /\ \A i \in Id : r \notin sweptBy[i]
        /\ r \notin created
    BY <1>12 DEF Verify, Local, FlagsOK, MarkersOK
  <2>2. CASE Confirm(r) /\ UNCHANGED markers
    <3>1. \/ r \in Launch /\ pc'[r] = "snapshot"
          \/ r \in Teardown /\ pc'[r] = "sweep-guard"
          \/ r \in Rollback /\ pc'[r] = "read"
          \/ r \in Switch /\ pc'[r] = "stage"
      <4>1. pc'[r] = IF r \in Launch THEN "snapshot"
                     ELSE IF r \in Teardown THEN "sweep-guard"
                     ELSE IF r \in Rollback THEN "read" ELSE "stage"
        BY <1>12, <2>2, <2>1 DEF Verify, RunTypeOK, Confirm
      <4>2. QED
        BY <4>1
    <3>2. KindOK(r)' /\ FlagsOK(r)'
      BY <1>12, <2>1, <2>2, <3>1 DEF Verify, KindOK, FlagsOK
    <3>3. MarkersOK(r)'
      BY <1>12, <2>1, <2>2 DEF Verify, MarkersOK, Said
    <3>4. QED
      BY <3>2, <3>3 DEF Local
  <2>3. CASE Goto(r, "done") /\ UNCHANGED started /\ Emit(r, "refused")
    <3>1. pc'[r] = "done" /\ Len(markers'[r]) <= 1
      BY <2>1, <2>3, GotoMoves, EmitMoves
    <3>2. QED
      BY <1>12, <2>1, <3>1, AwayLocal DEF Verify, Away
  <2>4. CASE Goto(r, "done") /\ UNCHANGED <<started, markers>>
    BY <1>12, <2>4, GotoAway DEF Verify, Away
  <2>5. QED
    BY <1>12, <2>2, <2>3, <2>4 DEF Verify
<1>13. CASE Snapshot(r)
  <2>1. CASE Refuse(r)
    BY <1>13, <2>1, RefuseLocal DEF Snapshot
  <2>2. CASE Raise(r) /\ UNCHANGED <<created, started, touched, sweptBy>>
    BY <2>2, FailLocal DEF Local, FlagsOK
  <2>3. CASE /\ created' = created \cup {r} /\ Goto(r, "capacity") /\ UNCHANGED markers
             /\ UNCHANGED <<started, touched, sweptBy>>
    <3>1. pc'[r] = "capacity" /\ markers[r] = <<>>
      BY <1>13, <2>3, GotoMoves DEF Snapshot, Local, MarkersOK
    <3>2. KindOK(r)' /\ FlagsOK(r)'
      BY <1>13, <2>3, <3>1 DEF Snapshot, Local, KindOK, FlagsOK
    <3>3. QED
      BY <1>1, <2>3, <3>1, <3>2
  <2>4. QED
    BY <1>13, <2>1, <2>2, <2>3 DEF Snapshot, Patch, AnswerLost
<1>14. CASE Capacity(r)
  <2>1. CASE Refuse(r)
    BY <1>14, <2>1, RefuseLocal DEF Capacity
  <2>2. CASE Goto(r, "sweep-guard") /\ UNCHANGED <<created, started, marked, markers, touched, sweptBy>>
    <3>1. pc'[r] = "sweep-guard" /\ markers[r] = <<>>
      BY <1>14, <2>2, GotoMoves DEF Capacity, Local, MarkersOK
    <3>2. KindOK(r)' /\ FlagsOK(r)'
      BY <1>14, <2>2, <3>1 DEF Capacity, Local, KindOK, FlagsOK
    <3>3. QED
      BY <1>1, <2>2, <3>1, <3>2
  <2>3. QED
    BY <1>14, <2>1, <2>2 DEF Capacity
<1>15. CASE SweepGuard(r)
  <2>1. CASE pc'[r] = "list" /\ markers'[r] = <<>> /\ UNCHANGED <<created, started, touched, sweptBy>>
    <3>1. KindOK(r)' /\ FlagsOK(r)'
      BY <1>15, <2>1 DEF SweepGuard, Local, KindOK, FlagsOK
    <3>2. QED
      BY <1>1, <2>1, <3>1
  <2>2. QED
    BY <1>15, <2>1, CheckpointLocal DEF SweepGuard
<1>2. ASSUME \/ Goto(r, "sweep") /\ UNCHANGED <<started, markers>>
             \/ AfterSweep(r),
             pc[r] \in {"list", "sweep"}, UNCHANGED <<created, touched>>
      PROVE  Local(r)'
  <2>1. /\ \/ pc'[r] = "sweep" /\ started' = started
           \/ r \in Launch /\ pc'[r] = "guard" /\ started' = started \cup {r}
           \/ r \notin Launch /\ pc'[r] = "stage" /\ started' = started \cup {r}
        /\ UNCHANGED markers
    <3>1. CASE Goto(r, "sweep") /\ UNCHANGED <<started, markers>>
      BY <3>1, GotoMoves
    <3>2. CASE AfterSweep(r)
      BY <3>2, GotoMoves DEF AfterSweep
    <3>3. QED
      BY <1>2, <3>1, <3>2
  <2>2. KindOK(r)' /\ FlagsOK(r)'
    BY <1>2, <2>1 DEF Local, KindOK, FlagsOK
  <2>3. markers'[r] = <<>>
    BY <1>2, <2>1 DEF Local, MarkersOK
  <2>4. QED
    BY <1>1, <2>1, <2>2, <2>3
<1>16. CASE List(r)
  <2>1. \/ Goto(r, "sweep") /\ UNCHANGED <<started, markers>>
        \/ AfterSweep(r)
    BY <1>16 DEF List
  <2>2. QED
    BY <1>2, <1>16, <2>1 DEF List
<1>17. CASE Sweep(r)
  <2>1. \/ Goto(r, "sweep") /\ UNCHANGED <<started, markers>>
        \/ AfterSweep(r)
        \/ Raise(r) /\ UNCHANGED started
    BY <1>17, Zenon DEF Sweep, AnswerLost
  <2>2. CASE Raise(r) /\ UNCHANGED started
    BY <1>17, <2>2, FailLocal DEF Sweep, Local, FlagsOK
  <2>3. QED
    BY <1>2, <1>17, <2>1, <2>2 DEF Sweep
<1>18. CASE Read(r)
  <2>1. CASE Refuse(r)
    BY <1>18, <2>1, RefuseLocal DEF Read
  <2>2. CASE Goto(r, "guard") /\ UNCHANGED <<created, started, markers, touched, sweptBy>>
    <3>1. pc'[r] = "guard" /\ markers[r] = <<>>
      BY <1>18, <2>2, GotoMoves DEF Read, Local, MarkersOK
    <3>2. KindOK(r)' /\ FlagsOK(r)'
      BY <1>18, <2>2, <3>1 DEF Read, Local, KindOK, FlagsOK
    <3>3. QED
      BY <1>1, <2>2, <3>1, <3>2
  <2>3. QED
    BY <1>18, <2>1, <2>2 DEF Read
<1>19. CASE Guard(r)
  <2>1. CASE pc'[r] = "stage" /\ markers'[r] = <<>> /\ UNCHANGED <<created, started, touched, sweptBy>>
    <3>1. KindOK(r)' /\ FlagsOK(r)'
      BY <1>19, <2>1 DEF Guard, Local, KindOK, FlagsOK
    <3>2. QED
      BY <1>1, <2>1, <3>1
  <2>2. QED
    BY <1>19, <2>1, CheckpointLocal DEF Guard
<1>20. CASE Stage(r)
  <2>1. /\ markers[r] = <<>> /\ UNCHANGED <<created, started, sweptBy>>
        /\ touched' = touched \/ touched' = touched \cup {r}
    BY <1>20 DEF Stage, Mutate, Local, MarkersOK
  <2>2. r \in Launch \cap touched' => r \in created' /\ r \in started'
    BY <1>20, <2>1 DEF Stage, Local, KindOK, FlagsOK
  <2>3. CASE Raise(r)
    BY <2>1, <2>2, <2>3, FailLocal
  <2>4. CASE Goto(r, IF r \in Switch THEN "stage" ELSE "guard") /\ UNCHANGED markers
    <3>1. pc'[r] = IF r \in Switch THEN "stage" ELSE "guard"
      BY <2>4, GotoMoves
    <3>2. KindOK(r)' /\ FlagsOK(r)'
      BY <1>20, <2>1, <2>2, <3>1 DEF Stage, Local, KindOK, FlagsOK
    <3>3. QED
      BY <1>1, <2>1, <2>4, <3>1, <3>2
  <2>5. CASE Goto(r, IF r \in Launch \cup Rollback THEN "complete" ELSE "finish") /\ UNCHANGED markers
    <3>1. pc'[r] = IF r \in Launch \cup Rollback THEN "complete" ELSE "finish"
      BY <2>5, GotoMoves
    <3>2. KindOK(r)' /\ FlagsOK(r)'
      BY <1>20, <2>1, <2>2, <3>1 DEF Stage, Local, KindOK, FlagsOK
    <3>3. QED
      BY <1>1, <2>1, <2>5, <3>1, <3>2
  <2>6. QED
    BY <1>20, <2>3, <2>4, <2>5 DEF Stage
<1>21. CASE Complete(r)
  <2> DEFINE l == IF r \in Launch THEN "run-complete" ELSE "terminal-patch"
  <2>1. CASE pc'[r] = l /\ markers'[r] = <<>> /\ UNCHANGED <<created, started, touched, sweptBy>>
    <3>1. KindOK(r)' /\ FlagsOK(r)'
      BY <1>21, <2>1 DEF Complete, Local, KindOK, FlagsOK
    <3>2. QED
      BY <1>1, <2>1, <3>1
  <2>2. QED
    BY <1>21, <2>1, CheckpointLocal DEF Complete
<1>22. CASE RunComplete(r)
  <2>1. UNCHANGED <<created, started, touched, sweptBy>>
    BY <1>22 DEF RunComplete, Patch
  <2>2. CASE Goto(r, "finish") /\ UNCHANGED markers
    <3>1. pc'[r] = "finish" /\ markers[r] = <<>>
      BY <1>22, <2>2, GotoMoves DEF RunComplete, Local, MarkersOK
    <3>2. KindOK(r)' /\ FlagsOK(r)'
      BY <1>22, <2>1, <2>2, <3>1 DEF RunComplete, Local, KindOK, FlagsOK
    <3>3. QED
      BY <1>1, <2>2, <3>1, <3>2
  <2>3. CASE Raise(r)
    BY <2>1, <2>3, FailLocal DEF Local, FlagsOK
  <2>4. QED
    BY <1>22, <2>2, <2>3 DEF RunComplete, ThenGoto, AnswerLost
<1>23. CASE Finish(r) \/ TerminalRelease(r) \/ RescueRelease(r) \/ Always(r) \/ RefuseRelease(r)
  BY <1>23, ReleaseLocal DEF Finish, TerminalRelease, RescueRelease, Always, RefuseRelease,
       AfterMarked, Away
<1>24. CASE TerminalPatch(r)
  <2>1. r \in Rollback /\ UNCHANGED <<created, started, touched, sweptBy>>
    BY <1>24 DEF TerminalPatch, Patch, Local, KindOK
  <2>2. CASE Emit(r, "rollback_incomplete") /\ Goto(r, "terminal-release")
    <3>1. pc[r] \in Quiet
      BY <1>24 DEF TerminalPatch
    <3>2. QED
      BY <2>1, <2>2, <3>1, EmitAway
  <2>3. CASE Raise(r)
    BY <2>1, <2>3, FailLocal DEF Local, FlagsOK
  <2>4. QED
    BY <1>24, <2>2, <2>3 DEF TerminalPatch, AnswerLost
<1>25. ASSUME Emit(r, "refused"), Goto(r, "refuse-release"), pc[r] \in {"refuse-check", "refuse-patch"},
              UNCHANGED <<created, started, marked, touched, sweptBy>>
       PROVE  Local(r)'
  <2>1. pc'[r] = "refuse-release" /\ r \in Launch /\ r \in created /\ r \in marked /\ r \notin touched
    BY <1>25, GotoMoves DEF Local, KindOK, FlagsOK
  <2>2. KindOK(r)' /\ FlagsOK(r)'
    BY <1>25, <2>1 DEF Local, KindOK, FlagsOK
  <2>3. MarkersOK(r)'
    <3>1. markers[r] = <<>> /\ \A i \in Id : r \notin sweptBy[i]
      BY <1>25 DEF Local, FlagsOK, MarkersOK
    <3>2. Len(markers'[r]) <= 1
      BY <1>25, <3>1, EmitMoves
    <3>3. QED
      BY <1>25, <2>1, <3>1, <3>2 DEF MarkersOK
  <2>4. QED
    BY <2>2, <2>3 DEF Local
<1>26. CASE RefuseCheck(r)
  <2>1. CASE Emit(r, "refused") /\ Goto(r, "refuse-release")
    BY <1>25, <1>26, <2>1 DEF RefuseCheck
  <2>2. CASE Goto(r, "refuse-patch") /\ UNCHANGED markers
    <3>1. pc'[r] = "refuse-patch" /\ markers[r] = <<>>
      BY <1>26, <2>2, GotoMoves DEF RefuseCheck, Local, MarkersOK
    <3>2. KindOK(r)' /\ FlagsOK(r)'
      BY <1>26, <3>1 DEF RefuseCheck, Local, KindOK, FlagsOK
    <3>3. QED
      BY <1>1, <2>2, <3>1, <3>2
  <2>3. QED
    BY <1>26, <2>1, <2>2 DEF RefuseCheck
<1>27. CASE RefusePatch(r)
  <2>1. UNCHANGED <<created, started, marked, touched, sweptBy>>
    BY <1>27 DEF RefusePatch, Patch
  <2>2. CASE Emit(r, "refused") /\ Goto(r, "refuse-release")
    BY <1>25, <1>27, <2>1, <2>2 DEF RefusePatch
  <2>3. CASE Raise(r)
    BY <2>1, <2>3, FailLocal DEF Local, FlagsOK
  <2>4. QED
    BY <1>27, <2>2, <2>3 DEF RefusePatch, AnswerLost
<1>28. Outcome(r) \in Token \ {"refused"}
  BY DEF Outcome
<1>29. CASE RescueCheck(r)
  <2>1. CASE Emit(r, Outcome(r)) /\ Goto(r, "rescue-release")
    BY <1>28, <1>29, <2>1, EmitAway DEF RescueCheck, Away
  <2>2. CASE r \in created /\ Goto(r, "rescue-patch") /\ UNCHANGED markers
    <3>1. pc'[r] = "rescue-patch" /\ markers[r] = <<>> /\ r \in Launch
      BY <1>29, <2>2, GotoMoves DEF RescueCheck, Local, MarkersOK, RunTypeOK
    <3>2. KindOK(r)' /\ FlagsOK(r)'
      BY <1>29, <2>2, <3>1 DEF RescueCheck, Local, KindOK, FlagsOK
    <3>3. QED
      BY <1>1, <2>2, <3>1, <3>2
  <2>3. QED
    BY <1>29, <2>1, <2>2 DEF RescueCheck
<1>30. CASE RescuePatch(r)
  <2>1. UNCHANGED <<created, started, touched, sweptBy>>
    BY <1>30 DEF RescuePatch, Patch
  <2>2. CASE Emit(r, Outcome(r)) /\ Goto(r, "rescue-release")
    BY <1>28, <1>30, <2>1, <2>2, EmitAway DEF RescuePatch, Away
  <2>3. CASE Raise(r)
    BY <2>1, <2>3, FailLocal DEF Local, FlagsOK
  <2>4. QED
    BY <1>30, <2>2, <2>3 DEF RescuePatch, AnswerLost
<1>31. CASE CallFails(r)
  BY <1>31, FailLocal DEF CallFails, Local, FlagsOK
<1>32. CASE Kill(r)
  BY <1>32, GotoAway DEF Kill, Away
<1>40. QED
  BY <1>10, <1>11, <1>12, <1>13, <1>14, <1>15, <1>16, <1>17, <1>18, <1>19, <1>20, <1>21, <1>22,
     <1>23, <1>24, <1>26, <1>27, <1>29, <1>30, <1>31, <1>32 DEF Act

\* The steps of another run do too.
LEMMA FrameLocal ==
  ASSUME NEW r \in Attempt, Frame(r), NEW m \in Attempt \ {r}, Local(m)
  PROVE  Local(m)'
<1>1. KindOK(m)'
  BY DEF Frame, Local, KindOK
<1>2. FlagsOK(m)'
  BY DEF Frame, Local, FlagsOK
<1>3. MarkersOK(m)'
  BY DEF Frame, Local, MarkersOK, Said
<1>4. QED
  BY <1>1, <1>2, <1>3 DEF Local

\* A step is one of a run, the end of a term, or none.
LEMMA NextCases ==
  ASSUME [RunNext]_runVars
  PROVE  (\E r \in Attempt : Act(r)) \/ Expire \/ UNCHANGED runVars
  BY DEF RunNext, Act, Finished

\* The flow of the runs is inductive.
LEMMA FlowStep == ASSUME FlowInv, [RunNext]_runVars PROVE FlowInv'
<1>1. ASSUME NEW r \in Attempt, Act(r) PROVE FlowInv'
  <2>1. RunTypeOK' /\ Frame(r)
    BY <1>1, ActType DEF FlowInv, Local
  <2>2. QED
    BY <1>1, <2>1, LocalStep, FrameLocal DEF FlowInv
<1>2. CASE Expire
  BY <1>2 DEF Expire, Age, FlowInv, Local, KindOK, FlagsOK, MarkersOK, Said, RunTypeOK, LeaseTypeOK,
       ledger, flags
<1>3. CASE UNCHANGED runVars
  BY <1>3 DEF runVars, leaseVars, FlowInv, Local, KindOK, FlagsOK, MarkersOK, Said, RunTypeOK,
       LeaseTypeOK, ledger, flags
<1>4. QED
  BY <1>1, <1>2, <1>3, NextCases

\* It holds at first.
LEMMA FlowInit == RunInit => FlowInv
<1> SUFFICES ASSUME RunInit PROVE FlowInv
  OBVIOUS
<1>1. RunTypeOK
  BY DEF RunInit, LeaseInit, RunTypeOK, LeaseTypeOK, RunLabel, Token
<1>2. ASSUME NEW r \in Attempt PROVE Local(r)
  BY DEF RunInit, Local, KindOK, FlagsOK, MarkersOK, Said, Early, Body, Planning, Prepared, Mutating,
         Refusing, Quiet
<1>3. QED
  BY <1>1, <1>2 DEF FlowInv

\* It always holds.
LEMMA FlowAlways == RunSpec => []FlowInv
  BY FlowInit, FlowStep, PTL DEF RunSpec

(***************************************************************************)
(* Every variable keeps its type.                                          *)
(***************************************************************************)
THEOREM RunTypeCorrect == RunSpec => []RunTypeOK
<1>1. FlowInv => RunTypeOK
  BY DEF FlowInv
<1>2. QED
  BY <1>1, FlowAlways, PTL

(***************************************************************************)
(* A launch or a teardown never emits a second outcome marker              *)
(* (gate_rescue.yml, _refuse_pre_mutation.yml, lock_checkpoint.yml),       *)
(* whatever fails, is killed or loses the facility.                        *)
(***************************************************************************)
THEOREM OneMarkerEach == RunSpec => []NoSecondMarker
<1>1. FlowInv => NoSecondMarker
  BY DEF FlowInv, Local, MarkersOK, NoSecondMarker
<1>2. QED
  BY <1>1, FlowAlways, PTL

(***************************************************************************)
(* A run that refused has swept no snapshot (_supersede_sweep.yml).        *)
(***************************************************************************)
THEOREM RefusalsSweepNothing == RunSpec => []RefusalKeepsBaselines
<1>1. FlowInv => RefusalKeepsBaselines
  BY DEF FlowInv, Local, MarkersOK, RefusalKeepsBaselines
<1>2. QED
  BY <1>1, FlowAlways, PTL

-----------------------------------------------------------------------------
(***************************************************************************)
(* What the runs do to the lock is what the lease allows.                  *)
(***************************************************************************)

\* Going to a label is leaving the lease alone or withdrawing from it.
LEMMA GotoLease ==
  ASSUME RunTypeOK, NEW r \in Attempt, NEW l \in RunLabel, Goto(r, l), UNCHANGED leaseRunVars
  PROVE  LeaseNext \/ UNCHANGED leaseVars
  BY DEF Goto, RunTypeOK, LeaseTypeOK, leaseRunVars, LeaseNext, Withdraw, leaseVars

\* A failure goes somewhere.
LEMMA RaiseGoes ==
  ASSUME NEW r \in Attempt, Raise(r)
  PROVE  \E l \in RunLabel : Goto(r, l)
  BY DEF Raise, AfterMarked, RunLabel, Rescue

\* A step of a run is a step of the lease or leaves it alone.
LEMMA LeaseAct ==
  ASSUME RunTypeOK, NEW r \in Attempt, Act(r)
  PROVE  LeaseNext \/ UNCHANGED leaseVars
<1> USE DEF RunLabel, Rescue, Body, Refusing
<1>1. ASSUME NEW l \in RunLabel, ReleaseLock(r, l) PROVE LeaseNext \/ UNCHANGED leaseVars
  <2>1. PICK m \in RunLabel : Goto(r, m)
    BY <1>1, RaiseGoes DEF ReleaseLock, ThenGoto, AnswerLost
  <2>2. CASE Release(r)
    BY <2>2 DEF LeaseNext
  <2>3. CASE UNCHANGED leaseRunVars
    BY <2>1, <2>3, GotoLease
  <2>4. QED
    BY <1>1, <2>2, <2>3 DEF ReleaseLock
<1>2. CASE Acquire(r)
  <2>1. CASE Grant(r) \/ Evict
    BY <2>1 DEF LeaseNext
  <2>2. CASE Goto(r, "done") /\ UNCHANGED leaseRunVars
    BY <2>2, GotoLease
  <2>3. QED
    BY <1>2, <2>1, <2>2 DEF Acquire
<1>3. CASE Verify(r)
  <2>1. CASE Confirm(r)
    BY <2>1 DEF LeaseNext
  <2>2. CASE Goto(r, "done") /\ UNCHANGED leaseRunVars
    BY <2>2, GotoLease
  <2>3. QED
    BY <1>3, <2>1, <2>2 DEF Verify
<1>4. CASE Finish(r) \/ TerminalRelease(r) \/ RescueRelease(r) \/ Always(r) \/ RefuseRelease(r)
  BY <1>1, <1>4 DEF Finish, TerminalRelease, RescueRelease, Always, RefuseRelease, AfterMarked
<1>5. ASSUME NEW l \in RunLabel, Checkpoint(r, l) PROVE UNCHANGED leaseRunVars /\ \E m \in RunLabel : Goto(r, m)
  BY <1>5, RaiseGoes DEF Checkpoint, AfterMarked
<1>6. CASE SweepGuard(r) \/ Guard(r) \/ Complete(r)
  BY <1>5, <1>6, GotoLease DEF SweepGuard, Guard, Complete
<1>7. CASE \/ Start(r) \/ Snapshot(r) \/ Capacity(r) \/ List(r) \/ Sweep(r) \/ Read(r) \/ Stage(r)
           \/ RunComplete(r) \/ TerminalPatch(r) \/ RefuseCheck(r) \/ RefusePatch(r)
           \/ RescueCheck(r) \/ RescuePatch(r) \/ CallFails(r) \/ Kill(r)
  <2>1. UNCHANGED leaseRunVars
    BY <1>7 DEF Start, Snapshot, Capacity, List, Sweep, Read, Stage, RunComplete, TerminalPatch,
         RefuseCheck, RefusePatch, RescueCheck, RescuePatch, CallFails, Kill, Refuse
  <2>2. CASE Start(r) \/ Capacity(r) \/ List(r) \/ Read(r) \/ RefuseCheck(r) \/ RescueCheck(r) \/ Kill(r)
    BY <2>1, <2>2, GotoLease DEF Start, Capacity, List, Read, RefuseCheck, RescueCheck, Kill,
         Refuse, AfterSweep
  <2>3. CASE Snapshot(r) \/ Sweep(r)
    BY <2>1, <2>3, GotoLease, RaiseGoes DEF Snapshot, Sweep, Refuse, AfterSweep, AnswerLost
  <2>4. CASE Stage(r) \/ RunComplete(r) \/ CallFails(r)
    BY <2>1, <2>4, GotoLease, RaiseGoes DEF Stage, RunComplete, CallFails, ThenGoto, AnswerLost
  <2>5. CASE TerminalPatch(r) \/ RefusePatch(r) \/ RescuePatch(r)
    BY <2>1, <2>5, GotoLease, RaiseGoes DEF TerminalPatch, RefusePatch, RescuePatch, AnswerLost
  <2>6. QED
    BY <1>7, <2>2, <2>3, <2>4, <2>5
<1>8. QED
  BY <1>2, <1>3, <1>4, <1>6, <1>7 DEF Act

\* So is any step.
LEMMA LeaseOfStep == ASSUME FlowInv, [RunNext]_runVars PROVE [LeaseNext]_leaseVars
<1>1. CASE Expire
  BY <1>1 DEF Expire, LeaseNext
<1>2. QED
  BY <1>1, NextCases, LeaseAct DEF FlowInv, runVars, leaseVars

(***************************************************************************)
(* The playbooks use the facility lock as FacilityLease describes it: they *)
(* never hold, give back or take it over in another way.                   *)
(***************************************************************************)
THEOREM RunsKeepTheLease == RunSpec => LeaseSpec
<1>1. RunInit => LeaseInit
  BY DEF RunInit
<1>2. QED
  BY <1>1, LeaseOfStep, FlowAlways, PTL DEF RunSpec, LeaseSpec

(***************************************************************************)
(* A run that acts as the holder inside its term owns the facility.        *)
(***************************************************************************)
THEOREM RunsHonourTerms == RunSpec => []TermHonoured
  BY RunsKeepTheLease, LeaseHonoursTerms, PTL

-----------------------------------------------------------------------------
(***************************************************************************)
(* Where a step comes from, and what it does to the lock and the ledger.   *)
(***************************************************************************)

Restoring == {"guard", "stage", "complete", "terminal-patch"}

FlowsOn(r) ==
  /\ pc'[r] \in Safe => pc[r] \in Safe
  /\ r \in Launch \cup Teardown /\ pc'[r] \in {"guard", "stage", "sweep"} =>
       pc[r] \in {"guard", "stage"} \/ List(r) \/ Sweep(r)
  /\ r \in Rollback /\ pc'[r] \in Restoring =>
       pc[r] \in Restoring \/ (status[runId[r]] \in Eligible /\ UNCHANGED <<owner, ledger>>)

\* Where the steps of a run come from.
LEMMA Flows ==
  ASSUME RunTypeOK, NEW r \in Attempt, Local(r), Act(r)
  PROVE  FlowsOn(r)
<1> USE DEF RunLabel, Rescue, Body, Refusing
<1> DEFINE Out == {"done", "killed", "always", "rescue-check", "rescue-patch", "rescue-release",
                   "terminal-release", "refuse-release"}
<1>1. ASSUME pc'[r] \in Out PROVE FlowsOn(r)
  BY <1>1 DEF FlowsOn, Restoring, Safe, Quiet, Early
<1>2. ASSUME Raise(r) PROVE FlowsOn(r)
  BY <1>1, <1>2, RaiseLocal
<1>3. ASSUME NEW l \in Out, Goto(r, l) PROVE FlowsOn(r)
  BY <1>1, <1>3, GotoMoves
<1>4. ASSUME NEW l \in Out, ReleaseLock(r, l) PROVE FlowsOn(r)
  BY <1>2, <1>3, <1>4 DEF ReleaseLock, ThenGoto, AnswerLost
<1>5. ASSUME pc[r] \in Safe, pc'[r] \notin {"guard", "stage", "sweep", "complete", "terminal-patch"}
      PROVE  FlowsOn(r)
  BY <1>5 DEF FlowsOn, Restoring
<1>6. ASSUME NEW l \in RunLabel, Goto(r, l), pc[r] \in Safe,
             l \notin {"guard", "stage", "sweep", "complete", "terminal-patch"}
      PROVE  FlowsOn(r)
  BY <1>5, <1>6, GotoMoves
<1> HIDE DEF Out
<1>7. ASSUME pc[r] \in Safe, Refuse(r) PROVE FlowsOn(r)
  BY <1>6, <1>7 DEF Refuse
<1>8. /\ "idle" \in Safe /\ "lock" \in Safe /\ "verify" \in Safe /\ "finish" \in Safe
      /\ "refuse-check" \in Safe /\ Body \subseteq Safe
  BY DEF Safe, Quiet, Early
<1>10. CASE Start(r)
  BY <1>10, <1>6, <1>8 DEF Start
<1>11. CASE Acquire(r)
  <2>1. CASE UNCHANGED pc
    BY <1>11, <2>1 DEF Acquire, FlowsOn
  <2>2. QED
    BY <1>11, <1>6, <1>8, <2>1 DEF Acquire
<1>12. CASE Verify(r)
  <2>1. CASE Goto(r, "done")
    BY <1>12, <1>6, <1>8, <2>1 DEF Verify
  <2>2. CASE Confirm(r)
    <3>1. pc'[r] = IF r \in Launch THEN "snapshot"
                   ELSE IF r \in Teardown THEN "sweep-guard"
                   ELSE IF r \in Rollback THEN "read" ELSE "stage"
      BY <1>12, <2>2 DEF Verify, RunTypeOK, Confirm
    <3>2. QED
      BY <1>12, <1>8, <3>1 DEF Verify, FlowsOn, Restoring
  <2>3. QED
    BY <1>12, <2>1, <2>2 DEF Verify
<1>13. CASE Snapshot(r)
  BY <1>13, <1>2, <1>6, <1>7, <1>8 DEF Snapshot, AnswerLost
<1>14. CASE Capacity(r)
  BY <1>14, <1>6, <1>7, <1>8 DEF Capacity
<1>15. ASSUME NEW l \in Body, Checkpoint(r, l), pc[r] \in Body,
              Goto(r, l) => FlowsOn(r)
       PROVE FlowsOn(r)
  BY <1>15, <1>2, <1>6, <1>8 DEF Checkpoint, AfterMarked
<1>16. CASE SweepGuard(r)
  BY <1>16, <1>15, <1>6, <1>8 DEF SweepGuard
<1>17. CASE List(r) \/ Sweep(r)
  BY <1>17, <1>8 DEF List, Sweep, FlowsOn, Local, KindOK
<1>18. CASE Read(r)
  <2>1. CASE Goto(r, "guard") /\ status[runId[r]] \in Eligible /\ UNCHANGED <<leaseRunVars, ledger>>
    BY <1>18, <1>8, <2>1, GotoMoves DEF Read, FlowsOn, leaseRunVars, Local, KindOK
  <2>2. QED
    BY <1>18, <1>7, <1>8, <2>1 DEF Read
<1>19. CASE Guard(r)
  <2>1. FlowsOn(r)
    BY <1>19, <1>8 DEF Guard, FlowsOn, Restoring
  <2>2. QED
    BY <2>1
<1>20. CASE Stage(r)
  BY <1>20, <1>8 DEF Stage, FlowsOn, Restoring
<1>21. CASE Complete(r)
  <2> DEFINE l == IF r \in Launch THEN "run-complete" ELSE "terminal-patch"
  <2>1. ASSUME Goto(r, l) PROVE FlowsOn(r)
    <3>1. pc'[r] = l
      BY <2>1, GotoMoves
    <3>2. QED
      BY <1>21, <1>8, <3>1 DEF Complete, FlowsOn, Restoring
  <2>2. QED
    BY <1>21, <1>15, <2>1 DEF Complete
<1>22. CASE RunComplete(r)
  BY <1>22, <1>2, <1>6, <1>8 DEF RunComplete, ThenGoto, AnswerLost
<1>23. CASE Finish(r) \/ TerminalRelease(r) \/ RescueRelease(r) \/ Always(r) \/ RefuseRelease(r)
  BY <1>23, <1>4 DEF Finish, TerminalRelease, RescueRelease, Always, RefuseRelease, AfterMarked, Out
<1>24. CASE TerminalPatch(r) \/ RefusePatch(r) \/ RescueCheck(r) \/ RescuePatch(r) \/ CallFails(r) \/ Kill(r)
  BY <1>24, <1>2, <1>3 DEF TerminalPatch, RefusePatch, RescueCheck, RescuePatch, CallFails, Kill,
       AnswerLost, Out
<1>25. CASE RefuseCheck(r)
  BY <1>25, <1>6, <1>8 DEF RefuseCheck
<1>26. QED
  BY <1>10, <1>11, <1>12, <1>13, <1>14, <1>16, <1>17, <1>18, <1>19, <1>20, <1>21, <1>22, <1>23,
     <1>24, <1>25 DEF Act

\* What a step does to the owner.
LEMMA OwnerCases ==
  ASSUME NEW r \in Attempt, Act(r)
  PROVE  owner' = owner \/ owner' = NoOne \/ (owner' = r /\ pc[r] = "lock" /\ UNCHANGED created)
<1>1. ASSUME NEW l, ReleaseLock(r, l) PROVE owner' = owner \/ owner' = NoOne
  BY <1>1 DEF ReleaseLock, Release, leaseRunVars
<1>2. CASE Acquire(r)
  BY <1>2 DEF Acquire, Grant, Evict, leaseRunVars, flags
<1>3. CASE Finish(r) \/ TerminalRelease(r) \/ RescueRelease(r) \/ Always(r) \/ RefuseRelease(r)
  BY <1>1, <1>3 DEF Finish, TerminalRelease, RescueRelease, Always, RefuseRelease
<1>4. CASE Verify(r)
  BY <1>4 DEF Verify, Confirm, leaseRunVars
<1>5. CASE \/ Start(r) \/ Snapshot(r) \/ Capacity(r) \/ List(r) \/ Sweep(r) \/ Read(r) \/ Stage(r)
           \/ RunComplete(r) \/ TerminalPatch(r) \/ RefuseCheck(r) \/ RefusePatch(r)
           \/ RescueCheck(r) \/ RescuePatch(r) \/ CallFails(r) \/ Kill(r)
           \/ SweepGuard(r) \/ Guard(r) \/ Complete(r)
  BY <1>5 DEF Start, Snapshot, Capacity, List, Sweep, Read, Stage, RunComplete, TerminalPatch,
       RefuseCheck, RefusePatch, RescueCheck, RescuePatch, CallFails, Kill, Refuse, SweepGuard, Guard,
       Complete, Checkpoint, leaseRunVars
<1>6. QED
  BY <1>2, <1>3, <1>4, <1>5 DEF Act

\* Only a stage changes the workloads.
LEMMA TouchCases ==
  ASSUME NEW r \in Attempt, Act(r)
  PROVE  touched' = touched \/ pc[r] = "stage"
<1>1. ASSUME NEW l, ReleaseLock(r, l) PROVE touched' = touched
  BY <1>1 DEF ReleaseLock
<1>2. CASE \/ Start(r) \/ Acquire(r) \/ Verify(r) \/ Capacity(r) \/ SweepGuard(r) \/ List(r) \/ Read(r)
           \/ Guard(r) \/ Complete(r) \/ RefuseCheck(r) \/ RescueCheck(r) \/ CallFails(r) \/ Kill(r)
  BY <1>2 DEF Start, Acquire, Verify, Capacity, SweepGuard, List, Read, Guard, Complete, RefuseCheck,
       RescueCheck, CallFails, Kill, Refuse, Checkpoint
<1>3. CASE Finish(r) \/ TerminalRelease(r) \/ RescueRelease(r) \/ Always(r) \/ RefuseRelease(r)
  BY <1>1, <1>3 DEF Finish, TerminalRelease, RescueRelease, Always, RefuseRelease
<1>4. CASE Snapshot(r) \/ Sweep(r) \/ RunComplete(r) \/ TerminalPatch(r) \/ RefusePatch(r) \/ RescuePatch(r)
  BY <1>4 DEF Snapshot, Refuse, Sweep, RunComplete, TerminalPatch, RefusePatch, RescuePatch
<1>5. QED
  BY <1>2, <1>3, <1>4 DEF Act, Stage

\* The ways a step changes the snapshots.
Creates(r) ==
  /\ pc[r] = "snapshot" /\ status[runId[r]] = "none"
  /\ Patch(r, "in-progress")
  /\ created' = created \/ created' = created \cup {r}

Closes(r) ==
  /\ UNCHANGED created
  /\ \/ pc[r] = "run-complete" /\ Patch(r, "run_complete")
     \/ pc[r] = "refuse-patch" /\ Patch(r, "superseded")
     \/ pc[r] = "rescue-patch" /\ Patch(r, IF r \in started THEN "failed_rollback_required" ELSE "superseded")
     \/ pc[r] = "terminal-patch" /\ Patch(r, "rollback_incomplete")

\* What a step does to the snapshots.
LEMMA LedgerCases ==
  ASSUME NEW r \in Attempt, Act(r)
  PROVE  \/ UNCHANGED <<ledger, created>>
         \/ Creates(r) /\ owner' = owner
         \/ Closes(r) /\ owner' = owner
         \/ Sweep(r)
         \/ pc[r] = "stage" /\ Mutate(r) /\ UNCHANGED <<owner, status, late, sweptBy, created>>
<1> USE DEF ledger, flags
<1>1. ASSUME NEW l, ReleaseLock(r, l) PROVE UNCHANGED <<ledger, created>>
  BY <1>1 DEF ReleaseLock
<1>2. CASE \/ Start(r) \/ Acquire(r) \/ Verify(r) \/ Capacity(r) \/ SweepGuard(r) \/ List(r) \/ Read(r)
           \/ Guard(r) \/ Complete(r) \/ RefuseCheck(r) \/ RescueCheck(r) \/ CallFails(r) \/ Kill(r)
  BY <1>2 DEF Start, Acquire, Verify, Capacity, SweepGuard, List, Read, Guard, Complete, RefuseCheck,
       RescueCheck, CallFails, Kill, Refuse, Checkpoint
<1>3. CASE Finish(r) \/ TerminalRelease(r) \/ RescueRelease(r) \/ Always(r) \/ RefuseRelease(r)
  BY <1>1, <1>3 DEF Finish, TerminalRelease, RescueRelease, Always, RefuseRelease
<1>4. CASE Snapshot(r)
  BY <1>4 DEF Snapshot, Refuse, Creates, leaseRunVars
<1>5. CASE RunComplete(r) \/ TerminalPatch(r) \/ RefusePatch(r) \/ RescuePatch(r)
  BY <1>5 DEF RunComplete, TerminalPatch, RefusePatch, RescuePatch, Closes, leaseRunVars
<1>6. CASE Stage(r)
  BY <1>6 DEF Stage, leaseRunVars
<1>7. QED
  BY <1>2, <1>3, <1>4, <1>5, <1>6 DEF Act

-----------------------------------------------------------------------------
(***************************************************************************)
(* The snapshots.                                                          *)
(***************************************************************************)

\* The steps of a run keep the snapshots in order.
LEMMA SnapshotsStep ==
  ASSUME FlowInv, SnapshotsOK, NEW r \in Attempt, Act(r)
  PROVE  SnapshotsOK'
<1>1. RunTypeOK /\ RunTypeOK' /\ Local(r) /\ Frame(r) /\ FlowsOn(r)
  BY ActType, Flows DEF FlowInv, Local
<1>2. \A i \in Id : status'[i] = "none" => since'[i] = {}
  <2>1. CASE UNCHANGED <<ledger, created>>
    BY <2>1 DEF SnapshotsOK, ledger
  <2>2. CASE Creates(r) \/ Closes(r)
    <3>1. PICK s \in Eligible \cup Stale : Patch(r, s)
      BY <2>2 DEF Creates, Closes, Eligible, Stale
    <3>2. QED
      BY <1>1, <3>1 DEF Patch, SnapshotsOK, RunTypeOK, Eligible, Stale
  <2>3. CASE Sweep(r)
    BY <1>1, <2>3 DEF Sweep, SnapshotsOK, RunTypeOK
  <2>4. CASE Mutate(r) /\ UNCHANGED status
    BY <1>1, <2>4 DEF Mutate, SnapshotsOK, RunTypeOK
  <2>5. QED
    BY <2>1, <2>2, <2>3, <2>4, LedgerCases
<1>3. \A m \in created' : status'[runId'[m]] # "none"
  <2>1. CASE UNCHANGED <<ledger, created>>
    BY <1>1, <2>1 DEF SnapshotsOK, ledger, Frame
  <2>2. CASE Creates(r) \/ Closes(r)
    <3>1. PICK s \in Eligible \cup Stale : Patch(r, s)
      BY <2>2 DEF Creates, Closes, Eligible, Stale
    <3>2. s # "none" /\ created' \subseteq created \cup {r} /\ created \subseteq Attempt
      BY <1>1, <2>2 DEF Creates, Closes, Eligible, Stale, RunTypeOK
    <3>3. QED
      BY <1>1, <3>1, <3>2 DEF Patch, SnapshotsOK, RunTypeOK, Frame
  <2>3. CASE Sweep(r)
    BY <1>1, <2>3 DEF Sweep, SnapshotsOK, RunTypeOK, Frame
  <2>4. CASE Mutate(r) /\ UNCHANGED <<status, created>>
    BY <1>1, <2>4 DEF SnapshotsOK, Frame
  <2>5. QED
    BY <2>1, <2>2, <2>3, <2>4, LedgerCases
<1>4. \A m, n \in created' : runId'[m] = runId'[n] => m = n
  <2>1. CASE UNCHANGED created
    BY <1>1, <2>1 DEF SnapshotsOK, Frame
  <2>2. CASE Creates(r)
    <3>1. \A m \in created : runId[m] # runId[r]
      BY <2>2 DEF Creates, SnapshotsOK
    <3>2. QED
      BY <1>1, <2>2, <3>1 DEF Creates, SnapshotsOK, Frame
  <2>3. QED
    BY <2>1, <2>2, LedgerCases DEF Closes, Sweep
<1>5. ASSUME NEW m \in created', pc'[m] \in Safe \/ m \in touched' PROVE Recoverable(runId[m])'
  <2>1. m \in Attempt /\ (m # r => m \in created /\ (pc[m] \in Safe \/ m \in touched))
    BY <1>1, <1>5 DEF RunTypeOK, Frame
  <2>2. m \in created => pc[m] \in Safe \/ m \in touched
    <3>1. CASE m = r /\ r \in touched' /\ r \notin touched
      BY <3>1, TouchCases DEF Safe, Quiet, Body
    <3>2. QED
      BY <1>1, <1>5, <2>1, <3>1 DEF FlowsOn
  <2>3. m \in created => Recoverable(runId[m])
    BY <2>2 DEF SnapshotsOK
  <2>4. runId' = runId /\ runId[m] \in Id
    BY <1>1, <2>1 DEF Frame, RunTypeOK
  <2>5. CASE UNCHANGED <<ledger, created>>
    BY <1>5, <2>3, <2>4, <2>5 DEF Recoverable, ledger
  <2>6. CASE Creates(r)
    <3>1. CASE m = r /\ m \notin created
      BY <1>1, <2>1, <2>4, <2>6, <3>1 DEF Creates, Patch, Recoverable, Eligible, RunTypeOK
    <3>2. CASE m \in created
      <4>1. runId[m] # runId[r]
        BY <2>6, <3>2 DEF Creates, SnapshotsOK
      <4>2. QED
        BY <1>1, <2>3, <2>4, <2>6, <3>2, <4>1 DEF Creates, Patch, Recoverable, RunTypeOK
    <3>3. QED
      BY <1>5, <2>6, <3>1, <3>2 DEF Creates
  <2>7. CASE Closes(r)
    <3>1. m \in created
      BY <1>5, <2>7 DEF Closes
    <3>2. CASE runId[m] # runId[r]
      BY <1>1, <2>3, <2>4, <2>7, <3>1, <3>2 DEF Closes, Patch, Recoverable, RunTypeOK
    <3>3. CASE Patch(r, "run_complete") \/ Patch(r, "rollback_incomplete")
      BY <1>1, <2>3, <2>4, <3>1, <3>3 DEF Patch, Recoverable, RunTypeOK, Eligible
    <3>4. CASE /\ runId[m] = runId[r]
               /\ \/ pc[r] = "refuse-patch" /\ Patch(r, "superseded")
                  \/ /\ pc[r] = "rescue-patch"
                     /\ Patch(r, IF r \in started THEN "failed_rollback_required" ELSE "superseded")
      <4>1. r \in created /\ m = r
        BY <1>1, <3>1, <3>4 DEF Local, KindOK, FlagsOK, Prepared, SnapshotsOK
      <4>2. pc[r] \notin Safe /\ touched' = touched
        BY <3>4, TouchCases DEF Safe
      <4>3. r \in touched /\ r \in started /\ r \in Launch
        BY <1>1, <1>5, <4>1, <4>2 DEF FlowsOn, Local, FlagsOK, RunTypeOK
      <4>4. pc[r] = "rescue-patch" /\ Patch(r, "failed_rollback_required")
        BY <1>1, <3>4, <4>3 DEF Local, FlagsOK, Planning, Refusing
      <4>5. QED
        BY <1>1, <2>4, <4>1, <4>4 DEF Patch, Recoverable, RunTypeOK, Eligible
    <3>5. QED
      BY <2>7, <3>2, <3>3, <3>4 DEF Closes
  <2>8. CASE Sweep(r)
    <3>1. m \in created
      BY <1>5, <2>8 DEF Sweep
    <3>2. PICK i \in todo[r] : /\ status' = [status EXCEPT ![i] = "superseded"]
                               /\ sweptBy' = [sweptBy EXCEPT ![i] = @ \cup {r}]
      BY <2>8 DEF Sweep
    <3>3. CASE i = runId[m]
      BY <1>1, <2>4, <3>2, <3>3 DEF Recoverable, RunTypeOK
    <3>4. CASE i # runId[m]
      BY <1>1, <2>3, <2>4, <3>1, <3>2, <3>4 DEF Recoverable, RunTypeOK
    <3>5. QED
      BY <3>3, <3>4
  <2>9. CASE Mutate(r) /\ UNCHANGED <<status, sweptBy, created>>
    BY <1>5, <2>3, <2>4, <2>9 DEF Recoverable
  <2>10. QED
    BY <2>5, <2>6, <2>7, <2>8, <2>9, LedgerCases
<1>9. QED
  BY <1>2, <1>3, <1>4, <1>5 DEF SnapshotsOK

\* They are always in order.
LEMMA SnapshotsAlways == RunSpec => [](FlowInv /\ SnapshotsOK)
<1>1. RunInit => SnapshotsOK
  BY DEF RunInit, SnapshotsOK
<1>2. FlowInv /\ SnapshotsOK /\ [RunNext]_runVars => SnapshotsOK'
  <2>1. CASE Expire \/ UNCHANGED runVars
    BY <2>1 DEF Expire, runVars, ledger, flags, SnapshotsOK, Recoverable
  <2>2. QED
    BY <2>1, SnapshotsStep, NextCases
<1>3. QED
  BY <1>1, <1>2, FlowInit, FlowStep, PTL DEF RunSpec

(***************************************************************************)
(* A launch that changed the workloads and has stopped can be rolled back, *)
(* or its run is complete, or the sweep of another run made its snapshot   *)
(* moot.                                                                   *)
(***************************************************************************)
THEOREM LaunchesStayRecoverable == RunSpec => []UnfinishedLaunchCanBeRolledBack
<1>1. FlowInv /\ SnapshotsOK => UnfinishedLaunchCanBeRolledBack
  BY DEF FlowInv, Local, FlagsOK, SnapshotsOK, Recoverable, UnfinishedLaunchCanBeRolledBack
<1>2. QED
  BY <1>1, SnapshotsAlways, PTL

-----------------------------------------------------------------------------
(***************************************************************************)
(* What the snapshots cover.                                               *)
(***************************************************************************)

\* A mutation is a stranger to the other ids only, and an owner's only.
LEMMA StrangersStep ==
  ASSUME RunTypeOK, NEW r \in Attempt, Act(r), Frame(r), NEW i \in Id
  PROVE  \/ Strangers(i)' = Strangers(i)
         \/ /\ pc[r] = "stage" /\ owner = r /\ i # runId[r]
            /\ UNCHANGED <<owner, status, late>>
            /\ Strangers(i)' \subseteq Strangers(i) \cup {r}
<1>1. CASE since' = since
  BY <1>1 DEF Strangers, Frame
<1>2. CASE pc[r] = "stage" /\ Mutate(r) /\ UNCHANGED <<owner, status, late>>
  BY <1>2 DEF Mutate, Strangers, Frame, RunTypeOK
<1>3. QED
  BY <1>1, <1>2, LedgerCases DEF ledger, Creates, Closes, Patch, Sweep

\* What was written late stays so.
LEMMA LateGrows == ASSUME NEW r \in Attempt, Act(r) PROVE late \subseteq late'
  BY LedgerCases DEF ledger, Creates, Closes, Patch, Sweep, Mutate

\* Who owns the facility after a step owned it before, or has just got it.
LEMMA OwnerStays ==
  ASSUME RunTypeOK, NEW r \in Attempt, Act(r), NEW m \in Attempt, owner' = m
  PROVE  owner = m \/ (m = r /\ pc[r] = "lock" /\ UNCHANGED created)
  BY OwnerCases

\* The steps of a run keep what the owner's snapshot covers.
LEMMA CoverStep ==
  ASSUME CoverInv, NEW r \in Attempt, Act(r)
  PROVE  CoverOK'
<1>1. /\ RunTypeOK /\ RunTypeOK' /\ Local(r) /\ Frame(r) /\ FlowsOn(r) /\ late \subseteq late'
      /\ SnapshotsOK /\ CoverOK /\ BaselinesCoverMutations
  BY ActType, Flows, LateGrows DEF CoverInv, FlowInv, Local
<1>2. ASSUME NEW m \in created', owner' = m PROVE Strangers(runId[m])' = {}
  <2>1. m \in Launch /\ m \in Attempt /\ runId' = runId /\ runId[m] \in Id
    BY <1>1 DEF RunTypeOK, Frame
  <2>2. owner = m
    BY <1>1, <1>2, <2>1, OwnerStays DEF Local, FlagsOK, Early
  <2>3. CASE m \in created
    BY <1>1, <2>1, <2>2, <2>3, StrangersStep DEF CoverOK
  <2>4. CASE m \notin created
    <3>1. Creates(r) /\ m = r
      BY <1>2, <2>4, LedgerCases DEF Creates, Closes, Sweep
    <3>2. since[runId[m]] = {} /\ since' = since
      BY <1>1, <2>1, <3>1 DEF Creates, Patch, SnapshotsOK
    <3>3. QED
      BY <2>1, <3>2 DEF Strangers
  <2>5. QED
    BY <2>3, <2>4
<1>3. ASSUME NEW m \in Launch \cup Teardown, owner' = m,
             pc'[m] \in {"guard", "stage", "sweep"},
             NEW i \in Id \ (late' \cup {runId[m]}),
             pc'[m] = "sweep" => i \notin todo'[m]
      PROVE  status'[i] \notin Eligible
  <2>1. m \in Attempt /\ owner = m
    BY <1>1, <1>3, OwnerStays DEF FlowsOn, List, Sweep
  <2>2. CASE m # r
    <3>1. status[i] \notin Eligible
      BY <1>1, <1>3, <2>1, <2>2 DEF Frame, CoverOK
    <3>2. CASE Creates(r) \/ Closes(r)
      BY <1>1, <1>3, <2>1, <2>2, <3>1, <3>2 DEF Creates, Closes, Patch, RunTypeOK
    <3>3. CASE Sweep(r)
      BY <1>1, <3>1, <3>3 DEF Sweep, RunTypeOK, Eligible
    <3>4. QED
      BY <3>1, <3>2, <3>3, LedgerCases DEF ledger
  <2>3. CASE m = r /\ pc[r] \in {"guard", "stage"}
    <3>1. status' = status
      BY <2>3, LedgerCases DEF ledger, Creates, Closes, Sweep
    <3>2. QED
      BY <1>1, <1>3, <2>1, <2>3, <3>1 DEF CoverOK
  <2>4. CASE m = r /\ List(r)
    <3>1. status' = status /\ (i \in Candidates(r) => pc'[r] = "sweep" /\ todo'[r] = Candidates(r))
      BY <1>1, <2>4, GotoMoves DEF List, ledger, RunTypeOK, RunLabel, Body
    <3>2. QED
      BY <1>3, <2>4, <3>1 DEF Candidates
  <2>5. CASE m = r /\ Sweep(r)
    <3>1. PICK j \in todo[r] : /\ status' = [status EXCEPT ![j] = "superseded"]
                               /\ todo' = [todo EXCEPT ![r] = @ \ {j}]
                               /\ \/ Goto(r, "sweep")
                                  \/ todo[r] = {j} /\ AfterSweep(r)
                                  \/ AnswerLost(r)
      BY <2>5, Zenon DEF Sweep
    <3>2. i \in todo[r] => i = j
      <4>1. CASE Goto(r, "sweep")
        <5>1. pc'[r] = "sweep"
          BY <1>1, <4>1, GotoMoves DEF RunLabel, Body
        <5>2. QED
          BY <1>1, <1>3, <2>5, <3>1, <5>1 DEF RunTypeOK
      <4>2. CASE AnswerLost(r)
        BY <1>1, <1>3, <2>5, <4>2, RaiseLocal DEF AnswerLost
      <4>3. QED
        BY <3>1, <4>1, <4>2
    <3>3. i # j => status[i] \notin Eligible
      BY <1>1, <1>3, <2>1, <2>5, <3>2 DEF CoverOK, Sweep
    <3>4. QED
      BY <1>1, <3>1, <3>3 DEF RunTypeOK, Eligible
  <2>6. QED
    BY <1>1, <1>3, <2>2, <2>3, <2>4, <2>5 DEF FlowsOn
<1>4. ASSUME NEW m \in Rollback, owner' = m, pc'[m] \in Restoring
      PROVE  runId[m] \in late' \/ Strangers(runId[m])' \cap (Launch \cup Teardown) = {}
  <2>1. m \in Attempt /\ owner = m /\ runId' = runId /\ runId[m] \in Id
    BY <1>1, <1>4, OwnerStays DEF FlowsOn, Restoring, RunTypeOK, Frame
  <2>2. CASE m # r
    <3>1. Strangers(runId[m])' = Strangers(runId[m])
      BY <1>1, <2>1, <2>2, StrangersStep
    <3>2. QED
      BY <1>1, <1>4, <2>1, <2>2, <3>1 DEF Frame, CoverOK, Restoring
  <2>3. CASE m = r
    <3>1. Strangers(runId[m])' = Strangers(runId[m])
      BY <1>1, <2>1, <2>3, StrangersStep
    <3>2. CASE pc[r] \in Restoring
      BY <1>1, <2>1, <2>3, <3>1, <3>2 DEF CoverOK, Restoring
    <3>3. CASE status[runId[r]] \in Eligible
      BY <1>1, <2>1, <2>3, <3>1, <3>3 DEF BaselinesCoverMutations
    <3>4. QED
      BY <1>1, <1>4, <2>3, <3>2, <3>3 DEF FlowsOn
  <2>4. QED
    BY <2>2, <2>3
<1>5. runId' = runId
  BY <1>1 DEF Frame
<1>6. QED
  BY <1>2, <1>3, <1>4, <1>5 DEF CoverOK, Restoring

\* They keep the other baselines covered.
LEMMA BaselinesStep ==
  ASSUME CoverInv, NEW r \in Attempt, Act(r)
  PROVE  BaselinesCoverMutations'
<1>1. /\ RunTypeOK /\ Local(r) /\ Frame(r) /\ late \subseteq late'
      /\ SnapshotsOK /\ CoverOK /\ BaselinesCoverMutations
  BY ActType, LateGrows DEF CoverInv, FlowInv, Local
<1>2. SUFFICES ASSUME NEW i \in Id \ late', status'[i] \in Eligible
               PROVE  Strangers(i)' \cap (Launch \cup Teardown) = {}
  BY DEF BaselinesCoverMutations
<1>3. CASE Strangers(i)' # Strangers(i)
  <2>1. /\ pc[r] = "stage" /\ owner = r /\ i # runId[r] /\ UNCHANGED <<status, late>>
        /\ Strangers(i)' \subseteq Strangers(i) \cup {r}
    BY <1>1, <1>3, StrangersStep
  <2>2. r \notin Launch \cup Teardown
    BY <1>1, <1>2, <2>1 DEF CoverOK
  <2>3. QED
    BY <1>1, <1>2, <2>1, <2>2 DEF BaselinesCoverMutations
<1>4. CASE Strangers(i)' = Strangers(i)
  <2>1. CASE status'[i] = status[i]
    BY <1>1, <1>2, <1>4, <2>1 DEF BaselinesCoverMutations
  <2>2. CASE status'[i] # status[i]
    <3>1. ~Sweep(r)
      BY <1>1, <1>2, <2>2 DEF Sweep, RunTypeOK, Eligible
    <3>2. (Creates(r) \/ Closes(r)) /\ i = runId[r]
      BY <1>1, <2>2, <3>1, LedgerCases DEF ledger, Creates, Closes, Patch, RunTypeOK
    <3>3. CASE Creates(r)
      BY <1>1, <1>4, <3>2, <3>3 DEF Creates, SnapshotsOK, Strangers
    <3>4. CASE Closes(r)
      <4>1. owner = r
        BY <1>2, <3>2, <3>4 DEF Closes, Patch
      <4>2. pc[r] \in {"rescue-patch", "terminal-patch"}
        BY <1>1, <1>2, <3>2, <3>4 DEF Closes, Patch, RunTypeOK, Eligible
      <4>3. CASE pc[r] = "rescue-patch"
        <5>1. r \in created
          BY <1>1, <4>3 DEF Local, KindOK, FlagsOK, Prepared
        <5>2. QED
          BY <1>1, <1>4, <3>2, <4>1, <5>1 DEF CoverOK
      <4>4. CASE pc[r] = "terminal-patch"
        <5>1. r \in Rollback
          BY <1>1, <4>4 DEF Local, KindOK
        <5>2. QED
          BY <1>1, <1>2, <1>4, <3>2, <4>1, <4>4, <5>1 DEF CoverOK
      <4>5. QED
        BY <4>2, <4>3, <4>4
    <3>5. QED
      BY <3>2, <3>3, <3>4
  <2>3. QED
    BY <2>1, <2>2
<1>5. QED
  BY <1>3, <1>4

(***************************************************************************)
(* A snapshot a rollback may still restore is not older than the work of a *)
(* launch or a teardown of another run id, unless a run that had lost the  *)
(* facility wrote it.                                                      *)
(***************************************************************************)
THEOREM BaselinesStayCovered == RunSpec => []BaselinesCoverMutations
<1>1. RunInit => CoverOK /\ BaselinesCoverMutations
  BY DEF RunInit, LeaseInit, CoverOK, BaselinesCoverMutations, Eligible
<1>2. CoverInv /\ [RunNext]_runVars => CoverOK' /\ BaselinesCoverMutations'
  <2>1. CASE Expire \/ UNCHANGED runVars
    BY <2>1 DEF CoverInv, Expire, Age, runVars, leaseVars, ledger, flags, CoverOK,
         BaselinesCoverMutations,
         Strangers
  <2>2. QED
    BY <2>1, CoverStep, BaselinesStep, NextCases
<1>3. CoverInv => BaselinesCoverMutations
  BY DEF CoverInv
<1>4. QED
  BY <1>1, <1>2, <1>3, SnapshotsAlways, PTL DEF RunSpec, CoverInv

-----------------------------------------------------------------------------
(***************************************************************************)
(* What a silent end means.                                                *)
(***************************************************************************)

\* A run past its last stage.
Past == {"complete", "run-complete", "finish"}

\* A run that marked itself has said so, but for the two steps between; a run past
\* its last stage has changed the workloads; where a run may be that has said
\* nothing, without failing calls.
SilentOK(r) ==
  /\ r \in marked => markers[r] # <<>> \/ pc[r] \in {"refuse-check", "refuse-patch", "killed"}
  /\ pc[r] \in Past => r \in touched
  /\ pc[r] = "finish" => r \notin Rollback
  /\ r \notin Switch /\ markers[r] = <<>> =>
       \/ pc[r] \in Quiet \cup {"killed"}
       \/ pc[r] \in {"always", "done"} /\ r \in touched \ Rollback
       \/ pc[r] = "done" /\ r \in Rollback \ touched

\* A launch that ends as it should, and a snapshot that bears it out.
Ended(r) ==
  r \in Launch /\ (pc[r] = "finish" \/ (pc[r] \in {"always", "done"} /\ markers[r] = <<>>))

Settled(i) == status[i] \in Stale \/ i \in late

\* The snapshot of a launch that ended is settled, and no rollback that owns the
\* facility restores it.
EndedOK ==
  /\ \A r \in Launch : Ended(r) => Settled(runId[r])
  /\ \A m \in Rollback : owner = m /\ pc[m] \in Restoring =>
       \A r \in Launch : Ended(r) /\ runId[r] = runId[m] => runId[m] \in late

SilentInv == FlowInv /\ SnapshotsOK /\ EndedOK /\ \A r \in Attempt : SilentOK(r)

\* Who emits has said something.
LEMMA EmitHeard ==
  ASSUME RunTypeOK, NEW r \in Attempt, NEW t \in Token, Emit(r, t)
  PROVE  markers'[r] # <<>>
<1>1. markers[r] \in Seq(Token) /\ markers'[r] = Append(markers[r], t)
  BY EmitMoves DEF RunTypeOK
<1>2. QED
  BY <1>1

\* A run that has said nothing and is not about to refuse has not marked itself.
LEMMA QuietUnmarked ==
  ASSUME NEW r \in Attempt, Local(r), SilentOK(r),
         pc[r] \in Quiet \ {"refuse-check", "refuse-patch"}
  PROVE  r \notin marked /\ markers[r] = <<>>
  BY DEF Local, MarkersOK, SilentOK, Quiet, Early, Body

\* A run that has said something.
LEMMA HeardSilent ==
  ASSUME NEW r \in Attempt, markers'[r] # <<>>, pc'[r] \notin Past
  PROVE  SilentOK(r)'
  BY DEF SilentOK, Past

\* A run on its way that has said nothing.
LEMMA OnwardSilent ==
  ASSUME NEW r \in Attempt, r \notin marked',
         pc'[r] \in (Quiet \cup {"killed"}) \ Past \/ r \in Switch, pc'[r] \notin Past
  PROVE  SilentOK(r)'
  BY DEF SilentOK, Past

\* A failure says something, unless the rescue is about to.
LEMMA RaiseSilent ==
  ASSUME RunTypeOK, NEW r \in Attempt, Local(r), SilentOK(r), Raise(r), UNCHANGED marked,
         pc[r] \in Body \cup {"finish", "refuse-release", "rescue-release", "terminal-release"}
  PROVE  SilentOK(r)'
<1> USE DEF RunLabel, Token, Rescue, Body, Refusing
<1>1. CASE pc[r] \in Body \cup {"finish"}
  <2>1. r \notin marked
    BY <1>1, QuietUnmarked DEF Quiet, Early
  <2>2. CASE Goto(r, "rescue-check")
    BY <2>1, <2>2, GotoMoves, OnwardSilent DEF Quiet, Past
  <2>3. CASE Emit(r, "rollback_incomplete") /\ Goto(r, "rescue-release")
    BY <2>3, GotoMoves, EmitHeard, HeardSilent DEF Past
  <2>4. CASE r \in Switch /\ Goto(r, "rescue-release")
    BY <2>1, <2>4, GotoMoves, OnwardSilent DEF Past
  <2>5. QED
    BY <1>1, <2>1, <2>2, <2>3, <2>4 DEF Raise
<1>2. CASE pc[r] \in {"refuse-release", "terminal-release"}
  <2>1. markers[r] # <<>> /\ r \notin Switch
    BY <1>2 DEF Local, KindOK, FlagsOK, SilentOK, Quiet, Early
  <2>2. CASE Goto(r, AfterMarked(r)) /\ UNCHANGED markers
    BY <2>1, <2>2, GotoMoves, HeardSilent DEF AfterMarked, Past
  <2>3. CASE Emit(r, "rollback_incomplete") /\ Goto(r, "rescue-release")
    BY <2>3, GotoMoves, EmitHeard, HeardSilent DEF Past
  <2>4. QED
    BY <1>2, <2>1, <2>2, <2>3 DEF Raise, Local, KindOK, FlagsOK
<1>3. CASE pc[r] = "rescue-release"
  <2>1. pc'[r] = "always" /\ markers' = markers
    BY <1>3, GotoMoves DEF Raise
  <2>2. CASE markers[r] # <<>>
    BY <2>1, <2>2, HeardSilent DEF Past
  <2>3. CASE markers[r] = <<>>
    BY <1>3, <2>1, <2>3 DEF SilentOK, Quiet, Early, Past
  <2>4. QED
    BY <2>2, <2>3
<1>4. QED
  BY <1>1, <1>2, <1>3

\* A refusal marks itself and says so, now or after its patch.
LEMMA RefuseSilent ==
  ASSUME RunTypeOK, NEW r \in Attempt, Refuse(r)
  PROVE  SilentOK(r)'
<1>1. CASE r \in created
  <2>1. pc'[r] = "refuse-check"
    BY <1>1, GotoMoves DEF Refuse, RunLabel, Refusing
  <2>2. QED
    BY <2>1 DEF SilentOK, Quiet, Past
<1>2. CASE r \notin created
  BY <1>2, GotoMoves, EmitHeard, HeardSilent DEF Refuse, RunLabel, Refusing, Token, Past
<1>3. QED
  BY <1>1, <1>2

\* Nobody gives the facility back in silence but a run that has reached its end.
LEMMA ReleaseSilent ==
  ASSUME "api" \notin Faults, RunTypeOK, NEW r \in Attempt, Local(r), SilentOK(r),
         \/ pc[r] \in {"finish", "terminal-release", "rescue-release"} /\ ReleaseLock(r, "always")
         \/ pc[r] = "refuse-release" /\ ReleaseLock(r, AfterMarked(r))
         \/ pc[r] = "always" /\ ReleaseLock(r, "done"),
         UNCHANGED marked
  PROVE  SilentOK(r)'
<1> USE DEF RunLabel, Rescue
<1>1. UNCHANGED touched
  BY DEF ReleaseLock
<1>2. CASE Raise(r) /\ pc[r] # "always"
  BY <1>2, RaiseSilent
<1>3. CASE Goto(r, AfterMarked(r)) /\ pc[r] = "refuse-release" /\ UNCHANGED markers
  <2>1. markers[r] # <<>>
    BY <1>3 DEF Local, FlagsOK, Refusing, SilentOK
  <2>2. QED
    BY <1>3, <2>1, GotoMoves, HeardSilent DEF AfterMarked, Past
<1>4. CASE /\ UNCHANGED markers
           /\ \/ pc[r] = "always" /\ Goto(r, "done")
              \/ pc[r] \in {"finish", "terminal-release", "rescue-release"} /\ Goto(r, "always")
  <2>1. \/ pc[r] = "always" /\ pc'[r] = "done"
        \/ pc[r] \in {"finish", "terminal-release", "rescue-release"} /\ pc'[r] = "always"
    BY <1>4, GotoMoves
  <2>2. CASE markers[r] # <<>>
    BY <1>4, <2>1, <2>2, HeardSilent DEF Past
  <2>3. CASE markers[r] = <<>>
    <3>1. r \notin marked
      BY <2>1, <2>3 DEF SilentOK
    <3>2. r \in Switch \/ r \in touched \ Rollback
      BY <2>1, <2>3 DEF SilentOK, Quiet, Early, Body, Past
    <3>3. QED
      BY <1>1, <1>4, <2>1, <3>1, <3>2 DEF SilentOK, Past
  <2>4. QED
    BY <2>2, <2>3
<1>5. CASE Raise(r) /\ pc[r] = "always"
  BY <1>4, <1>5 DEF Raise, Body, Refusing
<1>6. QED
  BY <1>2, <1>3, <1>4, <1>5 DEF ReleaseLock, ThenGoto, AnswerLost

\* Its own steps.
LEMMA SilentStep ==
  ASSUME "api" \notin Faults, RunTypeOK, NEW r \in Attempt, Local(r), SilentOK(r), Act(r)
  PROVE  SilentOK(r)'
<1> USE DEF RunLabel, Token, Rescue, Body, Refusing, Past, ledger, flags
<1>1. ASSUME NEW l \in RunLabel \ Past, Goto(r, l), NEW t \in Token, Emit(r, t) PROVE SilentOK(r)'
  BY <1>1, GotoMoves, EmitHeard, HeardSilent
<1>2. ASSUME NEW l \in RunLabel \ Past, Goto(r, l), l \in Quiet \cup {"killed"} \/ r \in Switch,
             r \notin marked'
      PROVE  SilentOK(r)'
  BY <1>2, GotoMoves, OnwardSilent
<1>3. pc[r] \in Quiet \ {"refuse-check", "refuse-patch"} => r \notin marked /\ markers[r] = <<>>
  BY QuietUnmarked
<1> USE DEF Quiet, Early
<1>4. ASSUME NEW l \in {"list", "stage", "run-complete", "terminal-patch"}, Checkpoint(r, l),
             pc[r] \in {"sweep-guard", "guard", "complete"}, l = "run-complete" => pc[r] = "complete"
      PROVE  SilentOK(r)'
  <2>1. CASE Goto(r, l) /\ UNCHANGED <<marked, touched>>
    <3>1. pc'[r] = l /\ r \notin marked'
      BY <1>3, <1>4, <2>1, GotoMoves
    <3>2. l = "run-complete" => r \in touched'
      BY <1>4, <2>1 DEF SilentOK
    <3>3. QED
      BY <3>1, <3>2 DEF SilentOK
  <2>2. CASE Emit(r, "lock-lost") /\ Goto(r, AfterMarked(r))
    BY <1>1, <2>2 DEF AfterMarked
  <2>3. CASE Raise(r) /\ UNCHANGED marked
    BY <1>4, <2>3, RaiseSilent
  <2>4. QED
    BY <1>4, <2>1, <2>2, <2>3 DEF Checkpoint
<1>10. CASE Start(r)
  <2>1. CASE Goto(r, "lock")
    BY <1>2, <1>3, <1>10, <2>1 DEF Start
  <2>2. CASE Goto(r, "done") /\ Emit(r, "refused")
    BY <1>1, <2>2
  <2>3. CASE Goto(r, "done") /\ r \in Switch
    BY <1>2, <1>3, <1>10, <2>3 DEF Start
  <2>4. CASE Goto(r, "done") /\ r \in Rollback
    <3>1. pc'[r] = "done" /\ r \notin touched' /\ r \notin marked'
      BY <1>3, <1>10, <2>4, GotoMoves DEF Start, Local, FlagsOK, Planning
    <3>2. QED
      BY <2>4, <3>1 DEF SilentOK
  <2>5. QED
    BY <1>10, <2>1, <2>2, <2>3, <2>4 DEF Start
<1>11. CASE Acquire(r)
  <2>1. CASE UNCHANGED <<pc, markers>>
    BY <1>11, <2>1 DEF Acquire, SilentOK
  <2>2. QED
    BY <1>1, <1>2, <1>3, <1>11, <2>1 DEF Acquire
<1>12. CASE Verify(r)
  <2>1. CASE Goto(r, "done") /\ (r \in Switch \/ Emit(r, "refused"))
    BY <1>1, <1>2, <1>3, <1>12, <2>1 DEF Verify
  <2>2. CASE Confirm(r)
    <3>1. pc'[r] \in {"snapshot", "sweep-guard", "read", "stage"}
      BY <1>12, <2>2 DEF Verify, RunTypeOK, Confirm
    <3>2. QED
      BY <1>3, <1>12, <3>1 DEF Verify, SilentOK
  <2>3. QED
    BY <1>12, <2>1, <2>2 DEF Verify
<1>13. CASE Snapshot(r) \/ Capacity(r) \/ Read(r)
  BY <1>2, <1>3, <1>13, RefuseSilent DEF Snapshot, Capacity, Read, AnswerLost
<1>14. CASE SweepGuard(r) BY <1>4, <1>14 DEF SweepGuard
<1>15. CASE Guard(r) BY <1>4, <1>15 DEF Guard
<1>16. CASE Complete(r) BY <1>4, <1>16 DEF Complete
<1>17. CASE List(r) \/ Sweep(r)
  <2>1. Goto(r, "sweep") \/ Goto(r, IF r \in Launch THEN "guard" ELSE "stage")
    <3>1. CASE List(r)
      BY <3>1 DEF List, AfterSweep
    <3>2. CASE Sweep(r)
      BY <3>2, Zenon DEF Sweep, AfterSweep, AnswerLost
    <3>3. QED
      BY <1>17, <3>1, <3>2
  <2>2. r \notin marked'
    BY <1>3, <1>17 DEF List, Sweep
  <2>3. QED
    BY <1>2, <2>1, <2>2
<1>18. CASE Stage(r)
  <2>1. r \notin marked' /\ UNCHANGED marked /\ markers[r] = <<>>
    BY <1>3, <1>18 DEF Stage
  <2>2. CASE Raise(r)
    BY <1>18, <2>1, <2>2, RaiseSilent DEF Stage
  <2>3. CASE Mutate(r) /\ Goto(r, IF r \in Switch THEN "stage" ELSE "guard")
    BY <1>2, <2>1, <2>3
  <2>4. CASE Mutate(r) /\ Goto(r, IF r \in Launch \cup Rollback THEN "complete" ELSE "finish")
    <3>1. /\ pc'[r] = IF r \in Launch \cup Rollback THEN "complete" ELSE "finish"
          /\ r \in touched'
      BY <2>4, GotoMoves DEF Mutate
    <3>2. QED
      BY <2>1, <3>1 DEF SilentOK
  <2>5. QED
    BY <1>18, <2>2, <2>3, <2>4 DEF Stage
<1>19. CASE RunComplete(r)
  <2>1. pc'[r] = "finish" /\ r \notin marked' /\ r \in touched' /\ r \in Launch
    BY <1>3, <1>19, GotoMoves DEF RunComplete, ThenGoto, AnswerLost, SilentOK, Local, KindOK
  <2>2. QED
    BY <2>1 DEF SilentOK
<1>20. CASE Finish(r) \/ TerminalRelease(r) \/ RescueRelease(r) \/ RefuseRelease(r) \/ Always(r)
  BY <1>20, ReleaseSilent DEF Finish, TerminalRelease, RescueRelease, RefuseRelease, Always
<1>21. CASE TerminalPatch(r) \/ RefusePatch(r) \/ RescuePatch(r)
  BY <1>1, <1>21 DEF TerminalPatch, RefusePatch, RescuePatch, AnswerLost, Outcome
<1>22. CASE RefuseCheck(r)
  <2>1. CASE Goto(r, "refuse-patch")
    <3>1. pc'[r] = "refuse-patch"
      BY <2>1, GotoMoves
    <3>2. QED
      BY <3>1 DEF SilentOK
  <2>2. QED
    BY <1>1, <1>22, <2>1 DEF RefuseCheck
<1>23. CASE RescueCheck(r)
  BY <1>1, <1>2, <1>3, <1>23 DEF RescueCheck, Outcome
<1>24. CASE Kill(r)
  <2>1. pc'[r] = "killed"
    BY <1>24, GotoMoves DEF Kill
  <2>2. QED
    BY <2>1 DEF SilentOK
<1>25. ~CallFails(r)
  BY DEF CallFails
<1>30. QED
  BY <1>10, <1>11, <1>12, <1>13, <1>14, <1>15, <1>16, <1>17, <1>18, <1>19, <1>20, <1>21, <1>22,
     <1>23, <1>24, <1>25 DEF Act

\* A launch reaches its end by run_complete only.
LEMMA EndedFrom ==
  ASSUME "api" \notin Faults, RunTypeOK, NEW r \in Launch, Local(r), SilentOK(r), Act(r), Ended(r)'
  PROVE  Ended(r) \/ RunComplete(r)
<1> SUFFICES ASSUME ~Ended(r), ~RunComplete(r) PROVE FALSE
  OBVIOUS
<1> USE DEF RunLabel, Token, Rescue, Body, Refusing
<1>1. r \in Attempt /\ r \notin Teardown \cup Rollback \cup Switch
  OBVIOUS
<1>2. ASSUME NEW l \in RunLabel \ {"finish", "always", "done"}, Goto(r, l) PROVE FALSE
  BY <1>1, <1>2, GotoMoves DEF Ended
<1>3. ASSUME NEW l \in RunLabel \ {"finish"}, Goto(r, l), NEW t \in Token, Emit(r, t) PROVE FALSE
  BY <1>1, <1>3, GotoMoves, EmitHeard DEF Ended
<1>4. ASSUME NEW l \in RunLabel \ {"finish"}, Goto(r, l), UNCHANGED markers, markers[r] # <<>> PROVE FALSE
  BY <1>1, <1>4, GotoMoves DEF Ended
<1>5. pc[r] \in Quiet \ {"refuse-check", "refuse-patch"} => r \notin marked /\ markers[r] = <<>>
  BY <1>1, QuietUnmarked
<1> USE DEF Quiet, Early
<1>6. ASSUME Raise(r), pc[r] \in Body PROVE FALSE
  BY <1>1, <1>2, <1>5, <1>6 DEF Raise
<1>7. ASSUME NEW l \in {"list", "stage", "run-complete", "terminal-patch"}, Checkpoint(r, l), pc[r] \in Body
      PROVE  FALSE
  BY <1>2, <1>3, <1>6, <1>7 DEF Checkpoint, AfterMarked
<1>8. ASSUME Refuse(r) PROVE FALSE
  BY <1>2, <1>8 DEF Refuse
<1>10. CASE Start(r) BY <1>1, <1>2, <1>3, <1>10 DEF Start
<1>11. CASE Acquire(r)
  <2>1. ~UNCHANGED pc
    BY <1>11 DEF Acquire, Ended
  <2>2. QED
    BY <1>1, <1>2, <1>3, <1>11, <2>1 DEF Acquire
<1>12. CASE Verify(r)
  <2>1. CASE Confirm(r)
    <3>1. pc'[r] = "snapshot"
      BY <1>1, <1>12, <2>1 DEF Verify, RunTypeOK, Confirm
    <3>2. QED
      BY <3>1 DEF Ended
  <2>2. QED
    BY <1>1, <1>3, <1>12, <2>1 DEF Verify
<1>13. CASE Snapshot(r) \/ Capacity(r) \/ Read(r)
  BY <1>2, <1>8, <1>13 DEF Snapshot, Capacity, Read, AnswerLost
<1>14. CASE SweepGuard(r) \/ Guard(r) \/ Complete(r)
  BY <1>7, <1>14 DEF SweepGuard, Guard, Complete
<1>15. CASE List(r)
  BY <1>2, <1>15 DEF List, AfterSweep
<1>16. CASE Sweep(r)
  <2>1. Goto(r, "sweep") \/ Goto(r, "guard")
    BY <1>16, Zenon DEF Sweep, AfterSweep, AnswerLost
  <2>2. QED
    BY <1>2, <2>1
<1>17. CASE Stage(r)
  BY <1>1, <1>2, <1>6, <1>17 DEF Stage
<1>18. CASE Finish(r) BY <1>18 DEF Finish, Ended
<1>19. CASE RescueRelease(r) \/ RefuseRelease(r) \/ Always(r)
  <2>1. /\ pc[r] \in {"rescue-release", "refuse-release", "always"}
        /\ ReleaseLock(r, "always") \/ ReleaseLock(r, AfterMarked(r)) \/ ReleaseLock(r, "done")
    BY <1>19 DEF RescueRelease, RefuseRelease, Always
  <2>2. markers[r] # <<>>
    BY <1>1, <2>1 DEF SilentOK, Ended, Past
  <2>3. CASE Raise(r)
    BY <1>1, <1>3, <1>4, <2>1, <2>2, <2>3 DEF Raise, AfterMarked, Local, FlagsOK
  <2>4. QED
    BY <1>4, <2>1, <2>2, <2>3 DEF ReleaseLock, ThenGoto, AnswerLost, AfterMarked
<1>20. CASE TerminalPatch(r) \/ TerminalRelease(r)
  BY <1>1, <1>20 DEF TerminalPatch, TerminalRelease, Local, KindOK
<1>21. CASE RefusePatch(r) \/ RescuePatch(r)
  BY <1>3, <1>21 DEF RefusePatch, RescuePatch, AnswerLost, Outcome
<1>22. CASE RefuseCheck(r) \/ RescueCheck(r)
  BY <1>2, <1>3, <1>22 DEF RefuseCheck, RescueCheck, Outcome
<1>23. CASE Kill(r)
  BY <1>2, <1>23 DEF Kill
<1>24. ~CallFails(r)
  BY DEF CallFails
<1>30. QED
  BY <1>10, <1>11, <1>12, <1>13, <1>14, <1>15, <1>16, <1>17, <1>18, <1>19, <1>20, <1>21, <1>22,
     <1>23, <1>24 DEF Act

\* The snapshot of a launch that ended stays settled.
LEMMA EndedStep ==
  ASSUME "api" \notin Faults, SilentInv, NEW r \in Attempt, Act(r)
  PROVE  EndedOK'
<1>1. /\ RunTypeOK /\ RunTypeOK' /\ Local(r) /\ Frame(r) /\ FlowsOn(r) /\ late \subseteq late'
      /\ SnapshotsOK /\ EndedOK /\ runId' = runId
  BY ActType, Flows, LateGrows DEF SilentInv, FlowInv, Local, Frame
<1>2. ASSUME NEW m \in Launch, Ended(m)' PROVE Ended(m) \/ (m = r /\ RunComplete(r))
  <2>1. CASE m = r
    BY <1>1, <1>2, <2>1, EndedFrom DEF SilentInv
  <2>2. CASE m # r
    BY <1>1, <1>2, <2>2 DEF Frame, Ended
  <2>3. QED
    BY <2>1, <2>2
<1>3. ASSUME NEW m \in Launch, Ended(m)' PROVE Settled(runId[m])'
  <2>1. m \in Attempt /\ runId[m] \in Id
    BY <1>1 DEF RunTypeOK
  <2>2. CASE m = r /\ RunComplete(r)
    BY <1>1, <2>1, <2>2 DEF RunComplete, Patch, Settled, Stale, RunTypeOK
  <2>3. CASE Ended(m)
    <3>1. Settled(runId[m]) /\ m \in created
      BY <1>1, <2>1, <2>3 DEF SilentInv, FlowInv, EndedOK, SilentOK, Ended, Local, FlagsOK, Past,
           Quiet, Early, Body
    <3>2. CASE runId[m] \in late
      BY <1>1, <3>2 DEF Settled
    <3>3. CASE status[runId[m]] \in Stale
      <4>1. CASE status'[runId[m]] = status[runId[m]]
        BY <1>1, <3>3, <4>1 DEF Settled
      <4>2. CASE Sweep(r)
        BY <1>1, <2>1, <3>3, <4>2 DEF Sweep, Settled, Stale, RunTypeOK
      <4>3. CASE Creates(r)
        BY <1>1, <2>1, <3>3, <4>1, <4>3 DEF Creates, Patch, RunTypeOK, Stale
      <4>4. CASE Closes(r) /\ runId[m] = runId[r]
        <5>1. CASE Patch(r, "run_complete") \/ Patch(r, "superseded")
          BY <1>1, <2>1, <4>4, <5>1 DEF Patch, Settled, Stale, RunTypeOK
        <5>2. CASE pc[r] = "rescue-patch"
          <6>1. r \in created
            BY <1>1, <5>2 DEF Local, KindOK, FlagsOK, Prepared
          <6>2. m = r
            BY <1>1, <3>1, <4>4, <6>1 DEF SnapshotsOK
          <6>3. QED
            BY <2>3, <5>2, <6>2 DEF Ended
        <5>3. CASE pc[r] = "terminal-patch" /\ Patch(r, "rollback_incomplete")
          <6>1. r \in Rollback
            BY <1>1, <5>3 DEF Local, KindOK
          <6>2. runId[m] \in late'
            BY <1>1, <2>3, <4>4, <5>3, <6>1 DEF EndedOK, Restoring, Patch
          <6>3. QED
            BY <1>1, <6>2 DEF Settled
        <5>4. QED
          BY <4>4, <5>1, <5>2, <5>3 DEF Closes
      <4>5. CASE Closes(r) /\ runId[m] # runId[r]
        BY <1>1, <2>1, <4>1, <4>5 DEF Closes, Patch, RunTypeOK
      <4>6. QED
        BY <4>1, <4>2, <4>3, <4>4, <4>5, LedgerCases DEF ledger
    <3>4. QED
      BY <3>1, <3>2, <3>3 DEF Settled
  <2>4. QED
    BY <1>2, <1>3, <2>2, <2>3
<1>4. ASSUME NEW m \in Rollback, owner' = m, pc'[m] \in Restoring,
             NEW n \in Launch, Ended(n)', runId[n] = runId[m]
      PROVE  runId[m] \in late'
  <2>1. m \in Attempt /\ owner = m
    BY <1>1, <1>4, OwnerStays DEF FlowsOn, Restoring
  <2>2. CASE n = r /\ RunComplete(r)
    <3>1. owner # r /\ Patch(r, "run_complete")
      BY <2>1, <2>2 DEF RunComplete
    <3>2. QED
      BY <1>4, <2>2, <3>1 DEF Patch
  <2>3. CASE Ended(n) /\ pc[m] \in Restoring
    BY <1>1, <1>4, <2>1, <2>3 DEF EndedOK
  <2>4. CASE Ended(n) /\ pc[m] \notin Restoring
    <3>1. m = r
      BY <1>1, <1>4, <2>1, <2>4 DEF Frame
    <3>2. status[runId[n]] \in Eligible /\ late' = late
      BY <1>1, <1>4, <2>4, <3>1 DEF FlowsOn, ledger
    <3>3. QED
      BY <1>1, <1>4, <2>4, <3>2 DEF EndedOK, Settled, Eligible, Stale
  <2>5. QED
    BY <1>2, <1>4, <2>2, <2>3, <2>4
<1>5. QED
  BY <1>1, <1>3, <1>4 DEF EndedOK

(***************************************************************************)
(* Without failing calls, a launch that ended without a marker changed the *)
(* workloads and left a terminal snapshot, unless a run without the        *)
(* facility wrote it; a teardown that ended so changed the workloads, and  *)
(* a rollback that ended so never touched them (gate_rescue.yml,           *)
(* _refuse_pre_mutation.yml, launch_success.yml).                          *)
(***************************************************************************)
THEOREM SilentEndsAreGood ==
  ASSUME "api" \notin Faults
  PROVE  RunSpec => []SilenceMeansSuccess
<1>1. RunInit => EndedOK /\ \A r \in Attempt : SilentOK(r)
  BY DEF RunInit, EndedOK, Ended, SilentOK, Past, Restoring, Quiet, Early
<1>2. SilentInv /\ [RunNext]_runVars => EndedOK' /\ (\A r \in Attempt : SilentOK(r))'
  <2> SUFFICES ASSUME SilentInv, [RunNext]_runVars
               PROVE  EndedOK' /\ (\A r \in Attempt : SilentOK(r))'
    OBVIOUS
  <2>1. CASE Expire \/ UNCHANGED runVars
    BY <2>1 DEF SilentInv, Expire, Age, runVars, leaseVars, ledger, flags, EndedOK, Ended, Settled,
         SilentOK
  <2>2. ASSUME NEW r \in Attempt, Act(r) PROVE EndedOK' /\ (\A m \in Attempt : SilentOK(m))'
    <3>1. RunTypeOK /\ Local(r) /\ Frame(r) /\ SilentOK(r)'
      BY <2>2, ActType, SilentStep DEF SilentInv, FlowInv, Local
    <3>2. ASSUME NEW m \in Attempt \ {r} PROVE SilentOK(m)'
      BY <3>1, <3>2 DEF SilentInv, Frame, SilentOK
    <3>3. QED
      BY <2>2, <3>1, <3>2, EndedStep
  <2>3. QED
    BY <2>1, <2>2, NextCases
<1>3. SilentInv => SilenceMeansSuccess
  <2> SUFFICES ASSUME SilentInv, NEW r \in Attempt \ Switch, pc[r] = "done", markers[r] = <<>>
               PROVE  /\ r \in touched <=> r \notin Rollback
                      /\ r \in Launch => status[runId[r]] \in Stale \/ runId[r] \in late
    BY DEF SilenceMeansSuccess
  <2>1. r \in touched <=> r \notin Rollback
    BY DEF SilentInv, SilentOK, Quiet, Early, Body
  <2>2. r \in Launch => status[runId[r]] \in Stale \/ runId[r] \in late
    BY DEF SilentInv, EndedOK, Ended, Settled
  <2>3. QED
    BY <2>1, <2>2
<1>4. QED
  BY <1>1, <1>2, <1>3, SnapshotsAlways, PTL DEF RunSpec, SilentInv
=============================================================================
