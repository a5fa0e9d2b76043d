---------------------------- MODULE SwitchProofs ----------------------------
(***************************************************************************)
(* Theorems of Switch, for every set of runs and sources, every number of  *)
(* polls and restarts and every combination of faults.                     *)
(***************************************************************************)
EXTENDS Switch, FacilityLeaseProofs, TLAPS

USE SwitchAssumption, NoOneAssumption
USE DEF Fresh

-----------------------------------------------------------------------------
(***************************************************************************)
(* The inductive invariant: where each run is, with which flags and events *)
(* (Local), and what the run that owns the facility knows of the cluster   *)
(* (Informed), which nobody else may change under it.                      *)
(***************************************************************************)

\* Which kind of run gets where.
Switching == Reads \cup Quiesced \cup {"quiesce", "conclude", "fail", "final-readback"}

KindOK(r) ==
  /\ pc[r] \in Launching => r \in LaunchRun
  /\ pc[r] \in Switching => r \in SwitchRun

\* Where a run has not written yet, where it has not upgraded yet.
Untouched == {"idle", "lock", "verify", "quiesce"} \cup Reads
Unapplied == Untouched \cup {"quiesce-endpoint", "upgrade"}

FlagsOK(r) ==
  /\ r \in emitted => pc[r] \in {"fail", "rescue", "always", "done", "killed"}
  /\ pc[r] = "fail" => r \in emitted
  /\ pc[r] \in Untouched => r \notin touched
  /\ pc[r] \in Unapplied => r \notin applied

\* Where a switch has not emitted its event yet, and where it has.
Silent == {"idle", "lock", "verify", "release"} \cup (Body \ {"fail"})
Spoken == {"fail", "rescue", "always", "done"}

EventsOK(r) ==
  /\ r \in LaunchRun => events[r] = <<>>
  /\ pc[r] \in Silent => events[r] = <<>>
  /\ r \in SwitchRun => Len(events[r]) <= 1
  /\ r \in SwitchRun /\ pc[r] \in Spoken => Len(events[r]) = 1

Local(r) == KindOK(r) /\ FlagsOK(r) /\ EventsOK(r)

\* What a switch that quiesced a settled viewer knows until it selects: a pod of another
\* flow than the target's has published before, and no pod of a third flow is to come.
Repointing == {"upgrade", "poll-deploy", "poll-coord", "select"}
Awaiting(r) ==
  /\ coord.endpoint \in {NoSource, target[r]}
  /\ pod.flow = target[r] \/ pod.published
  /\ spec \in {pod.flow, target[r]}

\* What a run that owns the facility knows of the cluster.
Informed(r) ==
  /\ pc[r] \in {"chart-resolve", "baseline-capture", "quiesce", "launch-guard", "launch-patch"}
       => base[r].active = coord.active
  /\ pc[r] \in Quiesced => coord.active = NoSource
  /\ pc[r] \in {"poll-deploy", "poll-coord", "select"} /\ r \in applied => spec = target[r]
  /\ pc[r] = "poll-coord" /\ checks[r] => pod.flow = spec
  /\ pc[r] = "select" => pod.flow = spec /\ Fresh
  /\ pc[r] \in Repointing /\ r \in settled => Awaiting(r)
  /\ pc[r] \in {"verify-deploy", "verify-coord"} /\ checks[r] => Last(revs) = base[r].flow
  /\ pc[r] = "verify-coord" /\ checks[r] => spec = base[r].flow
  /\ pc[r] = "restore" => /\ checks[r] /\ Fresh /\ base[r].active # NoSource
                          /\ Last(revs) = base[r].flow /\ spec = base[r].flow
  /\ pc[r] = "conclude" => IF checks[r]
                             THEN /\ coord.active = base[r].active /\ Fresh
                                  /\ Last(revs) = base[r].flow /\ spec = base[r].flow
                             ELSE coord.active = NoSource

FlowInv == SwitchTypeOK /\ \A r \in Attempt : Local(r)

\* Only a run past its lock call owns the facility, and as long as nobody writes
\* without owning it, the owner stays informed.
OwnerOK ==
  \A r \in Attempt : owner = r =>
    /\ pc[r] \notin {"idle", "lock"}
    /\ strays = {} => Informed(r)

SwitchInv == FlowInv /\ OwnerOK

-----------------------------------------------------------------------------
(***************************************************************************)
(* Type correctness.                                                       *)
(***************************************************************************)

\* A step of one run.
Act(r) ==
  \/ Start(r) \/ Acquire(r) \/ Verify(r)
  \/ ReadCoordinator(r) \/ ResolveChart(r) \/ CaptureBaseline(r)
  \/ QuiesceActive(r) \/ QuiesceEndpoint(r) \/ Upgrade(r)
  \/ PollDeploy(r) \/ PollCoord(r)
  \/ RollBack(r) \/ VerifyValues(r) \/ VerifyDeploy(r) \/ VerifyCoord(r)
  \/ Restore(r) \/ Conclude(r) \/ Fail(r)
  \/ Select(r) \/ FinalReadback(r) \/ Succeed(r) \/ Rescue(r) \/ Always(r)
  \/ LaunchRead(r) \/ LaunchGuard(r) \/ LaunchPatch(r)
  \/ CallFails(r) \/ Kill(r)

\* A step of the viewer.
View == Replace \/ Publish \/ BecomeReady \/ Restart

\* It moves one run to a label, and emits at most its events.
Moves(r) ==
  /\ pc' \in [Attempt -> SwitchLabel]
  /\ events' \in [Attempt -> Seq([token : Token, detail : Stage \cup {"none"}])]
  /\ believers' \subseteq Attempt
  /\ \A m \in Attempt \ {r} : pc'[m] = pc[m] /\ events'[m] = events[m]

\* The history of one run, growing.
Remembers(r) ==
  /\ touched' \cup applied' \cup settled' \cup strays' \subseteq Attempt
  /\ strays \subseteq strays'
  /\ \A m \in Attempt \ {r} :
       /\ (m \in touched' <=> m \in touched) /\ (m \in applied' <=> m \in applied)
       /\ (m \in settled' <=> m \in settled)

\* The facts of one run.
Learns(r) ==
  /\ target' \in [Attempt -> Source]
  /\ base' \in [Attempt -> [active : Source \cup {NoSource}, rev : 1..Len(revs'), flow : Source]]
  /\ polls' \in [Attempt -> 1..MaxPolls]
  /\ checks' \in [Attempt -> BOOLEAN]
  /\ emitted' \subseteq SwitchRun
  /\ \A m \in Attempt \ {r} :
       /\ target'[m] = target[m] /\ base'[m] = base[m] /\ checks'[m] = checks[m]
       /\ (m \in emitted' <=> m \in emitted)

\* What a step of one run leaves of the others.
Frame(r) == Moves(r) /\ Remembers(r) /\ Learns(r)

\* Going to a label.
LEMMA GotoMoves ==
  ASSUME SwitchTypeOK, NEW r \in Attempt, NEW l \in SwitchLabel, Goto(r, l)
  PROVE  /\ pc' \in [Attempt -> SwitchLabel] /\ pc'[r] = l
         /\ believers' \subseteq Attempt
         /\ \A m \in Attempt \ {r} : pc'[m] = pc[m]
  BY DEF SwitchTypeOK, LeaseTypeOK, Goto

\* Going to a label in silence.
LEMMA SilentMoves ==
  ASSUME SwitchTypeOK, NEW r \in Attempt, NEW l \in SwitchLabel, Goto(r, l), UNCHANGED events
  PROVE  Moves(r) /\ pc'[r] = l /\ events'[r] = events[r]
  BY GotoMoves DEF Moves, SwitchTypeOK

\* The stage of a refusal.
LEMMA StageOfType == ASSUME NEW l \in SwitchLabel PROVE StageOf(l) \in Stage
  BY DEF StageOf, Stage, PreMutation, Reads

\* Emitting an event.
LEMMA EmitMoves ==
  ASSUME SwitchTypeOK, NEW r \in Attempt, NEW t \in Token, NEW d \in Stage \cup {"none"},
         Emit(r, t, d)
  PROVE  /\ events' \in [Attempt -> Seq([token : Token, detail : Stage \cup {"none"}])]
         /\ events'[r] = Append(events[r], [token |-> t, detail |-> d])
         /\ Len(events'[r]) = Len(events[r]) + 1
         /\ Last(events'[r]) = [token |-> t, detail |-> d]
         /\ \A m \in Attempt \ {r} : events'[m] = events[m]
<1>1. [token |-> t, detail |-> d] \in [token : Token, detail : Stage \cup {"none"}]
  OBVIOUS
<1> DEFINE D == [token : Token, detail : Stage \cup {"none"}]
           e == [token |-> t, detail |-> d]
<1>2. events \in [Attempt -> Seq(D)] /\ e \in D
  BY <1>1 DEF SwitchTypeOK
<1>3. events' = [events EXCEPT ![r] = Append(@, e)]
  BY DEF Emit
<1> HIDE DEF D, e
<1>4. /\ events' \in [Attempt -> Seq(D)]
      /\ events'[r] = Append(events[r], e)
      /\ \A m \in Attempt \ {r} : events'[m] = events[m]
  BY <1>2, <1>3
<1>5. Len(events'[r]) = Len(events[r]) + 1 /\ events'[r][Len(events[r]) + 1] = e
  BY <1>2, <1>4
<1>6. QED
  BY <1>4, <1>5 DEF Last, D, e

\* Refusing.
LEMMA RefuseMoves ==
  ASSUME SwitchTypeOK, NEW r \in Attempt, EmitRefused(r)
  PROVE  /\ events' \in [Attempt -> Seq([token : Token, detail : Stage \cup {"none"}])]
         /\ \A m \in Attempt \ {r} : events'[m] = events[m]
         /\ r \in LaunchRun => events'[r] = events[r]
         /\ r \in SwitchRun => /\ Len(events'[r]) = Len(events[r]) + 1
                               /\ Last(events'[r]) = [token |-> "refused", detail |-> StageOf(pc[r])]
<1>1. "refused" \in Token /\ StageOf(pc[r]) \in Stage \cup {"none"}
  BY StageOfType DEF Token, SwitchTypeOK
<1>2. CASE r \in SwitchRun
  BY <1>1, <1>2, EmitMoves DEF EmitRefused
<1>3. CASE r \notin SwitchRun
  BY <1>3 DEF EmitRefused, SwitchTypeOK
<1>4. QED
  BY <1>2, <1>3

\* Failing.
LEMMA RaiseMoves ==
  ASSUME SwitchTypeOK, NEW r \in Attempt, Raise(r)
  PROVE  Moves(r) /\ pc'[r] \in {"rescue", "done", "always"}
<1>1. {"rescue", "done", "always"} \subseteq SwitchLabel
  BY DEF SwitchLabel
<1>2. events' \in [Attempt -> Seq([token : Token, detail : Stage \cup {"none"}])]
      /\ \A m \in Attempt \ {r} : events'[m] = events[m]
  BY RefuseMoves DEF Raise, SwitchTypeOK
<1>3. PICK l \in {"rescue", "done", "always"} : Goto(r, l)
  BY DEF Raise
<1>4. QED
  BY <1>1, <1>2, <1>3, GotoMoves DEF Moves

\* Going on, or failing.
LEMMA ThenMoves ==
  ASSUME SwitchTypeOK, NEW r \in Attempt, NEW l \in SwitchLabel, ThenGoto(r, l)
  PROVE  Moves(r)
  BY SilentMoves, RaiseMoves DEF ThenGoto

\* The release.
LEMMA ReleaseMoves ==
  ASSUME SwitchTypeOK, NEW r \in Attempt, NEW l \in SwitchLabel, ReleaseLock(r, l)
  PROVE  Moves(r) /\ owner' \in Attempt \cup {NoOne} /\ aged' = aged
<1>1. CASE Release(r) /\ ThenGoto(r, l)
  BY <1>1, ThenMoves DEF Release, SwitchTypeOK, LeaseTypeOK
<1>2. CASE UNCHANGED leaseSwitchVars /\ Goto(r, l) /\ UNCHANGED events
  BY <1>2, SilentMoves DEF leaseSwitchVars, SwitchTypeOK, LeaseTypeOK
<1>3. CASE UNCHANGED leaseSwitchVars /\ Raise(r)
  BY <1>3, RaiseMoves DEF leaseSwitchVars, SwitchTypeOK, LeaseTypeOK
<1>4. QED
  BY <1>1, <1>2, <1>3 DEF ReleaseLock

\* Helm leaves a history that is at least as long.
HelmOK ==
  /\ revs' \in Seq(Source) /\ revs' # <<>> /\ Len(revs) <= Len(revs')
  /\ deployed' \in BOOLEAN
  /\ spec' \in Source

LEMMA RevsGrow ==
  ASSUME SwitchTypeOK, NEW flow \in Source
  PROVE  LET s == Append(revs, flow) IN s \in Seq(Source) /\ s # <<>> /\ Len(revs) <= Len(s)
  BY DEF SwitchTypeOK

LEMMA HelmType == ASSUME SwitchTypeOK, NEW flow \in Source, Helm(flow) PROVE HelmOK
<1>1. CASE revs' = Append(revs, flow)
  BY <1>1, RevsGrow DEF HelmOK, Helm, SwitchTypeOK
<1>2. CASE UNCHANGED <<revs, deployed, spec>>
  BY <1>2 DEF HelmOK, SwitchTypeOK
<1>3. QED
  BY <1>1, <1>2 DEF Helm

\* The facts stay, whatever the history of the release grows by.
LEMMA FactsStay ==
  ASSUME SwitchTypeOK, NEW r \in Attempt, UNCHANGED facts, Len(revs) <= Len(revs'),
         Len(revs') \in Nat
  PROVE  Learns(r)
<1>1. \A m \in Attempt : base[m] \in [active : Source \cup {NoSource}, rev : 1..Len(revs'),
                                        flow : Source]
  BY DEF SwitchTypeOK
<1>2. QED
  BY <1>1 DEF Learns, facts, SwitchTypeOK

\* Another value of one field.
LEMMA BaseUpdate ==
  ASSUME NEW A, NEW R, NEW F, NEW b \in [active : A, rev : R, flow : F]
  PROVE  /\ \A x \in A : [b EXCEPT !.active = x] \in [active : A, rev : R, flow : F]
         /\ \A x \in R : [b EXCEPT !.rev = x] \in [active : A, rev : R, flow : F]
         /\ \A x \in F : [b EXCEPT !.flow = x] \in [active : A, rev : R, flow : F]
  OBVIOUS

LEMMA BaseFacts ==
  ASSUME SwitchTypeOK, NEW r \in Attempt
  PROVE  /\ base[r] \in [active : Source \cup {NoSource}, rev : 1..Len(revs), flow : Source]
         /\ coord.active \in Source \cup {NoSource}
         /\ Len(revs) \in 1..Len(revs)
         /\ Last(revs) \in Source
<1>1. Len(revs) \in 1..Len(revs) /\ revs[Len(revs)] \in Source
  BY DEF SwitchTypeOK
<1>2. QED
  BY <1>1 DEF SwitchTypeOK, Last

\* One fact of the baseline is learnt.
LEMMA BaseLearns ==
  ASSUME SwitchTypeOK, NEW r \in Attempt, UNCHANGED <<revs, target, polls, checks, emitted>>,
         NEW b \in [active : Source \cup {NoSource}, rev : 1..Len(revs), flow : Source],
         base' = [base EXCEPT ![r] = b]
  PROVE  Learns(r) /\ base'[r] = b
  BY DEF Learns, SwitchTypeOK

\* The coordinator with another selection, or without an endpoint.
CoordType == [active : Source \cup {NoSource}, endpoint : Source \cup {NoSource}]

LEMMA CoordTypes ==
  ASSUME SwitchTypeOK
  PROVE  /\ \A x \in Source \cup {NoSource} : [coord EXCEPT !.active = x] \in CoordType
         /\ [coord EXCEPT !.endpoint = NoSource] \in CoordType
  BY DEF SwitchTypeOK, CoordType

\* A trace in the history.
LEMMA TraceRemembers ==
  ASSUME SwitchTypeOK, NEW r \in Attempt, Trace(r), applied' \in {applied, applied \cup {r}}
  PROVE  Remembers(r)
  BY DEF Trace, Remembers, SwitchTypeOK

\* One verdict of a poll.
LEMMA PollMoves ==
  ASSUME SwitchTypeOK, NEW r \in Attempt, NEW ok \in BOOLEAN,
         NEW yes \in SwitchLabel, NEW again \in SwitchLabel, NEW no \in SwitchLabel,
         NextPoll(r, ok, yes, again, no), UNCHANGED <<cluster, target, base, emitted, events>>
  PROVE  /\ Moves(r) /\ Learns(r)
         /\ checks'[r] = ok
         /\ IF ok THEN pc'[r] = yes ELSE pc'[r] \in {again, no}
<1> DEFINE more == ~ok /\ polls[r] < MaxPolls
           l == IF ok THEN yes ELSE IF more THEN again ELSE no
<1>1. /\ polls' = [polls EXCEPT ![r] = IF more THEN @ + 1 ELSE 1]
      /\ checks' = [checks EXCEPT ![r] = ok]
      /\ Goto(r, l) /\ l \in SwitchLabel
  BY DEF NextPoll
<1>2. polls' \in [Attempt -> 1..MaxPolls] /\ checks' \in [Attempt -> BOOLEAN]
      /\ checks'[r] = ok /\ \A m \in Attempt \ {r} : checks'[m] = checks[m]
  BY <1>1 DEF SwitchTypeOK
<1>3. Moves(r) /\ pc'[r] = l
  BY <1>1, SilentMoves
<1>4. Learns(r)
  BY <1>2 DEF Learns, SwitchTypeOK, cluster
<1>5. IF ok THEN pc'[r] = yes ELSE pc'[r] \in {again, no}
  <2>1. CASE ok
    BY <1>3, <2>1
  <2>2. CASE ~ok
    BY <1>3, <2>2
  <2>3. QED
    BY <2>1, <2>2
<1>6. QED
  BY <1>2, <1>3, <1>4, <1>5

\* A step of one run keeps every type, and concerns that run only.
LEMMA ActType ==
  ASSUME SwitchTypeOK, NEW r \in Attempt, KindOK(r), Act(r)
  PROVE  SwitchTypeOK' /\ Frame(r)
<1> USE DEF Frame
<1>1. ASSUME Moves(r), UNCHANGED <<leaseSwitchVars, cluster, facts, past>>
      PROVE  SwitchTypeOK' /\ Frame(r)
  BY <1>1 DEF Moves, Remembers, Learns, SwitchTypeOK, LeaseTypeOK, leaseSwitchVars, cluster, facts,
              past
<1>2. ASSUME Moves(r), Learns(r), UNCHANGED <<leaseSwitchVars, cluster, past>>
      PROVE  SwitchTypeOK' /\ Frame(r)
  BY <1>2 DEF Moves, Remembers, Learns, SwitchTypeOK, LeaseTypeOK, leaseSwitchVars, cluster, past
<1>3. ASSUME Moves(r), Remembers(r),
             UNCHANGED <<leaseSwitchVars, revs, deployed, spec, pod, restarts, facts>>,
             coord' \in CoordType
      PROVE  SwitchTypeOK' /\ Frame(r)
  BY <1>3 DEF CoordType, Moves, Remembers, Learns, SwitchTypeOK, LeaseTypeOK, leaseSwitchVars, facts
<1>4. ASSUME Moves(r), Remembers(r), Learns(r), HelmOK,
             UNCHANGED <<leaseSwitchVars, coord, pod, restarts>>
      PROVE  SwitchTypeOK' /\ Frame(r)
  BY <1>4 DEF Moves, Remembers, Learns, HelmOK, SwitchTypeOK, LeaseTypeOK, leaseSwitchVars
<1>5. ASSUME Moves(r), owner' \in Attempt \cup {NoOne}, aged' = aged,
             UNCHANGED <<cluster, facts, past>>
      PROVE  SwitchTypeOK' /\ Frame(r)
  BY <1>5 DEF Moves, Remembers, Learns, SwitchTypeOK, LeaseTypeOK, cluster, facts, past
<1>6. ASSUME NEW l \in SwitchLabel, Goto(r, l), UNCHANGED events PROVE Moves(r)
  BY <1>6, SilentMoves
<1>7. ASSUME Raise(r) PROVE Moves(r)
  BY <1>7, RaiseMoves
<1>8. ASSUME NEW l \in SwitchLabel, ThenGoto(r, l) PROVE Moves(r)
  BY <1>8, ThenMoves
<1>9. ASSUME NEW c, PatchCoord(r, c) PROVE coord' = c /\ Remembers(r)
  BY <1>9, TraceRemembers DEF PatchCoord
<1> USE DEF SwitchLabel, Body, Reads, Quiesced, Launching
<1>10. CASE Start(r)
  <2>1. Moves(r)
    <3>1. CASE Goto(r, "done") /\ EmitRefused(r)
      BY <3>1, GotoMoves, RefuseMoves DEF Moves
    <3>2. CASE Goto(r, "lock") /\ UNCHANGED events
      BY <3>2, <1>6
    <3>3. QED
      BY <1>10, <3>1, <3>2 DEF Start
  <2>2. Learns(r)
    <3>1. target' \in [Attempt -> Source] /\ \A m \in Attempt \ {r} : target'[m] = target[m]
      <4>1. CASE UNCHANGED target
        BY <4>1 DEF SwitchTypeOK
      <4>2. CASE \E s \in Source : target' = [target EXCEPT ![r] = s]
        BY <4>2 DEF SwitchTypeOK
      <4>3. QED
        BY <1>10, <4>1, <4>2 DEF Start
    <3>2. UNCHANGED <<base, polls, checks, emitted, revs>>
      BY <1>10 DEF Start, cluster
    <3>3. QED
      BY <3>1, <3>2 DEF Learns, SwitchTypeOK
  <2>3. QED
    BY <1>10, <1>2, <2>1, <2>2 DEF Start
<1>11. CASE Acquire(r)
  <2>1. CASE Grant(r) /\ pc' = [pc EXCEPT ![r] = "verify"] /\ UNCHANGED events
    BY <1>11, <2>1, <1>5 DEF Acquire, Grant, Moves, SwitchTypeOK, LeaseTypeOK
  <2>2. CASE Evict /\ UNCHANGED <<pc, events>>
    BY <1>11, <2>2, <1>5 DEF Acquire, Evict, Moves, SwitchTypeOK, LeaseTypeOK
  <2>3. CASE Raise(r) /\ UNCHANGED leaseSwitchVars
    BY <1>11, <2>3, <1>7, <1>1 DEF Acquire
  <2>4. QED
    BY <1>11, <2>1, <2>2, <2>3 DEF Acquire
<1>12. CASE Verify(r)
  <2>1. CASE owner # r
    BY <1>12, <2>1, <1>7, <1>1 DEF Verify, Confirm
  <2>2. CASE owner = r
    BY <1>12, <2>2, <1>5 DEF Verify, Confirm, Moves, SwitchTypeOK, LeaseTypeOK
  <2>3. QED
    BY <2>1, <2>2
<1>13. CASE ReadCoordinator(r)
  <2>1. [base[r] EXCEPT !.active = coord.active]
           \in [active : Source \cup {NoSource}, rev : 1..Len(revs), flow : Source]
    BY BaseUpdate, BaseFacts
  <2>2. Learns(r)
    BY <1>13, <2>1, BaseLearns DEF ReadCoordinator, cluster
  <2>3. QED
    BY <1>13, <2>2, <1>2, <1>6 DEF ReadCoordinator
<1>14. CASE ResolveChart(r)
  <2>1. [base[r] EXCEPT !.rev = Len(revs)]
           \in [active : Source \cup {NoSource}, rev : 1..Len(revs), flow : Source]
    BY BaseUpdate, BaseFacts
  <2>2. CASE Raise(r) /\ UNCHANGED base
    BY <1>14, <2>2, <1>1, <1>7 DEF ResolveChart, facts
  <2>3. CASE /\ base' = [base EXCEPT ![r].rev = Len(revs)]
             /\ Goto(r, "baseline-capture") /\ UNCHANGED events
    <3>1. Learns(r)
      BY <1>14, <2>1, <2>3, BaseLearns DEF ResolveChart, cluster
    <3>2. QED
      BY <1>14, <2>3, <3>1, <1>2, <1>6 DEF ResolveChart
  <2>4. QED
    BY <1>14, <2>2, <2>3 DEF ResolveChart
<1>15. CASE CaptureBaseline(r)
  <2>2. [base[r] EXCEPT !.flow = Last(revs)]
           \in [active : Source \cup {NoSource}, rev : 1..Len(revs), flow : Source]
    BY BaseUpdate, BaseFacts
  <2>3. Learns(r)
    BY <1>15, <2>2, BaseLearns DEF CaptureBaseline, cluster
  <2>4. QED
    BY <1>15, <2>3, <1>2, <1>6 DEF CaptureBaseline
<1>16. CASE QuiesceActive(r)
  <2>1. /\ Moves(r) /\ Remembers(r)
        /\ UNCHANGED <<leaseSwitchVars, revs, deployed, spec, pod, restarts, facts>>
    BY <1>16, <1>8, <1>9 DEF QuiesceActive
  <2>2. coord' \in CoordType
    <3>1. coord' = [coord EXCEPT !.active = NoSource]
      BY <1>16 DEF QuiesceActive, PatchCoord
    <3>2. QED
      BY <3>1, CoordTypes
  <2>3. QED
    BY <2>1, <2>2, <1>3
<1>17. CASE QuiesceEndpoint(r)
  <2>1. /\ Moves(r) /\ Remembers(r)
        /\ UNCHANGED <<leaseSwitchVars, revs, deployed, spec, pod, restarts, facts>>
    BY <1>17, <1>8, <1>9 DEF QuiesceEndpoint
  <2>2. coord' \in CoordType
    <3>1. coord' = [coord EXCEPT !.endpoint = NoSource]
      BY <1>17 DEF QuiesceEndpoint, PatchCoord
    <3>2. QED
      BY <3>1, CoordTypes
  <2>3. QED
    BY <2>1, <2>2, <1>3
<1>18. CASE Upgrade(r)
  <2>1. HelmOK
    BY <1>18, HelmType DEF Upgrade, SwitchTypeOK
  <2>2. Remembers(r)
    BY <1>18, TraceRemembers DEF Upgrade
  <2>3. \A m \in Attempt : base[m] \in [active : Source \cup {NoSource}, rev : 1..Len(revs'),
                                          flow : Source]
    BY <2>1 DEF SwitchTypeOK, HelmOK
  <2>4. Learns(r)
    BY <1>18, <2>3 DEF Upgrade, Learns, SwitchTypeOK
  <2>5. QED
    BY <1>18, <2>1, <2>2, <2>4, <1>4, <1>6 DEF Upgrade
<1>19. CASE PollDeploy(r)
  <2>1. RolledOut \in BOOLEAN
    BY DEF RolledOut, SwitchTypeOK
  <2>2. Learns(r)
    BY <1>19, <2>1 DEF PollDeploy, Learns, SwitchTypeOK, cluster
  <2>3. QED
    BY <1>19, <2>2, <1>2, <1>6 DEF PollDeploy
<1>20. CASE PollCoord(r)
  <2>1. (checks[r] /\ Fresh) \in BOOLEAN
    BY DEF SwitchTypeOK
  <2>2. QED
    BY <1>20, <2>1, <1>2, PollMoves DEF PollCoord
<1>21. CASE RollBack(r)
  <2>1. revs[base[r].rev] \in Source
    BY DEF SwitchTypeOK
  <2>2. HelmOK
    BY <1>21, <2>1, HelmType DEF RollBack
  <2>3. QED
    BY <1>21, <2>2, FactsStay, TraceRemembers, <1>4, <1>6 DEF RollBack, HelmOK
<1>22. CASE VerifyValues(r)
  <2>1. Learns(r)
    BY <1>22 DEF VerifyValues, Learns, SwitchTypeOK, cluster
  <2>2. QED
    BY <1>22, <2>1, <1>2, <1>6 DEF VerifyValues
<1>23. CASE VerifyDeploy(r)
  <2>1. (checks[r] /\ RolledOut /\ spec = base[r].flow) \in BOOLEAN
    BY DEF RolledOut, SwitchTypeOK
  <2>2. checks' = [checks EXCEPT ![r] = checks[r] /\ RolledOut /\ spec = base[r].flow]
    BY <1>23 DEF VerifyDeploy
  <2>3. checks' \in [Attempt -> BOOLEAN] /\ \A m \in Attempt \ {r} : checks'[m] = checks[m]
    BY <2>1, <2>2 DEF SwitchTypeOK
  <2>4. Learns(r)
    BY <1>23, <2>3 DEF VerifyDeploy, Learns, SwitchTypeOK, cluster
  <2>5. QED
    BY <1>23, <2>4, <1>2, <1>6 DEF VerifyDeploy
<1>24. CASE VerifyCoord(r)
  <2>1. (checks[r] /\ Fresh) \in BOOLEAN
    BY DEF SwitchTypeOK
  <2>2. QED
    BY <1>24, <2>1, <1>2, PollMoves DEF VerifyCoord
<1>25. CASE Restore(r)
  <2>1. /\ Moves(r) /\ Remembers(r)
        /\ UNCHANGED <<leaseSwitchVars, revs, deployed, spec, pod, restarts, facts>>
    BY <1>25, <1>8, <1>9 DEF Restore
  <2>2. coord' \in CoordType
    <3>1. coord' = [coord EXCEPT !.active = base[r].active]
      BY <1>25 DEF Restore, PatchCoord
    <3>2. QED
      BY <3>1, CoordTypes DEF SwitchTypeOK
  <2>3. QED
    BY <2>1, <2>2, <1>3
<1>26. CASE Conclude(r)
  <2>1. Verdict(r) \in Token
    BY DEF Verdict, Token
  <2>2. Moves(r)
    <3>1. Goto(r, "fail") /\ Emit(r, Verdict(r), "none")
      BY <1>26 DEF Conclude
    <3>2. QED
      BY <2>1, <3>1, EmitMoves, GotoMoves DEF Moves
  <2>3. emitted' \subseteq SwitchRun /\ \A m \in Attempt \ {r} : m \in emitted' <=> m \in emitted
    BY <1>26 DEF Conclude, SwitchTypeOK, KindOK, Switching
  <2>4. Learns(r)
    BY <1>26, <2>3 DEF Conclude, Learns, SwitchTypeOK, cluster
  <2>5. QED
    BY <1>26, <2>2, <2>4, <1>2 DEF Conclude
<1>27. CASE Fail(r)
  BY <1>27, <1>1, <1>7 DEF Fail
<1>28. CASE Select(r)
  <2>1. /\ Moves(r) /\ Remembers(r)
        /\ UNCHANGED <<leaseSwitchVars, revs, deployed, spec, pod, restarts, facts>>
    BY <1>28, <1>8, <1>9 DEF Select
  <2>2. coord' \in CoordType
    <3>1. coord' = [coord EXCEPT !.active = target[r]]
      BY <1>28 DEF Select, PatchCoord
    <3>2. QED
      BY <3>1, CoordTypes DEF SwitchTypeOK
  <2>3. QED
    BY <2>1, <2>2, <1>3
<1>29. CASE FinalReadback(r)
  BY <1>29, <1>1, <1>6, <1>7 DEF FinalReadback
<1>30. CASE Succeed(r)
  <2>1. owner' \in Attempt \cup {NoOne} /\ aged' = aged
    BY <1>30 DEF Succeed, Release, leaseSwitchVars, SwitchTypeOK, LeaseTypeOK
  <2>2. CASE Raise(r)
    BY <1>30, <2>1, <2>2, <1>5, <1>7 DEF Succeed
  <2>3. CASE Goto(r, "always") /\ IF r \in SwitchRun THEN Emit(r, "success", "none")
                                  ELSE UNCHANGED events
    <3>1. Moves(r)
      BY <2>3, GotoMoves, EmitMoves DEF Moves, Token, SwitchTypeOK
    <3>2. QED
      BY <1>30, <2>1, <3>1, <1>5 DEF Succeed
  <2>4. QED
    BY <1>30, <2>2, <2>3 DEF Succeed
<1>31. CASE Rescue(r)
  BY <1>31, <1>5, ReleaseMoves DEF Rescue, ReleaseLock
<1>32. CASE Always(r)
  BY <1>32, <1>5, ReleaseMoves DEF Always, ReleaseLock
<1>33. CASE LaunchRead(r)
  <2>1. [base[r] EXCEPT !.active = coord.active]
           \in [active : Source \cup {NoSource}, rev : 1..Len(revs), flow : Source]
    BY BaseUpdate, BaseFacts
  <2>2. Learns(r)
    BY <1>33, <2>1, BaseLearns DEF LaunchRead, cluster
  <2>3. QED
    BY <1>33, <2>2, <1>2, <1>6 DEF LaunchRead
<1>34. CASE LaunchGuard(r)
  BY <1>34, <1>1, <1>6, <1>7 DEF LaunchGuard
<1>35. CASE LaunchPatch(r)
  <2>1. CASE PatchCoord(r, [coord EXCEPT !.active = target[r]]) /\ ThenGoto(r, "release")
    <3>1. Moves(r) /\ Remembers(r) /\ coord' = [coord EXCEPT !.active = target[r]]
      BY <2>1, <1>8, <1>9
    <3>2. coord' \in CoordType
      BY <3>1, CoordTypes DEF SwitchTypeOK
    <3>3. QED
      BY <1>35, <3>1, <3>2, <1>3 DEF LaunchPatch
  <2>2. CASE Goto(r, "release") /\ UNCHANGED <<coord, past, events>>
    BY <1>35, <2>2, <1>1, <1>6 DEF LaunchPatch, cluster
  <2>3. QED
    BY <1>35, <2>1, <2>2 DEF LaunchPatch
<1>36. CASE CallFails(r)
  BY <1>36, <1>1, <1>7 DEF CallFails
<1>37. CASE Kill(r)
  <2>1. CASE UNCHANGED <<revs, deployed, spec, past>>
    BY <1>37, <2>1, <1>1, <1>6 DEF Kill, cluster
  <2>2. CASE Interrupted(r)
    <3> DEFINE flow == IF pc[r] = "upgrade" THEN target[r] ELSE revs[base[r].rev]
    <3>1. flow \in Source
      BY DEF SwitchTypeOK
    <3>2. revs' = Append(revs, flow) /\ deployed' = FALSE /\ spec' \in {spec, flow}
      BY <2>2 DEF Interrupted
    <3> HIDE DEF flow
    <3>3. HelmOK
      BY <3>1, <3>2, RevsGrow DEF HelmOK, SwitchTypeOK
    <3>4. Remembers(r)
      BY <2>2, TraceRemembers DEF Interrupted
    <3>5. QED
      BY <1>37, <3>3, <3>4, FactsStay, <1>4, <1>6 DEF Kill, HelmOK
  <2>3. QED
    BY <1>37, <2>1, <2>2 DEF Kill
<1>40. QED
  BY <1>10, <1>11, <1>12, <1>13, <1>14, <1>15, <1>16, <1>17, <1>18, <1>19, <1>20, <1>21, <1>22,
     <1>23, <1>24, <1>25, <1>26, <1>27, <1>28, <1>29, <1>30, <1>31, <1>32, <1>33, <1>34, <1>35,
     <1>36, <1>37 DEF Act

-----------------------------------------------------------------------------
(***************************************************************************)
(* Where a run goes, and with which flags and events.                      *)
(***************************************************************************)

\* The first event of a run.
LEMMA FirstEvent ==
  ASSUME SwitchTypeOK, NEW r \in Attempt, NEW t \in Token, NEW d \in Stage \cup {"none"},
         Emit(r, t, d), events[r] = <<>>
  PROVE  Len(events'[r]) = 1
<1>1. Len(events'[r]) = Len(events[r]) + 1
  BY EmitMoves
<1>2. Len(events[r]) = 0
  OBVIOUS
<1>3. QED
  BY <1>1, <1>2

LEMMA FirstRefusal ==
  ASSUME SwitchTypeOK, NEW r \in Attempt, EmitRefused(r), events[r] = <<>>
  PROVE  /\ r \in LaunchRun => events'[r] = <<>>
         /\ r \in SwitchRun => Len(events'[r]) = 1
<1>1. CASE r \in SwitchRun
  <2>1. "refused" \in Token /\ StageOf(pc[r]) \in Stage \cup {"none"}
    BY StageOfType DEF Token, SwitchTypeOK
  <2>2. QED
    BY <1>1, <2>1, FirstEvent DEF EmitRefused
<1>2. CASE r \in LaunchRun
  BY <1>2, RefuseMoves
<1>3. QED
  BY <1>1, <1>2

\* A run that is on its way out, with its event.
LEMMA SpokenLocal ==
  ASSUME NEW r \in Attempt, pc'[r] \in {"rescue", "done", "always"},
         r \in LaunchRun => events'[r] = <<>>,
         r \in SwitchRun => Len(events'[r]) = 1
  PROVE  Local(r)'
<1>1. KindOK(r)' /\ FlagsOK(r)'
  BY DEF KindOK, FlagsOK, Launching, Switching, Reads, Quiesced, Untouched, Unapplied
<1>2. pc'[r] \notin Silent
  BY DEF Silent, Body, Reads, Quiesced, Launching
<1>3. CASE r \in SwitchRun
  <2>1. Len(events'[r]) = 1
    BY <1>3
  <2>2. Len(events'[r]) <= 1
    BY <2>1
  <2>3. QED
    BY <1>1, <1>2, <1>3, <2>1, <2>2 DEF Local, EventsOK
<1>4. CASE r \in LaunchRun
  BY <1>1, <1>2, <1>4 DEF Local, EventsOK
<1>5. QED
  BY <1>3, <1>4

\* A failure leads to the rescue, the always or the end; a switch has emitted
\* exactly one event then.
LEMMA RaiseLocal ==
  ASSUME SwitchTypeOK, NEW r \in Attempt, Local(r), Raise(r), UNCHANGED emitted,
         pc[r] \notin {"done", "killed"}
  PROVE  Local(r)'
<1> USE DEF Local, KindOK, FlagsOK, EventsOK
<1>1. pc'[r] \in {"rescue", "done", "always"}
  BY RaiseMoves
<1>2. pc[r] \in Silent \cup {"fail", "rescue", "always"}
  BY DEF SwitchTypeOK, SwitchLabel, Silent
<1>3. CASE pc[r] \in Silent
  <2>1. EmitRefused(r) /\ events[r] = <<>>
    BY <1>3 DEF Raise, Silent, Body, Reads, Quiesced, Launching
  <2>2. QED
    BY <1>1, <2>1, FirstRefusal, SpokenLocal
<1>4. CASE pc[r] \in {"fail", "rescue", "always"}
  <2>1. UNCHANGED events
    BY <1>4 DEF Raise
  <2>2. QED
    BY <1>1, <1>4, <2>1, SpokenLocal DEF Spoken
<1>5. QED
  BY <1>2, <1>3, <1>4

\* A run that has emitted nothing goes on in silence.
LEMMA SilentLocal ==
  ASSUME SwitchTypeOK, NEW r \in Attempt, Local(r), NEW l \in Silent, pc[r] \in Silent,
         pc'[r] = l, events'[r] = events[r], UNCHANGED emitted,
         l \in Launching => r \in LaunchRun,
         l \in Switching => r \in SwitchRun,
         l \in Untouched => r \notin touched',
         l \in Unapplied => r \notin applied'
  PROVE  Local(r)'
  BY DEF Local, KindOK, FlagsOK, EventsOK, Silent, Body, Reads, Quiesced, Launching, Spoken

\* A run that has emitted nothing goes on, or fails.
LEMMA ThenLocal ==
  ASSUME SwitchTypeOK, NEW r \in Attempt, Local(r), NEW l \in Silent, pc[r] \in Silent,
         ThenGoto(r, l), UNCHANGED emitted,
         l \in Launching => r \in LaunchRun,
         l \in Switching => r \in SwitchRun,
         l \in Untouched => r \notin touched',
         l \in Unapplied => r \notin applied'
  PROVE  Local(r)'
<1>1. CASE Goto(r, l) /\ UNCHANGED events
  <2>1. l \in SwitchLabel
    BY DEF Silent, SwitchLabel
  <2>2. pc'[r] = l /\ events'[r] = events[r]
    BY <1>1, <2>1, SilentMoves
  <2>3. QED
    BY <2>2, SilentLocal
<1>2. CASE Raise(r)
  BY <1>2, RaiseLocal DEF Silent, Body, Reads, Quiesced, Launching
<1>3. QED
  BY <1>1, <1>2 DEF ThenGoto

\* What a run is does not change by what another one does.
LEMMA FrameLocal ==
  ASSUME SwitchTypeOK, NEW r \in Attempt, Frame(r), NEW m \in Attempt \ {r}, Local(m)
  PROVE  Local(m)'
<1>1. /\ pc'[m] = pc[m] /\ events'[m] = events[m] /\ (m \in emitted' <=> m \in emitted)
      /\ (m \in touched' <=> m \in touched) /\ (m \in applied' <=> m \in applied)
  BY DEF Frame, Moves, Remembers, Learns
<1>2. QED
  BY <1>1 DEF Local, KindOK, FlagsOK, EventsOK

\* A step of a run keeps its own flow.
LEMMA LocalStep ==
  ASSUME SwitchTypeOK, NEW r \in Attempt, Local(r), Act(r), Frame(r)
  PROVE  Local(r)'
<1> USE DEF facts, past
<1>1. pc[r] \in Silent => r \notin emitted
  BY DEF Local, FlagsOK, Silent, Body, Reads, Quiesced, Launching
<1>2. ASSUME NEW l \in Silent, pc[r] \in Silent, Goto(r, l), UNCHANGED <<events, emitted>>,
             l \in Launching => r \in LaunchRun, l \in Switching => r \in SwitchRun,
             l \in Untouched => r \notin touched', l \in Unapplied => r \notin applied'
      PROVE  Local(r)'
  BY <1>2, ThenLocal DEF ThenGoto
<1>3. ASSUME Raise(r), UNCHANGED emitted, pc[r] \notin {"done", "killed"} PROVE Local(r)'
  BY <1>3, RaiseLocal
<1>4. ASSUME NEW l \in {"always", "done"}, ReleaseLock(r, l), UNCHANGED emitted,
             pc[r] \in {"rescue", "always"}
      PROVE  Local(r)'
  <2>1. CASE Raise(r)
    BY <1>4, <2>1, RaiseLocal
  <2>2. CASE Goto(r, l) /\ UNCHANGED events
    <3>1. pc'[r] = l /\ events'[r] = events[r]
      BY <2>2, SilentMoves DEF SwitchLabel
    <3>2. QED
      BY <1>4, <3>1 DEF Local, KindOK, FlagsOK, EventsOK, Launching, Switching, Reads, Quiesced,
                       Untouched, Unapplied, Silent, Spoken, Body
  <2>3. QED
    BY <1>4, <2>1, <2>2 DEF ReleaseLock, ThenGoto
<1> USE DEF Local, KindOK, FlagsOK, Silent, Body, Reads, Quiesced, Launching, Switching, Untouched,
            Unapplied, EventsOK
<1>10. CASE Start(r)
  <2>1. CASE Goto(r, "lock") /\ UNCHANGED events
    BY <1>10, <2>1, <1>2 DEF Start
  <2>2. CASE Goto(r, "done") /\ EmitRefused(r)
    <3>1. pc'[r] = "done" /\ events[r] = <<>> /\ r \notin emitted
      BY <1>1, <1>10, <2>2, GotoMoves DEF Start, SwitchLabel
    <3>3. (r \in LaunchRun => events'[r] = <<>>) /\ (r \in SwitchRun => Len(events'[r]) = 1)
      BY <3>1, <2>2, FirstRefusal
    <3>4. QED
      BY <3>1, <3>3, SpokenLocal
  <2>3. QED
    BY <1>10, <2>1, <2>2 DEF Start
<1>11. CASE Acquire(r)
  <2>1. CASE Grant(r) /\ pc' = [pc EXCEPT ![r] = "verify"] /\ UNCHANGED events
    <3>1. pc'[r] = "verify" /\ events'[r] = events[r]
      BY <2>1 DEF SwitchTypeOK
    <3>2. QED
      BY <1>11, <3>1, SilentLocal DEF Acquire
  <2>2. CASE Evict /\ UNCHANGED <<pc, events>>
    BY <1>11, <2>2 DEF Acquire
  <2>3. CASE Raise(r)
    BY <1>11, <2>3, <1>3 DEF Acquire
  <2>4. QED
    BY <1>11, <2>1, <2>2, <2>3 DEF Acquire
<1>12. CASE Verify(r)
  <2>1. CASE Raise(r)
    BY <1>12, <2>1, <1>3 DEF Verify
  <2>2. CASE /\ pc' = [pc EXCEPT ![r] = IF r \in SwitchRun THEN "coordinator-read"
                                         ELSE "launch-read"]
             /\ UNCHANGED events
    <3>1. pc'[r] = (IF r \in SwitchRun THEN "coordinator-read" ELSE "launch-read")
          /\ events'[r] = events[r]
      BY <2>2 DEF SwitchTypeOK
    <3>2. QED
      BY <1>12, <3>1, SilentLocal DEF Verify
  <2>3. QED
    BY <1>12, <2>1, <2>2 DEF Verify
<1>13. CASE ReadCoordinator(r)
  BY <1>13, <1>2 DEF ReadCoordinator
<1>14. CASE ResolveChart(r)
  BY <1>14, <1>2, <1>3 DEF ResolveChart
<1>15. CASE CaptureBaseline(r)
  BY <1>15, <1>2 DEF CaptureBaseline
<1>16. CASE QuiesceActive(r)
  BY <1>16, ThenLocal DEF QuiesceActive, PatchCoord, Trace
<1>17. CASE QuiesceEndpoint(r)
  BY <1>17, ThenLocal DEF QuiesceEndpoint, PatchCoord, Trace
<1>18. CASE Upgrade(r)
  BY <1>18, <1>2 DEF Upgrade, Trace
<1>19. CASE PollDeploy(r)
  BY <1>19, <1>2 DEF PollDeploy
<1>20. CASE PollCoord(r)
  <2>1. UNCHANGED <<events, emitted, touched, applied>> /\ pc[r] \in Silent
    BY <1>20 DEF PollCoord
  <2>2. PICK l \in {"select", "poll-deploy", "rollback"} : Goto(r, l)
    BY <1>20 DEF PollCoord, NextPoll
  <2>3. QED
    BY <2>1, <2>2, <1>2, <1>20 DEF PollCoord
<1>21. CASE RollBack(r)
  BY <1>21, <1>2 DEF RollBack, Trace
<1>22. CASE VerifyValues(r)
  BY <1>22, <1>2 DEF VerifyValues
<1>23. CASE VerifyDeploy(r)
  BY <1>23, <1>2 DEF VerifyDeploy
<1>24. CASE VerifyCoord(r)
  <2>1. UNCHANGED <<events, emitted, touched, applied>> /\ pc[r] \in Silent
    BY <1>24 DEF VerifyCoord
  <2>2. PICK l \in {"restore", "conclude", "verify-values"} : Goto(r, l)
    BY <1>24 DEF VerifyCoord, NextPoll
  <2>3. QED
    BY <2>1, <2>2, <1>2, <1>24 DEF VerifyCoord
<1>25. CASE Restore(r)
  BY <1>25, ThenLocal DEF Restore, PatchCoord, Trace
<1>26. CASE Conclude(r)
  <2>1. /\ Emit(r, Verdict(r), "none") /\ Verdict(r) \in Token
        /\ pc'[r] = "fail" /\ r \in emitted' /\ r \in SwitchRun /\ events[r] = <<>>
    BY <1>26, GotoMoves DEF Conclude, Verdict, Token, SwitchLabel
  <2>2. Len(events'[r]) = 1
    BY <2>1, FirstEvent
  <2>3. QED
    BY <2>1, <2>2
<1>27. CASE Fail(r)
  BY <1>27, <1>3 DEF Fail
<1>28. CASE Select(r)
  BY <1>28, ThenLocal DEF Select, PatchCoord, Trace
<1>29. CASE FinalReadback(r)
  BY <1>29, <1>2, <1>3 DEF FinalReadback
<1>30. CASE Succeed(r)
  <2>1. CASE Raise(r)
    BY <1>30, <2>1, <1>3 DEF Succeed
  <2>2. CASE Goto(r, "always") /\ IF r \in SwitchRun THEN Emit(r, "success", "none")
                                  ELSE UNCHANGED events
    <3>1. pc'[r] = "always" /\ events[r] = <<>> /\ UNCHANGED emitted
      BY <1>30, <2>2, GotoMoves DEF Succeed, SwitchLabel
    <3>2. "success" \in Token
      BY DEF Token
    <3>3. (r \in LaunchRun => events'[r] = <<>>) /\ (r \in SwitchRun => Len(events'[r]) = 1)
      BY <3>1, <3>2, <2>2, FirstEvent
    <3>4. QED
      BY <3>1, <3>3, SpokenLocal
  <2>3. QED
    BY <1>30, <2>1, <2>2 DEF Succeed
<1>31. CASE Rescue(r)
  BY <1>31, <1>4 DEF Rescue, ReleaseLock
<1>32. CASE Always(r)
  BY <1>32, <1>4 DEF Always, ReleaseLock
<1>33. CASE LaunchRead(r)
  BY <1>33, <1>2 DEF LaunchRead
<1>34. CASE LaunchGuard(r)
  BY <1>34, <1>2, <1>3 DEF LaunchGuard
<1>35. CASE LaunchPatch(r)
  <2>1. CASE ThenGoto(r, "release")
    BY <1>35, <2>1, ThenLocal DEF LaunchPatch
  <2>2. CASE Goto(r, "release") /\ UNCHANGED <<coord, past, events>>
    BY <1>35, <2>2, <1>2 DEF LaunchPatch
  <2>3. QED
    BY <1>35, <2>1, <2>2 DEF LaunchPatch
<1>36. CASE CallFails(r)
  BY <1>36, <1>3 DEF CallFails
<1>37. CASE Kill(r)
  <2>1. pc'[r] = "killed" /\ UNCHANGED <<events, emitted>>
    BY <1>37, GotoMoves DEF Kill, SwitchLabel
  <2>2. QED
    BY <2>1 DEF Spoken
<1>40. QED
  BY <1>10, <1>11, <1>12, <1>13, <1>14, <1>15, <1>16, <1>17, <1>18, <1>19, <1>20, <1>21, <1>22,
     <1>23, <1>24, <1>25, <1>26, <1>27, <1>28, <1>29, <1>30, <1>31, <1>32, <1>33, <1>34, <1>35,
     <1>36, <1>37 DEF Act

\* A step is one of a run, of the viewer, the end of a term, or none.
LEMMA NextCases ==
  ASSUME [SwitchNext]_switchVars
  PROVE  (\E r \in Attempt : Act(r)) \/ View \/ Expire \/ UNCHANGED switchVars
  BY DEF SwitchNext, Act, View, Finished

\* The viewer changes its pod and the endpoint, nothing else.
LEMMA ViewFrame ==
  ASSUME SwitchTypeOK, View
  PROVE  /\ UNCHANGED <<leaseVars, revs, deployed, spec, facts, touched, applied, strays, pc, events>>
         /\ settled' \subseteq settled
         /\ coord' \in CoordType /\ coord'.active = coord.active /\ (Fresh => Fresh')
         /\ pod' \in [flow : Source, ready : BOOLEAN, published : BOOLEAN]
         /\ pod'.flow \in {pod.flow, spec}
         /\ restarts' \in 0..MaxRestarts
<1> USE DEF SwitchTypeOK, CoordType, past
<1>1. CASE Replace
  BY <1>1 DEF Replace
<1>2. CASE Publish
  BY <1>2 DEF Publish
<1>3. CASE BecomeReady
  BY <1>3 DEF BecomeReady
<1>4. CASE Restart
  <2>1. restarts' \in 0..MaxRestarts
    BY <1>4 DEF Restart
  <2>2. pod' = [pod EXCEPT !.ready = FALSE, !.published = FALSE]
        /\ settled' \subseteq settled
        /\ UNCHANGED <<leaseVars, coord, revs, deployed, spec, facts, touched, applied, strays, pc,
                       events>>
    BY <1>4 DEF Restart
  <2>3. QED
    BY <2>1, <2>2
<1>5. QED
  BY <1>1, <1>2, <1>3, <1>4 DEF View

\* The flow of the runs is inductive.
LEMMA FlowStep == ASSUME FlowInv, [SwitchNext]_switchVars PROVE FlowInv'
<1>1. ASSUME NEW r \in Attempt, Act(r) PROVE FlowInv'
  <2>1. SwitchTypeOK' /\ Frame(r)
    BY <1>1, ActType DEF FlowInv, Local
  <2>2. QED
    BY <1>1, <2>1, LocalStep, FrameLocal DEF FlowInv
<1>2. ASSUME UNCHANGED <<facts, touched, applied, pc, events>> PROVE (\A r \in Attempt : Local(r))'
  BY <1>2 DEF FlowInv, Local, KindOK, FlagsOK, EventsOK, facts
<1>3. CASE View
  <2>1. SwitchTypeOK'
    BY <1>3, ViewFrame DEF FlowInv, SwitchTypeOK, LeaseTypeOK, leaseVars, facts, past, CoordType
  <2>2. QED
    BY <1>2, <1>3, <2>1, ViewFrame DEF FlowInv
<1>4. CASE Expire
  <2>1. SwitchTypeOK'
    BY <1>4 DEF Expire, Age, FlowInv, SwitchTypeOK, LeaseTypeOK, cluster, facts, past
  <2>2. QED
    BY <1>2, <1>4, <2>1 DEF FlowInv, Expire, past
<1>5. CASE UNCHANGED switchVars
  <2>1. SwitchTypeOK'
    BY <1>5 DEF switchVars, leaseVars, FlowInv, SwitchTypeOK, LeaseTypeOK, cluster, facts, past
  <2>2. QED
    BY <1>2, <1>5, <2>1 DEF FlowInv, switchVars, past
<1>6. QED
  BY <1>1, <1>3, <1>4, <1>5, NextCases

\* It holds at first.
LEMMA FlowInit == SwitchInit => FlowInv
<1> SUFFICES ASSUME SwitchInit PROVE FlowInv
  OBVIOUS
<1>1. SwitchTypeOK
  <2>1. coord \in [active : Source \cup {NoSource}, endpoint : Source \cup {NoSource}]
    BY DEF SwitchInit
  <2>2. revs = <<spec>> /\ spec \in Source
    BY DEF SwitchInit
  <2>3. revs \in Seq(Source) /\ revs # <<>> /\ Len(revs) = 1
    BY <2>2
  <2>4. base \in [Attempt -> [active : Source \cup {NoSource}, rev : 1..Len(revs), flow : Source]]
    BY <2>3 DEF SwitchInit
  <2>5. QED
    BY <2>1, <2>3, <2>4 DEF SwitchInit, LeaseInit, SwitchTypeOK, LeaseTypeOK, SwitchLabel
<1>2. ASSUME NEW r \in Attempt PROVE Local(r)
  <2>1. pc[r] = "idle" /\ events[r] = <<>> /\ Len(events[r]) = 0
    BY DEF SwitchInit
  <2>2. QED
    BY <2>1 DEF SwitchInit, Local, KindOK, FlagsOK, EventsOK, Launching, Switching, Reads, Quiesced,
                Spoken
<1>3. QED
  BY <1>1, <1>2 DEF FlowInv

\* It always holds.
LEMMA FlowAlways == SwitchSpec => []FlowInv
  BY FlowInit, FlowStep, PTL DEF SwitchSpec

(***************************************************************************)
(* Every variable keeps its type.                                          *)
(***************************************************************************)
THEOREM SwitchTypeCorrect == SwitchSpec => []SwitchTypeOK
<1>1. FlowInv => SwitchTypeOK
  BY DEF FlowInv
<1>2. QED
  BY <1>1, FlowAlways, PTL

(***************************************************************************)
(* A switch emits exactly one event, whatever fails on the way: the rescue *)
(* does not emit a second one for a branch that has emitted its own, and   *)
(* no way to the end goes past every emission.                             *)
(***************************************************************************)
THEOREM SwitchEmitsOnce == SwitchSpec => []OneEvent
<1>1. FlowInv => OneEvent
  BY DEF FlowInv, Local, EventsOK, OneEvent, Spoken
<1>2. QED
  BY <1>1, FlowAlways, PTL

-----------------------------------------------------------------------------
(***************************************************************************)
(* A switch and a launch use the lease of the facility lock.               *)
(***************************************************************************)

\* Going somewhere either keeps the belief of a run or withdraws it.
LEMMA GotoLease ==
  ASSUME SwitchTypeOK, NEW r \in Attempt, NEW l \in SwitchLabel, Goto(r, l),
         UNCHANGED leaseSwitchVars
  PROVE  LeaseNext \/ UNCHANGED leaseVars
  BY DEF Goto, SwitchTypeOK, LeaseTypeOK, leaseSwitchVars, LeaseNext, Withdraw, leaseVars

\* A failure goes somewhere, and so does every step but the lock calls.
LEMMA RaiseGoes ==
  ASSUME NEW r \in Attempt, Raise(r)
  PROVE  \E l \in SwitchLabel : Goto(r, l)
  BY DEF Raise, SwitchLabel

LEMMA ThenGoes ==
  ASSUME NEW r \in Attempt, NEW l \in SwitchLabel, ThenGoto(r, l)
  PROVE  \E m \in SwitchLabel : Goto(r, m)
  BY RaiseGoes DEF ThenGoto

LEMMA PollGoes ==
  ASSUME NEW r \in Attempt, NEW ok, NEW yes \in SwitchLabel, NEW again \in SwitchLabel,
         NEW no \in SwitchLabel, NextPoll(r, ok, yes, again, no)
  PROVE  \E m \in SwitchLabel : Goto(r, m)
  BY DEF NextPoll

LEMMA ActGoes ==
  ASSUME NEW r \in Attempt, Act(r)
  PROVE  \/ Acquire(r) \/ Verify(r) \/ Succeed(r) \/ Rescue(r) \/ Always(r)
         \/ UNCHANGED leaseSwitchVars /\ \E l \in SwitchLabel : Goto(r, l)
<1> USE DEF SwitchLabel, Body, Reads, Quiesced, Launching
<1>1. CASE \/ Start(r) \/ ReadCoordinator(r) \/ ResolveChart(r) \/ CaptureBaseline(r) \/ Upgrade(r)
           \/ PollDeploy(r) \/ RollBack(r) \/ VerifyValues(r) \/ VerifyDeploy(r) \/ Conclude(r)
           \/ Fail(r) \/ FinalReadback(r)
  BY <1>1, RaiseGoes DEF Start, ReadCoordinator, ResolveChart, CaptureBaseline, Upgrade, PollDeploy,
          RollBack, VerifyValues, VerifyDeploy, Conclude, Fail, FinalReadback
<1>2. CASE QuiesceActive(r) \/ QuiesceEndpoint(r) \/ Restore(r) \/ Select(r)
  BY <1>2, ThenGoes DEF QuiesceActive, QuiesceEndpoint, Restore, Select
<1>3. CASE PollCoord(r) \/ VerifyCoord(r)
  BY <1>3, PollGoes DEF PollCoord, VerifyCoord
<1>4. CASE LaunchRead(r) \/ LaunchGuard(r) \/ LaunchPatch(r) \/ CallFails(r) \/ Kill(r)
  BY <1>4, RaiseGoes, ThenGoes DEF LaunchRead, LaunchGuard, LaunchPatch, CallFails, Kill
<1>5. QED
  BY <1>1, <1>2, <1>3, <1>4 DEF Act

\* A step of a run is a step of the lease or leaves it alone.
LEMMA LeaseAct ==
  ASSUME SwitchTypeOK, NEW r \in Attempt, Act(r)
  PROVE  LeaseNext \/ UNCHANGED leaseVars
<1> DEFINE Goes == \E l \in SwitchLabel : Goto(r, l)
<1>1. CASE Release(r)
  BY <1>1 DEF LeaseNext
<1>2. CASE Goes /\ UNCHANGED leaseSwitchVars
  BY <1>2, GotoLease
<1>3. CASE Acquire(r)
  BY <1>2, <1>3, RaiseGoes DEF Acquire, LeaseNext
<1>4. CASE Verify(r)
  BY <1>2, <1>4, RaiseGoes DEF Verify, LeaseNext
<1>5. CASE Succeed(r) \/ Rescue(r) \/ Always(r)
  BY <1>1, <1>2, <1>5, RaiseGoes DEF Succeed, Rescue, Always, ReleaseLock, SwitchLabel
<1>6. QED
  BY <1>2, <1>3, <1>4, <1>5, ActGoes

\* So is any step.
LEMMA LeaseOfStep == ASSUME FlowInv, [SwitchNext]_switchVars PROVE [LeaseNext]_leaseVars
<1>1. CASE Expire
  BY <1>1 DEF Expire, LeaseNext
<1>2. CASE View
  BY <1>2, ViewFrame DEF FlowInv
<1>3. QED
  BY <1>1, <1>2, NextCases, LeaseAct DEF FlowInv, switchVars, leaseVars

(***************************************************************************)
(* A switch, and the launch that writes the same coordinator, use the      *)
(* facility lock as FacilityLease describes it.                            *)
(***************************************************************************)
THEOREM SwitchKeepsTheLease == SwitchSpec => LeaseSpec
<1>1. SwitchInit => LeaseInit
  BY DEF SwitchInit
<1>2. QED
  BY <1>1, LeaseOfStep, FlowAlways, PTL DEF SwitchSpec, LeaseSpec

(***************************************************************************)
(* A switch that acts as the holder inside its term owns the facility: a   *)
(* run without a checkpoint is safe until its term is over.                *)
(***************************************************************************)
THEOREM SwitchHonoursTerms == SwitchSpec => []TermHonoured
  BY SwitchKeepsTheLease, LeaseHonoursTerms, PTL

-----------------------------------------------------------------------------
(***************************************************************************)
(* The owner of the facility, and who writes under it.                     *)
(***************************************************************************)

\* Only the lock call makes a run the owner, and it does not write.
LEMMA OwnerCases ==
  ASSUME SwitchTypeOK, NEW r \in Attempt, Act(r), NEW m \in Attempt, owner' = m
  PROVE  owner = m \/ (m = r /\ pc[r] = "lock" /\ pc'[r] = "verify")
<1>1. CASE UNCHANGED leaseSwitchVars
  BY <1>1 DEF leaseSwitchVars
<1>2. CASE Acquire(r)
  BY <1>2 DEF Acquire, Grant, Evict, leaseSwitchVars, SwitchTypeOK
<1>3. CASE Verify(r)
  BY <1>3 DEF Verify, Confirm, leaseSwitchVars
<1>4. CASE Succeed(r) \/ Rescue(r) \/ Always(r)
  BY <1>4 DEF Succeed, Rescue, Always, ReleaseLock, Release, leaseSwitchVars
<1>5. QED
  BY <1>1, <1>2, <1>3, <1>4, ActGoes

\* A step that writes to the coordinator or the release leaves its trace.
LEMMA WriteCases ==
  ASSUME SwitchTypeOK, NEW r \in Attempt, Act(r)
  PROVE  UNCHANGED pod /\ (UNCHANGED <<coord, revs, deployed, spec>> \/ Trace(r))
<1>1. CASE \/ Start(r) \/ Acquire(r) \/ Verify(r) \/ ReadCoordinator(r) \/ ResolveChart(r)
           \/ CaptureBaseline(r) \/ PollDeploy(r) \/ PollCoord(r) \/ VerifyValues(r)
           \/ VerifyDeploy(r) \/ VerifyCoord(r) \/ Conclude(r) \/ Fail(r) \/ FinalReadback(r)
           \/ Succeed(r) \/ Rescue(r) \/ Always(r) \/ LaunchRead(r) \/ LaunchGuard(r) \/ CallFails(r)
  BY <1>1 DEF Start, Acquire, Verify, ReadCoordinator, ResolveChart, CaptureBaseline, PollDeploy,
          PollCoord, VerifyValues, VerifyDeploy, VerifyCoord, Conclude, Fail, FinalReadback, Succeed,
          Rescue, Always, ReleaseLock, LaunchRead, LaunchGuard, CallFails, cluster
<1>2. CASE \/ QuiesceActive(r) \/ QuiesceEndpoint(r) \/ Upgrade(r) \/ RollBack(r) \/ Restore(r)
           \/ Select(r)
  BY <1>2 DEF QuiesceActive, QuiesceEndpoint, Upgrade, RollBack, Restore, Select, PatchCoord
<1>3. CASE LaunchPatch(r)
  BY <1>3 DEF LaunchPatch, PatchCoord
<1>4. CASE Kill(r)
  BY <1>4 DEF Kill, Interrupted
<1>5. QED
  BY <1>1, <1>2, <1>3, <1>4 DEF Act

\* While no run writes without owning the facility, nobody but the owner writes.
LEMMA OthersKeepOff ==
  ASSUME SwitchTypeOK, NEW r \in Attempt, Act(r), Frame(r), owner # r, strays' = {}
  PROVE  strays = {} /\ UNCHANGED <<coord, revs, deployed, spec, pod>>
  BY WriteCases DEF Trace, Frame, Remembers

\* What the owner knows stays true while others step.
LEMMA FrameInformed ==
  ASSUME SwitchTypeOK, NEW r \in Attempt, Frame(r), NEW m \in Attempt \ {r}, Informed(m),
         UNCHANGED <<coord, revs, deployed, spec, pod>>
  PROVE  Informed(m)'
<1>1. /\ pc'[m] = pc[m] /\ base'[m] = base[m] /\ checks'[m] = checks[m] /\ target'[m] = target[m]
      /\ (m \in applied' <=> m \in applied) /\ (m \in settled' <=> m \in settled)
  BY DEF Frame, Moves, Remembers, Learns
<1>2. Last(revs)' = Last(revs)
  BY DEF Last
<1>3. QED
  BY <1>1, <1>2 DEF Informed, Awaiting

\* A settled viewer gets no endpoint but that of the pod it waits for.
LEMMA ViewAwaiting ==
  ASSUME SwitchTypeOK, NEW m \in Attempt, View, m \in settled', Awaiting(m)
  PROVE  Awaiting(m)'
<1> USE DEF SwitchTypeOK, Awaiting
<1>1. UNCHANGED <<spec, target>>
  BY ViewFrame DEF facts
<1>2. CASE Replace
  BY <1>1, <1>2 DEF Replace
<1>3. CASE Publish
  BY <1>1, <1>3 DEF Publish
<1>4. CASE BecomeReady
  BY <1>1, <1>4 DEF BecomeReady
<1>5. CASE Restart
  <2>1. target[m] = pod.flow
    BY <1>5 DEF Restart
  <2>2. pod' = [pod EXCEPT !.ready = FALSE, !.published = FALSE] /\ UNCHANGED coord
    BY <1>5 DEF Restart
  <2>3. QED
    BY <1>1, <2>1, <2>2
<1>6. QED
  BY <1>2, <1>3, <1>4, <1>5 DEF View

\* It stays true while the viewer steps.
LEMMA ViewInformed ==
  ASSUME SwitchTypeOK, NEW m \in Attempt, View, Informed(m)
  PROVE  Informed(m)'
<1>1. /\ UNCHANGED <<revs, deployed, spec, pc, target, base, checks, applied>>
      /\ settled' \subseteq settled
      /\ coord'.active = coord.active /\ (Fresh => Fresh')
      /\ coord' \in CoordType /\ pod'.flow \in {pod.flow, spec}
  BY ViewFrame DEF facts, CoordType
<1>2. Last(revs)' = Last(revs)
  BY <1>1 DEF Last
<1>3. pc'[m] \in Repointing /\ m \in settled' => Awaiting(m)'
  BY <1>1, ViewAwaiting DEF Informed
<1>4. QED
  BY <1>1, <1>2, <1>3 DEF Informed

\* Where nothing is asked of what the owner knows.
Unasked == {"idle", "lock", "verify", "coordinator-read", "launch-read", "fail", "final-readback",
            "release", "rescue", "always", "done", "killed"}

LEMMA UnaskedInformed == ASSUME NEW r \in Attempt, pc'[r] \in Unasked PROVE Informed(r)'
  BY DEF Unasked, Informed, Quiesced, Repointing

\* Before the quiesce: the selection was read, and is still the same.
LEMMA ReadsInform ==
  ASSUME SwitchTypeOK, NEW r \in Attempt, Informed(r), UNCHANGED coord,
         base'[r].active = coord.active,
         pc'[r] \in {"chart-resolve", "baseline-capture", "quiesce", "launch-guard", "launch-patch"}
  PROVE  Informed(r)'
  BY DEF Informed, Quiesced, Repointing

\* A poll of the upgrade, from the quiesce to the selection.
LEMMA UpgradeInforms ==
  ASSUME SwitchTypeOK, NEW r \in Attempt, Local(r), Informed(r),
         QuiesceEndpoint(r) \/ Upgrade(r) \/ PollDeploy(r) \/ PollCoord(r) \/ RollBack(r)
  PROVE  Informed(r)'
<1>1. coord.active = NoSource
  BY DEF Informed, Quiesced, QuiesceEndpoint, Upgrade, PollDeploy, PollCoord, RollBack
<1>2. CASE QuiesceEndpoint(r)
  <2>1. coord'.active = NoSource
    BY <1>1, <1>2 DEF QuiesceEndpoint, PatchCoord, SwitchTypeOK
  <2>2. CASE Raise(r)
    BY <2>2, RaiseMoves, UnaskedInformed DEF Unasked
  <2>3. CASE Goto(r, "upgrade")
    <3>1. pc'[r] = "upgrade"
      BY <2>3, GotoMoves DEF SwitchLabel, Body, Quiesced
    <3>2. r \in settled' => Awaiting(r)'
      <4>1. r \in settled' => pod.flow = spec /\ pod.published
        BY <1>2 DEF QuiesceEndpoint, PatchCoord, Trace
      <4>2. coord'.endpoint = NoSource /\ UNCHANGED <<pod, spec>>
        BY <1>2 DEF QuiesceEndpoint, PatchCoord, SwitchTypeOK
      <4>3. QED
        BY <4>1, <4>2 DEF Awaiting
    <3>3. QED
      BY <2>1, <3>1, <3>2 DEF Informed
  <2>4. QED
    BY <1>2, <2>2, <2>3 DEF QuiesceEndpoint, ThenGoto
<1>3. CASE Upgrade(r)
  <2>1. pc'[r] = "poll-deploy"
    BY <1>3, GotoMoves DEF Upgrade, SwitchLabel, Body, Quiesced
  <2>2. r \notin applied
    BY <1>3 DEF Upgrade, Local, FlagsOK, Unapplied
  <2>3. r \in applied' => spec' = target[r]
    BY <1>3, <2>2 DEF Upgrade
  <2>4. UNCHANGED <<coord, target>>
    BY <1>3 DEF Upgrade
  <2>5. r \in settled' => Awaiting(r)'
    <3>1. UNCHANGED <<settled, pod>> /\ spec' \in {spec, target[r]}
      BY <1>3 DEF Upgrade, Trace, Helm
    <3>2. r \in settled => Awaiting(r)
      BY <1>3 DEF Upgrade, Informed, Repointing
    <3>3. QED
      BY <2>4, <3>1, <3>2 DEF Awaiting
  <2>6. QED
    BY <1>1, <2>1, <2>3, <2>4, <2>5 DEF Informed
<1>4. CASE PollDeploy(r)
  <2>1. pc'[r] = "poll-coord" /\ checks'[r] = RolledOut
    BY <1>4, GotoMoves DEF PollDeploy, SwitchLabel, Body, Quiesced, SwitchTypeOK
  <2>2. UNCHANGED <<coord, spec, pod, target, applied, settled>>
    BY <1>4 DEF PollDeploy, cluster, past
  <2>3. r \in applied => spec = target[r]
    BY <1>4 DEF PollDeploy, Informed
  <2>4. checks'[r] => pod.flow = spec
    BY <2>1 DEF RolledOut
  <2>5. r \in settled' => Awaiting(r)'
    BY <1>4, <2>2 DEF PollDeploy, Informed, Repointing, Awaiting
  <2>6. QED
    BY <1>1, <2>1, <2>2, <2>3, <2>4, <2>5 DEF Informed
<1>5. CASE PollCoord(r)
  <2>1. UNCHANGED <<coord, spec, pod, target, applied, settled>>
    BY <1>5 DEF PollCoord, cluster, past
  <2>2. /\ r \in applied => spec = target[r]
        /\ checks[r] => pod.flow = spec
    BY <1>5 DEF PollCoord, Informed
  <2>3. IF checks[r] /\ Fresh THEN pc'[r] = "select" ELSE pc'[r] \in {"poll-deploy", "rollback"}
    <3>1. (checks[r] /\ Fresh) \in BOOLEAN
      BY DEF SwitchTypeOK
    <3>2. QED
      BY <1>5, <3>1, PollMoves DEF PollCoord, SwitchLabel, Body, Quiesced
  <2>4. r \in settled' => Awaiting(r)'
    BY <1>5, <2>1 DEF PollCoord, Informed, Repointing, Awaiting
  <2>5. QED
    BY <1>1, <2>1, <2>2, <2>3, <2>4 DEF Informed
<1>6. CASE RollBack(r)
  <2>1. pc'[r] = "verify-values" /\ UNCHANGED coord
    BY <1>6, GotoMoves DEF RollBack, SwitchLabel, Body, Quiesced
  <2>2. QED
    BY <1>1, <2>1 DEF Informed, Repointing
<1>7. QED
  BY <1>2, <1>3, <1>4, <1>5, <1>6

\* The verification of a rollback, and the restore.
LEMMA RollBackInforms ==
  ASSUME SwitchTypeOK, NEW r \in Attempt, Informed(r),
         VerifyValues(r) \/ VerifyDeploy(r) \/ VerifyCoord(r) \/ Restore(r)
  PROVE  Informed(r)'
<1>1. coord.active = NoSource
  BY DEF Informed, Quiesced, VerifyValues, VerifyDeploy, VerifyCoord, Restore
<1>2. UNCHANGED <<revs, spec, base>> /\ Last(revs)' = Last(revs)
  BY DEF VerifyValues, VerifyDeploy, VerifyCoord, Restore, cluster, facts, Last
<1>3. CASE VerifyValues(r)
  <2>1. pc'[r] = "verify-deploy" /\ UNCHANGED coord
    BY <1>3, GotoMoves DEF VerifyValues, SwitchLabel, Body, Quiesced, cluster
  <2>2. checks'[r] => Last(revs) = base[r].flow
    BY <1>3 DEF VerifyValues, SwitchTypeOK
  <2>3. QED
    BY <1>1, <1>2, <2>1, <2>2 DEF Informed, Repointing
<1>4. CASE VerifyDeploy(r)
  <2>1. pc'[r] = "verify-coord" /\ UNCHANGED coord
    BY <1>4, GotoMoves DEF VerifyDeploy, SwitchLabel, Body, Quiesced, cluster
  <2>2. checks'[r] => checks[r] /\ spec = base[r].flow
    BY <1>4 DEF VerifyDeploy, SwitchTypeOK
  <2>3. checks[r] => Last(revs) = base[r].flow
    BY <1>4 DEF VerifyDeploy, Informed
  <2>4. QED
    BY <1>1, <1>2, <2>1, <2>2, <2>3 DEF Informed, Repointing
<1>5. CASE VerifyCoord(r)
  <2>1. UNCHANGED coord
    BY <1>5 DEF VerifyCoord, cluster
  <2>2. checks[r] => Last(revs) = base[r].flow /\ spec = base[r].flow
    BY <1>5 DEF VerifyCoord, Informed
  <2> DEFINE ok == checks[r] /\ Fresh
             yes == IF base[r].active # NoSource THEN "restore" ELSE "conclude"
  <2>3. /\ checks'[r] = ok
        /\ IF ok THEN pc'[r] = yes ELSE pc'[r] \in {"verify-values", "conclude"}
    <3>1. ok \in BOOLEAN /\ yes \in SwitchLabel
      BY DEF SwitchTypeOK, SwitchLabel, Body, Quiesced
    <3>2. NextPoll(r, ok, yes, "verify-values", "conclude")
          /\ UNCHANGED <<cluster, target, base, emitted, events>>
      BY <1>5 DEF VerifyCoord
    <3> HIDE DEF ok, yes
    <3>3. QED
      BY <3>1, <3>2, PollMoves DEF SwitchLabel, Body, Quiesced
  <2>4. CASE ok
    BY <1>1, <1>2, <2>1, <2>2, <2>3, <2>4 DEF Informed, Repointing
  <2>5. CASE ~ok
    BY <1>1, <1>2, <2>1, <2>3, <2>5 DEF Informed, Repointing
  <2>6. QED
    BY <2>4, <2>5
<1>6. CASE Restore(r)
  <2>1. CASE Raise(r)
    BY <2>1, RaiseMoves, UnaskedInformed DEF Unasked
  <2>2. CASE Goto(r, "conclude")
    <3>1. pc'[r] = "conclude" /\ UNCHANGED checks
      BY <1>6, <2>2, GotoMoves DEF Restore, SwitchLabel, Body, facts
    <3>2. coord'.active = base[r].active /\ coord'.endpoint = coord.endpoint
      BY <1>6 DEF Restore, PatchCoord, SwitchTypeOK
    <3>3. /\ checks[r] /\ Fresh
          /\ Last(revs) = base[r].flow /\ spec = base[r].flow
      BY <1>6 DEF Restore, Informed
    <3>4. QED
      BY <1>2, <3>1, <3>2, <3>3 DEF Informed, Quiesced, Repointing
  <2>3. QED
    BY <1>6, <2>1, <2>2 DEF Restore, ThenGoto
<1>7. QED
  BY <1>3, <1>4, <1>5, <1>6

\* The owner knows what it has just read or written.
LEMMA ActInformed ==
  ASSUME SwitchTypeOK, NEW r \in Attempt, Local(r), Informed(r), Act(r)
  PROVE  Informed(r)'
<1> USE DEF SwitchLabel, Body, Reads, Quiesced, Launching
<1>1. ASSUME Raise(r) PROVE Informed(r)'
  BY <1>1, RaiseMoves, UnaskedInformed DEF Unasked
<1>2. ASSUME NEW l \in Unasked, Goto(r, l) PROVE Informed(r)'
  BY <1>2, GotoMoves, UnaskedInformed DEF Unasked
<1>3. CASE Start(r) \/ Conclude(r) \/ Fail(r) \/ FinalReadback(r) \/ CallFails(r) \/ Kill(r)
  BY <1>1, <1>2, <1>3 DEF Start, Conclude, Fail, FinalReadback, CallFails, Kill, Unasked
<1>4. CASE Select(r) \/ Succeed(r) \/ Rescue(r) \/ Always(r)
  BY <1>1, <1>2, <1>4 DEF Select, Succeed, Rescue, Always, ReleaseLock, ThenGoto, Unasked
<1>5. CASE Acquire(r)
  <2>1. pc'[r] \in Unasked
    <3>1. CASE Raise(r)
      BY <3>1, RaiseMoves DEF Unasked
    <3>2. CASE pc' = [pc EXCEPT ![r] = "verify"] \/ UNCHANGED pc
      BY <1>5, <3>2 DEF Acquire, Unasked, SwitchTypeOK
    <3>3. QED
      BY <1>5, <3>1, <3>2 DEF Acquire
  <2>2. QED
    BY <2>1, UnaskedInformed
<1>6. CASE Verify(r)
  <2>1. pc'[r] \in Unasked
    <3>1. CASE Raise(r)
      BY <3>1, RaiseMoves DEF Unasked
    <3>2. CASE pc' = [pc EXCEPT ![r] = IF r \in SwitchRun THEN "coordinator-read" ELSE "launch-read"]
      BY <3>2 DEF Unasked, SwitchTypeOK
    <3>3. QED
      BY <1>6, <3>1, <3>2 DEF Verify
  <2>2. QED
    BY <2>1, UnaskedInformed
<1>7. CASE ReadCoordinator(r) \/ LaunchRead(r)
  <2>1. base'[r].active = coord.active /\ UNCHANGED coord
    BY <1>7 DEF ReadCoordinator, LaunchRead, SwitchTypeOK, cluster
  <2>2. CASE Goto(r, "chart-resolve") \/ Goto(r, "launch-guard")
    BY <2>1, <2>2, GotoMoves, ReadsInform
  <2>3. CASE Goto(r, "release")
    BY <2>3, <1>2 DEF Unasked
  <2>4. QED
    BY <1>7, <2>2, <2>3 DEF ReadCoordinator, LaunchRead
<1>8. CASE ResolveChart(r) \/ CaptureBaseline(r) \/ LaunchGuard(r)
  <2>1. base'[r].active = base[r].active /\ UNCHANGED coord
    BY <1>8 DEF ResolveChart, CaptureBaseline, LaunchGuard, SwitchTypeOK, cluster, facts
  <2>2. base[r].active = coord.active
    BY <1>8 DEF Informed, ResolveChart, CaptureBaseline, LaunchGuard
  <2>3. CASE Goto(r, "baseline-capture") \/ Goto(r, "quiesce") \/ Goto(r, "launch-patch")
    BY <2>1, <2>2, <2>3, GotoMoves, ReadsInform
  <2>4. QED
    BY <1>8, <2>3, <1>1 DEF ResolveChart, CaptureBaseline, LaunchGuard
<1>9. CASE QuiesceActive(r)
  <2>1. coord'.active = NoSource
    BY <1>9 DEF QuiesceActive, PatchCoord, SwitchTypeOK
  <2>2. CASE Goto(r, "quiesce-endpoint")
    <3>1. pc'[r] = "quiesce-endpoint"
      BY <2>2, GotoMoves
    <3>2. QED
      BY <2>1, <3>1 DEF Informed, Repointing
  <2>3. QED
    BY <1>9, <1>1, <2>2 DEF QuiesceActive, ThenGoto
<1>10. CASE LaunchPatch(r)
  BY <1>1, <1>2, <1>10 DEF LaunchPatch, ThenGoto, Unasked
<1>11. CASE \/ QuiesceEndpoint(r) \/ Upgrade(r) \/ PollDeploy(r) \/ PollCoord(r) \/ RollBack(r)
            \/ VerifyValues(r) \/ VerifyDeploy(r) \/ VerifyCoord(r) \/ Restore(r)
  BY <1>11, UpgradeInforms, RollBackInforms
<1>12. QED
  BY <1>3, <1>4, <1>5, <1>6, <1>7, <1>8, <1>9, <1>10, <1>11 DEF Act

\* A run does not come back to its lock call.
LEMMA PastTheLock ==
  ASSUME SwitchTypeOK, NEW r \in Attempt, Act(r), pc'[r] \in {"idle", "lock"}
  PROVE  pc[r] \in {"idle", "lock"}
<1> USE DEF SwitchLabel, Body, Reads, Quiesced, Launching
<1>1. ~Raise(r)
  BY RaiseMoves
<1>2. \A l \in SwitchLabel \ {"idle", "lock"} : ~Goto(r, l)
  BY GotoMoves
<1>3. CASE Start(r) \/ Acquire(r)
  BY <1>3 DEF Start, Acquire
<1>4. CASE Verify(r)
  BY <1>1, <1>4 DEF Verify, SwitchTypeOK
<1>5. CASE \/ ReadCoordinator(r) \/ ResolveChart(r) \/ CaptureBaseline(r) \/ Upgrade(r)
           \/ PollDeploy(r) \/ RollBack(r) \/ VerifyValues(r) \/ VerifyDeploy(r) \/ Conclude(r)
           \/ Fail(r) \/ FinalReadback(r) \/ LaunchRead(r) \/ LaunchGuard(r) \/ CallFails(r) \/ Kill(r)
  BY <1>1, <1>2, <1>5 DEF ReadCoordinator, ResolveChart, CaptureBaseline, Upgrade, PollDeploy,
     RollBack, VerifyValues, VerifyDeploy, Conclude, Fail, FinalReadback, LaunchRead, LaunchGuard,
     CallFails, Kill
<1>6. CASE \/ QuiesceActive(r) \/ QuiesceEndpoint(r) \/ Restore(r) \/ Select(r) \/ LaunchPatch(r)
           \/ Succeed(r) \/ Rescue(r) \/ Always(r)
  BY <1>1, <1>2, <1>6 DEF QuiesceActive, QuiesceEndpoint, Restore, Select, LaunchPatch, Succeed,
     Rescue, Always, ReleaseLock, ThenGoto
<1>7. CASE PollCoord(r) \/ VerifyCoord(r)
  BY <1>2, <1>7 DEF PollCoord, VerifyCoord, NextPoll
<1>8. QED
  BY <1>3, <1>4, <1>5, <1>6, <1>7 DEF Act

\* The owner stays informed.
LEMMA OwnerStep == ASSUME SwitchInv, [SwitchNext]_switchVars PROVE OwnerOK'
<1>1. SwitchTypeOK /\ \A m \in Attempt : Local(m)
  BY DEF SwitchInv, FlowInv
<1>2. ASSUME NEW r \in Attempt, Act(r), NEW m \in Attempt, owner' = m
      PROVE  pc'[m] \notin {"idle", "lock"} /\ (strays' = {} => Informed(m)')
  <2>1. Frame(r)
    BY <1>1, <1>2, ActType DEF Local
  <2>2. strays' = {} => strays = {}
    BY <2>1 DEF Frame, Remembers
  <2>3. CASE owner = m /\ m = r
    <3>1. pc[r] \notin {"idle", "lock"} /\ (strays = {} => Informed(r))
      BY <2>3 DEF SwitchInv, OwnerOK
    <3>2. QED
      BY <1>1, <1>2, <2>2, <2>3, <3>1, PastTheLock, ActInformed
  <2>4. CASE owner = m /\ m # r
    <3>1. pc[m] \notin {"idle", "lock"} /\ (strays = {} => Informed(m))
      BY <2>4 DEF SwitchInv, OwnerOK
    <3>2. pc'[m] = pc[m]
      BY <2>1, <2>4 DEF Frame, Moves
    <3>3. QED
      BY <1>1, <1>2, <2>1, <2>2, <2>4, <3>1, <3>2, OthersKeepOff, FrameInformed
  <2>5. CASE m = r /\ pc'[r] = "verify"
    BY <2>5, UnaskedInformed DEF Unasked
  <2>6. QED
    BY <1>1, <1>2, <2>3, <2>4, <2>5, OwnerCases
<1>3. CASE View
  BY <1>1, <1>3, ViewFrame, ViewInformed DEF SwitchInv, OwnerOK, leaseVars
<1>4. ASSUME UNCHANGED <<owner, cluster, facts, past, pc>> PROVE OwnerOK'
  <2>1. Last(revs)' = Last(revs)
    BY <1>4 DEF cluster, Last
  <2>2. QED
    BY <1>4, <2>1 DEF SwitchInv, OwnerOK, Informed, Awaiting, cluster, facts, past
<1>5. CASE Expire
  BY <1>4, <1>5 DEF Expire, Age
<1>6. CASE UNCHANGED switchVars
  BY <1>4, <1>6 DEF switchVars, leaseVars
<1>7. QED
  BY <1>2, <1>3, <1>5, <1>6, NextCases DEF OwnerOK

\* The inductive invariant.
LEMMA SwitchAlways == SwitchSpec => []SwitchInv
<1>1. SwitchInit => SwitchInv
  BY FlowInit DEF SwitchInv, OwnerOK, SwitchInit, LeaseInit
<1>2. SwitchInv /\ [SwitchNext]_switchVars => SwitchInv'
  BY FlowStep, OwnerStep DEF SwitchInv
<1>3. QED
  BY <1>1, <1>2, PTL DEF SwitchSpec

-----------------------------------------------------------------------------
(***************************************************************************)
(* What the owner promises.                                                *)
(***************************************************************************)

(***************************************************************************)
(* From the quiesce to the selection or the restore nothing is selected:   *)
(* no launch, no other switch and no step of the rollback selects a source *)
(* into a viewer that is being re-pointed.                                 *)
(***************************************************************************)
THEOREM NothingSelectedWhileSwitching == SwitchSpec => []QuiescedWhileSwitching
<1>1. SwitchInv => QuiescedWhileSwitching
  BY DEF SwitchInv, OwnerOK, Informed, QuiescedWhileSwitching
<1>2. QED
  BY <1>1, SwitchAlways, PTL

\* Which events there are, and where.
LEMMA EventCases ==
  ASSUME SwitchTypeOK, NEW r \in SwitchRun, Act(r), events'[r] # events[r]
  PROVE  \/ Last(events'[r]) = [token |-> "refused", detail |-> StageOf(pc[r])]
         \/ Last(events'[r]) = [token |-> "success", detail |-> "none"]
         \/ Conclude(r) /\ Last(events'[r]) = [token |-> Verdict(r), detail |-> "none"]
<1>1. CASE EmitRefused(r)
  BY <1>1, RefuseMoves
<1>2. CASE Conclude(r)
  <2>1. Verdict(r) \in Token
    BY DEF Verdict, Token
  <2>2. QED
    BY <1>2, <2>1, EmitMoves DEF Conclude
<1>3. CASE Emit(r, "success", "none")
  <2>1. "success" \in Token
    BY DEF Token
  <2>2. QED
    BY <1>3, <2>1, EmitMoves
<1>4. Raise(r) => EmitRefused(r)
  BY DEF Raise
<1>5. \A l \in SwitchLabel : ThenGoto(r, l) => EmitRefused(r)
  BY <1>4 DEF ThenGoto
<1> USE DEF SwitchLabel, Body, Reads, Quiesced, Launching
<1>6. CASE Start(r) \/ Acquire(r) \/ Verify(r) \/ ResolveChart(r) \/ Fail(r) \/ FinalReadback(r)
           \/ LaunchGuard(r) \/ CallFails(r)
  BY <1>1, <1>4, <1>6 DEF Start, Acquire, Verify, ResolveChart, Fail, FinalReadback, LaunchGuard,
     CallFails
<1>7. CASE \/ QuiesceActive(r) \/ QuiesceEndpoint(r) \/ Restore(r) \/ Select(r) \/ LaunchPatch(r)
           \/ Rescue(r) \/ Always(r)
  BY <1>1, <1>4, <1>5, <1>7 DEF QuiesceActive, QuiesceEndpoint, Restore, Select, LaunchPatch,
     Rescue, Always, ReleaseLock
<1>8. CASE Succeed(r)
  BY <1>1, <1>3, <1>4, <1>8 DEF Succeed
<1>9. CASE \/ ReadCoordinator(r) \/ CaptureBaseline(r) \/ Upgrade(r) \/ PollDeploy(r) \/ PollCoord(r)
           \/ RollBack(r) \/ VerifyValues(r) \/ VerifyDeploy(r) \/ VerifyCoord(r) \/ LaunchRead(r)
           \/ Kill(r)
  BY <1>9 DEF ReadCoordinator, CaptureBaseline, Upgrade, PollDeploy, PollCoord, RollBack,
     VerifyValues, VerifyDeploy, VerifyCoord, LaunchRead, Kill
<1>10. QED
  BY <1>2, <1>6, <1>7, <1>8, <1>9 DEF Act

\* Only its own steps emit an event of a run.
LEMMA OwnEvents ==
  ASSUME FlowInv, [SwitchNext]_switchVars, NEW r \in Attempt, events'[r] # events[r]
  PROVE  Act(r)
<1>1. ASSUME NEW m \in Attempt, Act(m) PROVE m = r
  BY <1>1, ActType DEF FlowInv, Local, Frame, Moves
<1>2. ~View /\ ~Expire /\ ~UNCHANGED switchVars
  BY ViewFrame DEF FlowInv, Expire, switchVars
<1>3. QED
  BY <1>1, <1>2, NextCases

\* A refusal at a stage before the quiesce comes from a run that has not written.
LEMMA RefusalTells ==
  ASSUME SwitchTypeOK, NEW r \in Attempt, Local(r), StageOf(pc[r]) \in PreMutation
  PROVE  r \notin touched
<1>1. pc[r] \in Untouched
  BY DEF StageOf, PreMutation, Reads, Untouched
<1>2. QED
  BY <1>1 DEF Local, FlagsOK

\* The verdict of an owner that is informed is what the cluster is.
LEMMA VerdictTells ==
  ASSUME SwitchTypeOK, NEW r \in Attempt, Informed(r), pc[r] = "conclude",
         NEW e, e = [token |-> Verdict(r), detail |-> "none"]
  PROVE  Truthful(r, e)
<1>1. e.token = Verdict(r)
  OBVIOUS
<1>2. CASE checks[r]
  <2>1. /\ coord.active = base[r].active /\ Fresh
        /\ Last(revs) = base[r].flow /\ spec = base[r].flow
    BY <1>2 DEF Informed
  <2>2. CASE base[r].active = NoSource
    BY <1>1, <1>2, <2>1, <2>2 DEF Truthful, Verdict
  <2>3. CASE base[r].active # NoSource
    BY <1>1, <1>2, <2>1, <2>3 DEF Truthful, Verdict
  <2>4. QED
    BY <2>2, <2>3
<1>3. CASE ~checks[r]
  <2>1. coord.active = NoSource
    BY <1>3 DEF Informed
  <2>2. QED
    BY <1>1, <1>3, <2>1 DEF Truthful, Verdict
<1>4. QED
  BY <1>2, <1>3

(***************************************************************************)
(* What a switch that owns the facility reports of its rollback is what    *)
(* the cluster is, and a refusal that names a stage before the quiesce     *)
(* comes from a switch that has changed nothing, owner or not.             *)
(***************************************************************************)
THEOREM SwitchTellsTheTruth == SwitchSpec => EventTellsTheTruth
<1> DEFINE Tells(r) == events'[r] # events[r] =>
             LET e == Last(events'[r])
             IN  /\ owner = r /\ strays = {} => Truthful(r, e)
                 /\ e.token = "refused" /\ e.detail \in PreMutation => r \notin touched
<1>1. ASSUME SwitchInv, [SwitchNext]_switchVars, NEW r \in SwitchRun PROVE Tells(r)
  <2> SUFFICES ASSUME events'[r] # events[r] PROVE Tells(r)
    OBVIOUS
  <2>1. Act(r) /\ SwitchTypeOK /\ Local(r)
    BY <1>1, OwnEvents DEF SwitchInv, FlowInv
  <2>2. CASE Last(events'[r]) = [token |-> "refused", detail |-> StageOf(pc[r])]
    BY <2>1, <2>2, RefusalTells DEF Truthful
  <2>3. CASE Last(events'[r]) = [token |-> "success", detail |-> "none"]
    BY <2>3 DEF Truthful
  <2>4. CASE Conclude(r) /\ Last(events'[r]) = [token |-> Verdict(r), detail |-> "none"]
    <3>1. owner = r /\ strays = {} => Informed(r)
      BY <1>1 DEF SwitchInv, OwnerOK
    <3>2. Verdict(r) # "refused" /\ pc[r] = "conclude"
      BY <2>4 DEF Verdict, Conclude
    <3>3. QED
      BY <2>1, <2>4, <3>1, <3>2, VerdictTells
  <2>5. QED
    BY <2>1, <2>2, <2>3, <2>4, EventCases
<1>2. SwitchInv /\ [SwitchNext]_switchVars => [\A r \in SwitchRun : Tells(r)]_switchVars
  BY <1>1
<1> HIDE DEF Tells
<1>3. SwitchSpec => [][\A r \in SwitchRun : Tells(r)]_switchVars
  BY <1>2, SwitchAlways, PTL DEF SwitchSpec
<1>4. QED
  BY <1>3 DEF EventTellsTheTruth, Tells

\* Another selection, with the facility in the hands of a run and nobody writing
\* without it, is that run's own write.
LEMMA SelectionIsTheOwners ==
  ASSUME FlowInv, [SwitchNext]_switchVars, NEW r \in Attempt, owner = r,
         coord'.active # coord.active, strays' = {}
  PROVE  Act(r) /\ strays = {}
<1>1. ASSUME NEW m \in Attempt, Act(m) PROVE m = r /\ strays = {}
  <2>1. SwitchTypeOK /\ Frame(m)
    BY <1>1, ActType DEF FlowInv, Local
  <2>2. strays = {}
    BY <2>1 DEF Frame, Remembers
  <2>3. QED
    BY <1>1, <2>1, <2>2, OthersKeepOff
<1>2. ~View /\ ~Expire /\ ~UNCHANGED switchVars
  BY ViewFrame DEF FlowInv, Expire, switchVars, cluster
<1>3. QED
  BY <1>1, <1>2, NextCases

(***************************************************************************)
(* A switch that owns the facility selects its target only with an         *)
(* endpoint published since its quiesce and, if its upgrade was applied,   *)
(* with a pod of the target's flow running: the verdict of the last poll   *)
(* still holds when the selection is written, whatever the viewer did in   *)
(* between.  If the viewer was settled when its endpoint was cleared, and  *)
(* no pod of another flow restarted since, that endpoint was published by  *)
(* a pod of the target's flow (PHASE 1 and PHASE 2 verify).                *)
(***************************************************************************)
THEOREM SelectionMatchesViewer == SwitchSpec => SelectMatchesViewer
<1> DEFINE Matches(r) ==
      pc[r] = "select" /\ owner = r /\ coord'.active # coord.active /\ strays' = {}
         => /\ Fresh
            /\ r \in applied => pod.flow = target[r]
            /\ r \in settled => coord.endpoint = target[r]
<1>1. ASSUME SwitchInv, [SwitchNext]_switchVars, NEW r \in SwitchRun PROVE Matches(r)
  <2> SUFFICES ASSUME pc[r] = "select", owner = r, coord'.active # coord.active, strays' = {}
               PROVE  /\ Fresh
                      /\ r \in applied => pod.flow = target[r]
                      /\ r \in settled => coord.endpoint = target[r]
    OBVIOUS
  <2>1. strays = {}
    BY <1>1, SelectionIsTheOwners DEF SwitchInv
  <2>2. Informed(r)
    BY <1>1, <2>1 DEF SwitchInv, OwnerOK
  <2>3. Fresh /\ (r \in applied => pod.flow = target[r])
    BY <2>2 DEF Informed
  <2>4. r \in settled => Awaiting(r)
    BY <2>2 DEF Informed, Repointing
  <2>5. QED
    BY <2>3, <2>4 DEF Awaiting
<1>2. SwitchInv /\ [SwitchNext]_switchVars => [\A r \in SwitchRun : Matches(r)]_switchVars
  BY <1>1
<1> HIDE DEF Matches
<1>3. SwitchSpec => [][\A r \in SwitchRun : Matches(r)]_switchVars
  BY <1>2, SwitchAlways, PTL DEF SwitchSpec
<1>4. QED
  BY <1>3 DEF SelectMatchesViewer, Matches

(***************************************************************************)
(* A launch that owns the facility writes an absent selection only: what   *)
(* it read before its checkpoint is still there when it patches.           *)
(***************************************************************************)
THEOREM LaunchesKeepTheSelection == SwitchSpec => LaunchKeepsSelection
<1> DEFINE Keeps(r) ==
      pc[r] = "launch-patch" /\ owner = r /\ coord'.active # coord.active /\ strays' = {}
         => coord.active = NoSource
<1>1. ASSUME SwitchInv, [SwitchNext]_switchVars, NEW r \in LaunchRun PROVE Keeps(r)
  <2> SUFFICES ASSUME pc[r] = "launch-patch", owner = r, coord'.active # coord.active, strays' = {}
               PROVE  coord.active = NoSource
    OBVIOUS
  <2>1. Act(r) /\ strays = {} /\ SwitchTypeOK
    BY <1>1, SelectionIsTheOwners DEF SwitchInv, FlowInv
  <2>2. base[r].active = coord.active
    BY <1>1, <2>1 DEF SwitchInv, OwnerOK, Informed
  <2>3. LaunchPatch(r)
    <3>1. UNCHANGED coord \/ LaunchPatch(r)
      BY <2>1 DEF Act, Start, Acquire, Verify, ReadCoordinator, ResolveChart, CaptureBaseline,
         QuiesceActive, QuiesceEndpoint, Upgrade, PollDeploy, PollCoord, RollBack, VerifyValues,
         VerifyDeploy, VerifyCoord, Restore, Conclude, Fail, Select, FinalReadback, Succeed, Rescue,
         Always, LaunchRead, LaunchGuard, CallFails, Kill, cluster
    <3>2. QED
      BY <3>1
  <2>4. QED
    BY <2>2, <2>3 DEF LaunchPatch
<1>2. SwitchInv /\ [SwitchNext]_switchVars => [\A r \in LaunchRun : Keeps(r)]_switchVars
  BY <1>1
<1> HIDE DEF Keeps
<1>3. SwitchSpec => [][\A r \in LaunchRun : Keeps(r)]_switchVars
  BY <1>2, SwitchAlways, PTL DEF SwitchSpec
<1>4. QED
  BY <1>3 DEF LaunchKeepsSelection, Keeps
=============================================================================
