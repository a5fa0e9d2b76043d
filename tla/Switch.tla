------------------------------- MODULE Switch -------------------------------
(***************************************************************************)
(* Switching a viewer to another source: switch-mxl-fabrics-demo.yml with  *)
(* its tasks in roles/l3_run_guard, and the part of                        *)
(* launch-mxl-fabrics-demo.yml that writes the same coordinator.           *)
(*                                                                         *)
(* A switch quiesces (clears the coordinator), re-points the viewer's Helm *)
(* release, waits until the viewer is back, and selects the new source; if *)
(* the viewer does not come back it rolls the release back and restores    *)
(* the old selection.  All of it under one facility lock (FacilityLease)   *)
(* and without a checkpoint.  The viewer's pod, which publishes            *)
(* target-info and epoch when it starts, is external.                      *)
(*                                                                         *)
(* There is one viewer; a flow is named by the source that sends it, so    *)
(* the viewer projection of a target source is the source itself.          *)
(***************************************************************************)
EXTENDS FacilityLease, Naturals, Sequences, SequencesExt

CONSTANTS
  SwitchRun, LaunchRun,  \* the runs of each playbook
  Source,                \* sources[].id, and their flows
  NoSource,              \* an absent active-source, or endpoint
  MaxPolls,              \* timeout // delay + 1
  MaxRestarts,           \* bound on restarts of the viewer's containers
  Faults                 \* a subset of {"kill", "api", "helm"}

ASSUME SwitchAssumption ==
  /\ Attempt = SwitchRun \cup LaunchRun
  /\ SwitchRun \cap LaunchRun = {}
  /\ NoSource \notin Source
  /\ MaxPolls \in Nat \ {0}
  /\ MaxRestarts \in Nat
  /\ Faults \subseteq {"kill", "api", "helm"}

VARIABLES
  coord,     \* ConfigMap mxl-coordinator: active-source; endpoint, the flow of the pod
             \* that target-info and epoch are from
  revs,      \* Helm revisions of the viewer's release: the flow.id of each
  deployed,  \* the last revision's status is "deployed"
  spec,      \* flow of the Deployment's pod template
  pod,       \* the running pod: its flow, ready, and whether it has published
  restarts,  \* restarts of the viewer's containers so far
  pc,        \* where a run is
  target,    \* the source a run asks for
  base,      \* _switch_baseline: active_source, revision, flow_id
  polls,     \* attempts of the running poll
  checks,    \* the criteria of the running attempt still satisfied
  emitted,   \* runs with _switch_outcome_emitted
  events,    \* DMF_L3_SWITCH_OUTCOME events of a run, in order
  touched,   \* history: runs that changed the coordinator or the release
  applied,   \* history: switches whose upgrade changed the Deployment
  settled,   \* history: switches that quiesced a viewer whose pod was there and had published,
             \* and that no restart of another flow's pod disturbed since
  strays     \* history: runs that did so without owning the facility

cluster == <<coord, revs, deployed, spec, pod, restarts>>
facts == <<target, base, polls, checks, emitted>>
past == <<touched, applied, settled, strays>>
leaseSwitchVars == <<owner, aged>>
switchVars == <<leaseVars, cluster, facts, past, pc, events>>

Reads == {"coordinator-read", "chart-resolve", "baseline-capture"}
Quiesced == {"quiesce-endpoint", "upgrade", "poll-deploy", "poll-coord", "rollback",
             "verify-values", "verify-deploy", "verify-coord", "restore", "select"}
Launching == {"launch-read", "launch-guard", "launch-patch"}

\* Labels at which a run acts as the verified holder.
Body == Reads \cup Quiesced \cup Launching
          \cup {"quiesce", "conclude", "fail", "final-readback"}
SwitchLabel == {"idle", "lock", "verify", "release", "rescue", "always", "done", "killed"}
                 \cup Body

Token == {"success", "refused", "rollback_verified_previous_source_restored",
          "rollback_verified_no_previous_source", "rollback_verification_failed"}

\* _switch_stage, the detail of a refusal.
PreMutation == {"pre-lock"} \cup Reads
Stage == PreMutation \cup {"quiesce", "repoint", "select", "final-readback"}
StageOf(label) ==
  CASE label \in {"idle", "lock", "verify"} -> "pre-lock"
    [] label \in Reads \cup {"quiesce", "select", "final-readback"} -> label
    [] label = "quiesce-endpoint" -> "quiesce"
    [] label = "release" -> "final-readback"
    [] OTHER -> "repoint"

SwitchTypeOK ==
  /\ LeaseTypeOK
  /\ coord \in [active : Source \cup {NoSource}, endpoint : Source \cup {NoSource}]
  /\ revs \in Seq(Source) /\ revs # <<>>
  /\ deployed \in BOOLEAN
  /\ spec \in Source
  /\ pod \in [flow : Source, ready : BOOLEAN, published : BOOLEAN]
  /\ restarts \in 0..MaxRestarts
  /\ pc \in [Attempt -> SwitchLabel]
  /\ target \in [Attempt -> Source]
  /\ base \in [Attempt -> [active : Source \cup {NoSource}, rev : 1..Len(revs), flow : Source]]
  /\ polls \in [Attempt -> 1..MaxPolls]
  /\ checks \in [Attempt -> BOOLEAN]
  /\ emitted \subseteq SwitchRun
  /\ events \in [Attempt -> Seq([token : Token, detail : Stage \cup {"none"}])]
  /\ touched \cup applied \cup settled \cup strays \subseteq Attempt

\* A launched topology: the viewer runs at some flow and has published; a
\* selection names that flow or is absent.
SwitchInit ==
  /\ LeaseInit
  /\ spec \in Source
  /\ coord \in [active : {spec, NoSource}, endpoint : {spec}]
  /\ revs = <<spec>>
  /\ deployed = TRUE
  /\ pod = [flow |-> spec, ready |-> TRUE, published |-> TRUE]
  /\ restarts = 0
  /\ pc = [r \in Attempt |-> "idle"]
  /\ target = [r \in Attempt |-> spec]
  /\ base = [r \in Attempt |-> [active |-> NoSource, rev |-> 1, flow |-> spec]]
  /\ polls = [r \in Attempt |-> 1]
  /\ checks = [r \in Attempt |-> FALSE]
  /\ emitted = {}
  /\ events = [r \in Attempt |-> <<>>]
  /\ touched = {} /\ applied = {} /\ settled = {} /\ strays = {}

-----------------------------------------------------------------------------
\* Control flow.

\* A run that leaves the body no longer acts as the holder.
Goto(r, label) ==
  /\ pc' = [pc EXCEPT ![r] = label]
  /\ believers' = IF label \in Body THEN believers ELSE believers \ {r}

Emit(r, token, detail) ==
  events' = [events EXCEPT ![r] = Append(@, [token |-> token, detail |-> detail])]

\* The refusal the rescue of a switch emits; a launch has no such event.
EmitRefused(r) ==
  IF r \in SwitchRun THEN Emit(r, "refused", StageOf(pc[r])) ELSE UNCHANGED events

\* Mutant of Raise: the rescue always emits.
RaiseEmitting(r) ==
  \/ /\ pc[r] \notin {"lock", "verify", "rescue", "always"}
     /\ Goto(r, "rescue")
     /\ EmitRefused(r)
  \/ pc[r] \in {"lock", "verify"} /\ Goto(r, "done") /\ EmitRefused(r)
  \/ pc[r] = "rescue" /\ Goto(r, "always") /\ UNCHANGED events
  \/ pc[r] = "always" /\ Goto(r, "done") /\ UNCHANGED events

\* A task fails: the rescue emits "refused" unless the branch that failed has
\* emitted its own outcome, and releases; the always swallows its own errors.
\* Without an acquired lock neither has anything to release.
Raise(r) ==
  \/ /\ pc[r] \notin {"lock", "verify", "rescue", "always"}
     /\ Goto(r, "rescue")
     /\ IF r \in emitted THEN UNCHANGED events ELSE EmitRefused(r)
  \/ pc[r] \in {"lock", "verify"} /\ Goto(r, "done") /\ EmitRefused(r)
  \/ pc[r] = "rescue" /\ Goto(r, "always") /\ UNCHANGED events
  \/ pc[r] = "always" /\ Goto(r, "done") /\ UNCHANGED events

\* After a call with an effect: go on, or fail because the answer was lost.
ThenGoto(r, label) ==
  \/ Goto(r, label) /\ UNCHANGED events
  \/ "api" \in Faults /\ Raise(r)

\* A write to the coordinator or the release leaves its trace in the history; the one
\* that clears the endpoint, whether the viewer is settled.
Trace(r) ==
  /\ touched' = touched \cup {r}
  /\ settled' = IF pc[r] # "quiesce-endpoint" THEN settled
                ELSE IF pod.flow = spec /\ pod.published THEN settled \cup {r}
                ELSE settled \ {r}
  /\ strays' = IF owner = r THEN strays ELSE strays \cup {r}

\* Nonempty target-info and epoch; all that a read of them looks at.
Fresh == coord.endpoint # NoSource

\* A merge patch of the coordinator; a null value removes a key.
PatchCoord(r, c) == coord' = c /\ Trace(r) /\ UNCHANGED applied

ReleaseLock(r, label) ==
  /\ \/ Release(r) /\ ThenGoto(r, label)
     \/ owner # r /\ UNCHANGED leaseSwitchVars /\ Goto(r, label) /\ UNCHANGED events
     \/ owner \notin {r, NoOne} /\ UNCHANGED leaseSwitchVars /\ Raise(r)
  /\ UNCHANGED <<cluster, facts, past>>

-----------------------------------------------------------------------------
\* switch_lock.yml: identity, validation, lock.

\* The input names a source (any, also the one already selected), or is refused.
Start(r) ==
  /\ pc[r] = "idle"
  /\ \/ /\ \E s \in Source : target' = [target EXCEPT ![r] = s]
        /\ Goto(r, "lock")
        /\ UNCHANGED events
     \/ Goto(r, "done") /\ EmitRefused(r) /\ UNCHANGED target
  /\ UNCHANGED <<leaseSwitchVars, cluster, base, polls, checks, emitted, past>>

\* The free facility, or that of an owner whose term is over, or a refusal.
Acquire(r) ==
  /\ pc[r] = "lock"
  /\ \/ Grant(r) /\ pc' = [pc EXCEPT ![r] = "verify"] /\ UNCHANGED events
     \/ Evict /\ UNCHANGED <<pc, events>>
     \/ Raise(r) /\ UNCHANGED leaseSwitchVars
  /\ UNCHANGED <<cluster, facts, past>>

\* The readback of the lock; a launch goes on to its coordinator tasks.
Verify(r) ==
  /\ pc[r] = "verify"
  /\ \/ /\ Confirm(r)
        /\ pc' = [pc EXCEPT ![r] = IF r \in SwitchRun THEN "coordinator-read"
                                   ELSE "launch-read"]
        /\ UNCHANGED events
     \/ owner # r /\ Raise(r) /\ UNCHANGED leaseSwitchVars
  /\ UNCHANGED <<cluster, facts, past>>

-----------------------------------------------------------------------------
\* Before the first mutation: the reads. The coordinator exists, and a launched
\* release carries a flow.id.

\* switch_read_coordinator.yml.
ReadCoordinator(r) ==
  /\ pc[r] = "coordinator-read"
  /\ base' = [base EXCEPT ![r].active = coord.active]
  /\ Goto(r, "chart-resolve")
  /\ UNCHANGED <<leaseSwitchVars, cluster, target, polls, checks, emitted, past, events>>

\* switch_resolve_chart.yml: a release whose last revision is not deployed, or
\* another chart, refuses; a chart that cannot be pulled does too.
ResolveChart(r) ==
  /\ pc[r] = "chart-resolve"
  /\ \/ /\ deployed
        /\ base' = [base EXCEPT ![r].rev = Len(revs)]
        /\ Goto(r, "baseline-capture")
        /\ UNCHANGED events
     \/ Raise(r) /\ UNCHANGED base
  /\ UNCHANGED <<leaseSwitchVars, cluster, target, polls, checks, emitted, past>>

\* switch_capture_baseline.yml: the values of the last revision.
CaptureBaseline(r) ==
  /\ pc[r] = "baseline-capture"
  /\ base' = [base EXCEPT ![r].flow = Last(revs)]
  /\ Goto(r, "quiesce")
  /\ UNCHANGED <<leaseSwitchVars, cluster, target, polls, checks, emitted, past, events>>

-----------------------------------------------------------------------------
\* PHASE 1 and PHASE 2.

QuiesceActive(r) ==
  /\ pc[r] = "quiesce"
  /\ PatchCoord(r, [coord EXCEPT !.active = NoSource])
  /\ ThenGoto(r, "quiesce-endpoint")
  /\ UNCHANGED <<leaseSwitchVars, revs, deployed, spec, pod, restarts, facts>>

\* Mutant of QuiesceEndpoint: the endpoint is left where it is.
QuiesceEndpointKept(r) ==
  /\ pc[r] = "quiesce-endpoint"
  /\ PatchCoord(r, coord)
  /\ ThenGoto(r, "upgrade")
  /\ UNCHANGED <<leaseSwitchVars, revs, deployed, spec, pod, restarts, facts>>

\* target-info and epoch; then the settle wait.
QuiesceEndpoint(r) ==
  /\ pc[r] = "quiesce-endpoint"
  /\ PatchCoord(r, [coord EXCEPT !.endpoint = NoSource])
  /\ ThenGoto(r, "upgrade")
  /\ UNCHANGED <<leaseSwitchVars, revs, deployed, spec, pod, restarts, facts>>

\* A helm upgrade or rollback to a flow: it changes the Deployment, or fails
\* with or without leaving a failed revision behind.
Helm(flow) ==
  \/ revs' = Append(revs, flow) /\ deployed' = TRUE /\ spec' = flow
  \/ /\ "helm" \in Faults
     /\ \/ revs' = Append(revs, flow) /\ deployed' = FALSE
        \/ UNCHANGED <<revs, deployed>>
     /\ UNCHANGED spec

\* The exit code of helm decides nothing; the poll that follows does.
Upgrade(r) ==
  /\ pc[r] = "upgrade"
  /\ Helm(target[r])
  /\ Trace(r)
  /\ applied' = IF spec' = target[r] THEN applied \cup {r} ELSE applied
  /\ polls' = [polls EXCEPT ![r] = 1]
  /\ Goto(r, "poll-deploy")
  /\ UNCHANGED <<leaseSwitchVars, coord, pod, restarts, target, base, checks, emitted, events>>

\* The rollout-status conjunction: the pod of the current template is ready.
RolledOut == pod.flow = spec /\ pod.ready

\* switch_poll_upgrade_ready.yml: Deployment, coordinator, and the verdict.
PollDeploy(r) ==
  /\ pc[r] = "poll-deploy"
  /\ checks' = [checks EXCEPT ![r] = RolledOut]
  /\ Goto(r, "poll-coord")
  /\ UNCHANGED <<leaseSwitchVars, cluster, target, base, polls, emitted, past, events>>

\* Mutant of NextPoll: a poll that never gives up.
NextPollUnbounded(r, ok, yes, again, no) ==
  /\ polls' = [polls EXCEPT ![r] = IF ok THEN 1 ELSE @ + 1]
  /\ checks' = [checks EXCEPT ![r] = ok]
  /\ Goto(r, IF ok THEN yes ELSE again)

\* The verdict of one attempt: the label after it, or the next attempt.
NextPoll(r, ok, yes, again, no) ==
  LET more == ~ok /\ polls[r] < MaxPolls
  IN  /\ polls' = [polls EXCEPT ![r] = IF more THEN @ + 1 ELSE 1]
      /\ checks' = [checks EXCEPT ![r] = ok]
      /\ Goto(r, IF ok THEN yes ELSE IF more THEN again ELSE no)

PollCoord(r) ==
  /\ pc[r] = "poll-coord"
  /\ NextPoll(r, checks[r] /\ Fresh, "select", "poll-deploy", "rollback")
  /\ UNCHANGED <<leaseSwitchVars, cluster, target, base, emitted, past, events>>

-----------------------------------------------------------------------------
\* PHASE 2 did not verify: roll back, verify, restore.

\* Mutant of RollBack: the old selection is restored with the rollback.
RollBackRestoring(r) ==
  /\ pc[r] = "rollback"
  /\ Helm(revs[base[r].rev])
  /\ coord' = [coord EXCEPT !.active = base[r].active]
  /\ Trace(r)
  /\ Goto(r, "verify-values")
  /\ UNCHANGED <<leaseSwitchVars, pod, restarts, facts, applied, events>>

\* switch_rollback_and_verify.yml.
RollBack(r) ==
  /\ pc[r] = "rollback"
  /\ Helm(revs[base[r].rev])
  /\ Trace(r)
  /\ Goto(r, "verify-values")
  /\ UNCHANGED <<leaseSwitchVars, coord, pod, restarts, facts, applied, events>>

\* switch_poll_rollback_verify.yml: criterion 1 (a read that fails does not
\* satisfy it), criteria 2 and 3, criterion 4.
VerifyValues(r) ==
  /\ pc[r] = "verify-values"
  /\ \/ checks' = [checks EXCEPT ![r] = Last(revs) = base[r].flow]
     \/ "helm" \in Faults /\ checks' = [checks EXCEPT ![r] = FALSE]
  /\ Goto(r, "verify-deploy")
  /\ UNCHANGED <<leaseSwitchVars, cluster, target, base, polls, emitted, past, events>>

VerifyDeploy(r) ==
  /\ pc[r] = "verify-deploy"
  /\ checks' = [checks EXCEPT ![r] = @ /\ RolledOut /\ spec = base[r].flow]
  /\ Goto(r, "verify-coord")
  /\ UNCHANGED <<leaseSwitchVars, cluster, target, base, polls, emitted, past, events>>

VerifyCoord(r) ==
  /\ pc[r] = "verify-coord"
  /\ NextPoll(r, checks[r] /\ Fresh,
              IF base[r].active # NoSource THEN "restore" ELSE "conclude",
              "verify-values", "conclude")
  /\ UNCHANGED <<leaseSwitchVars, cluster, target, base, emitted, past, events>>

Restore(r) ==
  /\ pc[r] = "restore"
  /\ PatchCoord(r, [coord EXCEPT !.active = base[r].active])
  /\ ThenGoto(r, "conclude")
  /\ UNCHANGED <<leaseSwitchVars, revs, deployed, spec, pod, restarts, facts>>

\* Mutant of Verdict: without asking whether there was a selection to restore.
VerdictAlwaysRestored(r) ==
  IF checks[r] THEN "rollback_verified_previous_source_restored"
  ELSE "rollback_verification_failed"

Verdict(r) ==
  IF ~checks[r] THEN "rollback_verification_failed"
  ELSE IF base[r].active = NoSource THEN "rollback_verified_no_previous_source"
  ELSE "rollback_verified_previous_source_restored"

\* The sentinel and the event, then the fail task.
Conclude(r) ==
  /\ pc[r] = "conclude"
  /\ emitted' = emitted \cup {r}
  /\ Emit(r, Verdict(r), "none")
  /\ Goto(r, "fail")
  /\ UNCHANGED <<leaseSwitchVars, cluster, target, base, polls, checks, past>>

Fail(r) ==
  /\ pc[r] = "fail"
  /\ Raise(r)
  /\ UNCHANGED <<leaseSwitchVars, cluster, facts, past>>

-----------------------------------------------------------------------------
\* PHASE 3, and the way out.

Select(r) ==
  /\ pc[r] = "select"
  /\ PatchCoord(r, [coord EXCEPT !.active = target[r]])
  /\ ThenGoto(r, "final-readback")
  /\ UNCHANGED <<leaseSwitchVars, revs, deployed, spec, pod, restarts, facts>>

FinalReadback(r) ==
  /\ pc[r] = "final-readback"
  /\ \/ coord.active = target[r] /\ Fresh /\ Goto(r, "release") /\ UNCHANGED events
     \/ ~(coord.active = target[r] /\ Fresh) /\ Raise(r)
  /\ UNCHANGED <<leaseSwitchVars, cluster, facts, past>>

\* lock_release.yml, and only then the success event.
Succeed(r) ==
  /\ pc[r] = "release"
  /\ \/ /\ \/ Release(r)
           \/ owner # r /\ UNCHANGED leaseSwitchVars
        /\ Goto(r, "always")
        /\ IF r \in SwitchRun THEN Emit(r, "success", "none") ELSE UNCHANGED events
     \/ "api" \in Faults /\ Release(r) /\ Raise(r)
     \/ owner \notin {r, NoOne} /\ UNCHANGED leaseSwitchVars /\ Raise(r)
  /\ UNCHANGED <<cluster, facts, past>>

Rescue(r) == pc[r] = "rescue" /\ ReleaseLock(r, "always")

Always(r) == pc[r] = "always" /\ ReleaseLock(r, "done")

-----------------------------------------------------------------------------
\* The coordinator tasks of a launch (launch-mxl-fabrics-demo.yml).

\* Read the coordinator: an active-source that is set is left alone.  A launch of
\* a viewer alone has none to write.
LaunchRead(r) ==
  /\ pc[r] = "launch-read"
  /\ base' = [base EXCEPT ![r].active = coord.active]
  /\ Goto(r, "launch-guard") \/ Goto(r, "release")
  /\ UNCHANGED <<leaseSwitchVars, cluster, target, polls, checks, emitted, past, events>>

\* The checkpoint: pass as the owner, or be fenced out.
LaunchGuard(r) ==
  /\ pc[r] = "launch-guard"
  /\ \/ owner = r /\ Goto(r, "launch-patch") /\ UNCHANGED events
     \/ owner # r /\ Raise(r)
  /\ UNCHANGED <<leaseSwitchVars, cluster, facts, past>>

\* Mutant of LaunchPatch: a selection that is set is overwritten.
LaunchPatchAlways(r) ==
  /\ pc[r] = "launch-patch"
  /\ PatchCoord(r, [coord EXCEPT !.active = target[r]])
  /\ ThenGoto(r, "release")
  /\ UNCHANGED <<leaseSwitchVars, revs, deployed, spec, pod, restarts, facts>>

LaunchPatch(r) ==
  /\ pc[r] = "launch-patch"
  /\ \/ /\ base[r].active = NoSource
        /\ PatchCoord(r, [coord EXCEPT !.active = target[r]])
        /\ ThenGoto(r, "release")
     \/ /\ base[r].active # NoSource
        /\ Goto(r, "release")
        /\ UNCHANGED <<coord, past, events>>
  /\ UNCHANGED <<leaseSwitchVars, revs, deployed, spec, pod, restarts, facts>>

-----------------------------------------------------------------------------
\* The viewer: the Deployment's controller and the pod's publisher.

\* A pod of an older template is replaced.
Replace ==
  /\ pod.flow # spec
  /\ pod' = [flow |-> spec, ready |-> FALSE, published |-> FALSE]
  /\ UNCHANGED <<leaseVars, coord, revs, deployed, spec, restarts, facts, past, pc, events>>

\* The publisher writes target-info and epoch once per container start.
Publish ==
  /\ ~pod.published
  /\ pod' = [pod EXCEPT !.published = TRUE]
  /\ coord' = [coord EXCEPT !.endpoint = pod.flow]
  /\ UNCHANGED <<leaseVars, revs, deployed, spec, restarts, facts, past, pc, events>>

BecomeReady ==
  /\ ~pod.ready
  /\ pod' = [pod EXCEPT !.ready = TRUE]
  /\ UNCHANGED <<leaseVars, coord, revs, deployed, spec, restarts, facts, past, pc, events>>

\* The containers restart (a crash, an eviction).
Restart ==
  /\ restarts < MaxRestarts
  /\ restarts' = restarts + 1
  /\ pod' = [pod EXCEPT !.ready = FALSE, !.published = FALSE]
  /\ settled' = {r \in settled : target[r] = pod.flow}
  /\ UNCHANGED <<leaseVars, coord, revs, deployed, spec, facts, touched, applied, strays, pc, events>>

-----------------------------------------------------------------------------
\* Faults and time.

\* A call raises without effect.  The two helm mutations and the values read of
\* the rollback poll have failed_when: false, Helm and VerifyValues say how they fail.
CallFails(r) ==
  /\ "api" \in Faults
  /\ pc[r] \notin {"idle", "upgrade", "rollback", "verify-values", "conclude", "fail",
                   "done", "killed"}
  /\ Raise(r)
  /\ UNCHANGED <<leaseSwitchVars, cluster, facts, past>>

\* A helm command that is killed leaves a pending revision, and the Deployment
\* changed or not.
Interrupted(r) ==
  LET flow == IF pc[r] = "upgrade" THEN target[r] ELSE revs[base[r].rev]
  IN  /\ pc[r] \in {"upgrade", "rollback"}
      /\ revs' = Append(revs, flow)
      /\ deployed' = FALSE
      /\ spec' \in {spec, flow}
      /\ Trace(r)
      /\ UNCHANGED applied

\* The executor is killed: neither rescue nor always runs.
Kill(r) ==
  /\ "kill" \in Faults
  /\ pc[r] \notin {"idle", "done", "killed"}
  /\ Goto(r, "killed")
  /\ Interrupted(r) \/ UNCHANGED <<revs, deployed, spec, past>>
  /\ UNCHANGED <<leaseSwitchVars, coord, pod, restarts, facts, events>>

\* The lease term of the owner ends.
Expire ==
  /\ owner \in Attempt \ aged
  /\ Age({owner})
  /\ UNCHANGED <<cluster, facts, past, pc, events>>

\* Every run has stopped; only the viewer goes on.
Finished ==
  /\ \A r \in Attempt : pc[r] \in {"done", "killed"}
  /\ UNCHANGED switchVars

SwitchNext ==
  \/ \E r \in Attempt :
       \/ Start(r) \/ Acquire(r) \/ Verify(r)
       \/ ReadCoordinator(r) \/ ResolveChart(r) \/ CaptureBaseline(r)
       \/ QuiesceActive(r) \/ QuiesceEndpoint(r) \/ Upgrade(r)
       \/ PollDeploy(r) \/ PollCoord(r)
       \/ RollBack(r) \/ VerifyValues(r) \/ VerifyDeploy(r) \/ VerifyCoord(r)
       \/ Restore(r) \/ Conclude(r) \/ Fail(r)
       \/ Select(r) \/ FinalReadback(r) \/ Succeed(r) \/ Rescue(r) \/ Always(r)
       \/ LaunchRead(r) \/ LaunchGuard(r) \/ LaunchPatch(r)
       \/ CallFails(r) \/ Kill(r)
  \/ Replace \/ Publish \/ BecomeReady \/ Restart
  \/ Expire
  \/ Finished

SwitchSpec == SwitchInit /\ [][SwitchNext]_switchVars

-----------------------------------------------------------------------------
(***************************************************************************)
(* Properties.  What they say of the coordinator and the viewer holds as   *)
(* long as no run has written there without owning the facility            *)
(* (strays = {}): a switch whose term ends has no checkpoint to stop it,   *)
(* and a launch keeps the residual window of lock_checkpoint.yml.          *)
(***************************************************************************)

(***************************************************************************)
(* "EXACTLY ONE event fires per run" (switch-mxl-fabrics-demo.yml): none   *)
(* while the switch runs, one when it has ended, whatever failed on the    *)
(* way, the release after the last phase included.                         *)
(***************************************************************************)
OneEvent ==
  \A r \in SwitchRun :
    /\ Len(events[r]) <= 1
    /\ pc[r] = "done" => Len(events[r]) = 1

\* What an event says of the cluster at the moment it is emitted.
Truthful(r, e) ==
  CASE e.token = "rollback_verified_previous_source_restored" ->
         /\ base[r].active # NoSource
         /\ coord.active = base[r].active /\ Fresh
         /\ Last(revs) = base[r].flow /\ spec = base[r].flow
    [] e.token = "rollback_verified_no_previous_source" ->
         /\ base[r].active = NoSource
         /\ coord.active = NoSource /\ Fresh
         /\ Last(revs) = base[r].flow /\ spec = base[r].flow
    [] e.token = "rollback_verification_failed" -> coord.active = NoSource
    [] OTHER -> TRUE

(***************************************************************************)
(* The console acts on the event: a verified rollback has put selection,   *)
(* release and Deployment back as they were, "no previous source" is not   *)
(* said of a viewer that had one, after a failed rollback nothing          *)
(* transmits, and a refusal before the quiesce has changed nothing.        *)
(***************************************************************************)
EventTellsTheTruth ==
  [][\A r \in SwitchRun : events'[r] # events[r] =>
       LET e == Last(events'[r])
       IN  /\ owner = r /\ strays = {} => Truthful(r, e)
           /\ e.token = "refused" /\ e.detail \in PreMutation => r \notin touched
    ]_switchVars

(***************************************************************************)
(* A switch selects its target only when an endpoint was published since   *)
(* its quiesce and, if its upgrade was applied at all, the running pod is  *)
(* one of the target's flow (PHASE 2 verify).  That endpoint is of a pod   *)
(* of the target's flow if the viewer was settled when the switch cleared  *)
(* the endpoint and no pod of another flow restarted its containers since: *)
(* then no old pod publishes once more, and to clear the endpoint in       *)
(* PHASE 1 is enough to wait for the new one in PHASE 2.  For the others   *)
(* it may be the old pod's, see SuccessMeansTarget.                        *)
(***************************************************************************)
SelectMatchesViewer ==
  [][\A r \in SwitchRun :
       pc[r] = "select" /\ owner = r /\ coord'.active # coord.active /\ strays' = {}
         => /\ Fresh
            /\ r \in applied => pod.flow = target[r]
            /\ r \in settled => coord.endpoint = target[r]]_switchVars

(***************************************************************************)
(* From the quiesce to the selection (or the restore) nothing is selected, *)
(* so no source transmits into a viewer that is being re-pointed: no       *)
(* launch, no other switch and no step of the rollback selects one.        *)
(***************************************************************************)
QuiescedWhileSwitching ==
  strays = {} =>
    \A r \in SwitchRun : owner = r /\ pc[r] \in Quiesced => coord.active = NoSource

(***************************************************************************)
(* "The switch is the only place a live active-source value may change     *)
(* once set" (launch-mxl-fabrics-demo.yml): a launch writes an absent      *)
(* selection only, although it reads the coordinator, checkpoints and then *)
(* patches.                                                                *)
(***************************************************************************)
LaunchKeepsSelection ==
  [][\A r \in LaunchRun :
       pc[r] = "launch-patch" /\ owner = r /\ coord'.active # coord.active /\ strays' = {}
         => coord.active = NoSource]_switchVars

-----------------------------------------------------------------------------
\* What comments say of a switch, and the code does not do.  Stated for one switch
\* alone, so that nothing but its viewer changes things beside it.

(***************************************************************************)
(* "A switch that did not reach its requested target never reports         *)
(* success" (switch-mxl-fabrics-demo.yml:45-46), and a source "can ONLY    *)
(* start against phase 2's fresh target-info/epoch" (594-597), which the   *)
(* new pod republishes on startup (switch_poll_upgrade_ready.yml:9-10):    *)
(* after a success the viewer is at the target's flow, and the endpoint    *)
(* that the selected source connects to is that viewer's.                  *)
(***************************************************************************)
SuccessMeansTarget ==
  \A r \in SwitchRun : (\E k \in 1..Len(events[r]) : events[r][k].token = "success")
    => spec = target[r] /\ coord.endpoint = target[r]
=============================================================================
