---------------------------- MODULE RunLifecycle ----------------------------
(***************************************************************************)
(* The life of a run around the facility lock: launches, teardowns,        *)
(* rollbacks and switches over the run snapshots (the ConfigMaps           *)
(* dmf-run-<run_id>), the supersede sweep, the outcome markers and the     *)
(* block/rescue/always of the playbooks.                                   *)
(*                                                                         *)
(* The lock is the lease of FacilityLease, which FacilityLock implements.  *)
(* A step is one call to an API (lock, snapshot, workload surface) with    *)
(* what the tasks after it compute.  A checkpoint is one step, taken at    *)
(* its conditional PUT: the run owns the facility then, or it fails.       *)
(* The workload surfaces (Helm, NetBox, coordinator) are abstracted to who *)
(* changed them since a snapshot was taken.                                *)
(***************************************************************************)
EXTENDS FacilityLease, Naturals, Sequences

CONSTANTS
  Launch, Teardown, Rollback, Switch,  \* the runs of each playbook kind
  Id,                                  \* run ids (l3_run_id)
  Faults                               \* a subset of {"kill", "api"}

ASSUME RunAssumption ==
  /\ Attempt = Launch \cup Teardown \cup Rollback \cup Switch
  /\ Launch \cap (Teardown \cup Rollback \cup Switch) = {}
  /\ Teardown \cap (Rollback \cup Switch) = {}
  /\ Rollback \cap Switch = {}
  /\ Faults \subseteq {"kill", "api"}

VARIABLES
  pc,       \* where a run is
  runId,    \* l3_run_id: the launch's own, or the one a later run names
  status,   \* data.status of the snapshot of an id, "none" without a snapshot
  created,  \* runs with l3_snapshot_created
  started,  \* runs with l3_mutation_started
  marked,   \* runs with l3_pre_mutation_marker_emitted
  todo,     \* the sweep's supersede_candidates
  markers,  \* outcome markers of a run, in order
  since,    \* history: runs that, as owners, mutated after the id's snapshot
  late,     \* history: ids whose snapshot a run wrote without owning the facility
  sweptBy,  \* history: runs whose sweep superseded the id's snapshot
  touched   \* history: runs that mutated a workload surface

leaseRunVars == <<owner, aged>>
ledger == <<status, since, late, sweptBy>>
flags == <<created, started, marked>>
runVars == <<leaseVars, pc, runId, ledger, flags, todo, markers, touched>>

Eligible == {"in-progress", "failed_rollback_required", "rollback_incomplete"}
Stale == {"run_complete", "superseded"}

Token == {"refused", "lock-lost", "preflight-error", "post-mutation-failed",
          "rollback_incomplete"}

\* Labels at which a run acts as the verified holder.
Body == {"snapshot", "capacity", "sweep-guard", "list", "sweep", "read", "guard",
         "stage", "complete", "run-complete", "terminal-patch"}
Refusing == {"refuse-check", "refuse-patch", "refuse-release"}
Rescue == {"rescue-check", "rescue-patch", "rescue-release"}
RunLabel == {"idle", "lock", "verify", "finish", "terminal-release", "always",
             "done", "killed"} \cup Body \cup Refusing \cup Rescue

RunTypeOK ==
  /\ LeaseTypeOK
  /\ pc \in [Attempt -> RunLabel]
  /\ runId \in [Attempt -> Id]
  /\ status \in [Id -> Eligible \cup Stale \cup {"none"}]
  /\ created \subseteq Launch
  /\ started \subseteq Attempt
  /\ marked \subseteq Attempt
  /\ todo \in [Attempt -> SUBSET Id]
  /\ markers \in [Attempt -> Seq(Token)]
  /\ since \in [Id -> SUBSET Attempt]
  /\ late \subseteq Id
  /\ sweptBy \in [Id -> SUBSET Attempt]
  /\ touched \subseteq Attempt

RunInit ==
  /\ LeaseInit
  /\ pc = [r \in Attempt |-> "idle"]
  /\ runId \in [Attempt -> Id]
  /\ status = [i \in Id |-> "none"]
  /\ created = {} /\ started = {} /\ marked = {}
  /\ todo = [r \in Attempt |-> {}]
  /\ markers = [r \in Attempt |-> <<>>]
  /\ since = [i \in Id |-> {}]
  /\ late = {}
  /\ sweptBy = [i \in Id |-> {}]
  /\ touched = {}

-----------------------------------------------------------------------------
\* Control flow.

\* A run that leaves the body no longer acts as the holder.
Goto(r, label) ==
  /\ pc' = [pc EXCEPT ![r] = label]
  /\ believers' = IF label \in Body THEN believers ELSE believers \ {r}

Emit(r, token) == markers' = [markers EXCEPT ![r] = Append(@, token)]

\* The part of the playbook a refusal that marked itself leads to: gate_rescue
\* releases once more, rollback.yml only re-raises.
AfterMarked(r) == IF r \in Rollback THEN "always" ELSE "rescue-release"

\* A task fails.  Without an acquired lock the rescue emits its marker and has
\* nothing to release.  In the body a launch or a teardown goes to gate_rescue,
\* a rollback emits rollback_incomplete and releases, unless a marker is out; a
\* switch (whose outcome line is not a marker) releases.  A failure in the
\* rescue leads to the always, and the always swallows its own.
Raise(r) ==
  \/ /\ pc[r] \in {"lock", "verify"}
     /\ IF r \in Switch THEN UNCHANGED markers
        ELSE Emit(r, IF r \in Rollback THEN "rollback_incomplete" ELSE "preflight-error")
     /\ Goto(r, "done")
  \/ /\ pc[r] \in Body \cup Refusing \cup {"finish", "terminal-release"}
     /\ \/ r \in marked /\ Goto(r, AfterMarked(r)) /\ UNCHANGED markers
        \/ /\ r \in (Launch \cup Teardown) \ marked
           /\ Goto(r, "rescue-check")
           /\ UNCHANGED markers
        \/ /\ r \in Rollback \ marked
           /\ Emit(r, "rollback_incomplete")
           /\ Goto(r, "rescue-release")
        \/ r \in Switch /\ Goto(r, "rescue-release") /\ UNCHANGED markers
  \/ pc[r] \in Rescue /\ Goto(r, "always") /\ UNCHANGED markers
  \/ pc[r] = "always" /\ Goto(r, "done") /\ UNCHANGED markers

\* A call took effect, but its answer was lost.
AnswerLost(r) == "api" \in Faults /\ Raise(r)

\* After a call with an effect: go on, or fail because the answer was lost.
ThenGoto(r, label) == (Goto(r, label) /\ UNCHANGED markers) \/ AnswerLost(r)

\* _refuse_pre_mutation.yml, up to its first call.  It raises the flag before it
\* emits; only a run with a snapshot has something to patch first.
Refuse(r) ==
  /\ marked' = marked \cup {r}
  /\ IF r \in created
     THEN Goto(r, "refuse-check") /\ UNCHANGED markers
     ELSE Goto(r, "refuse-release") /\ Emit(r, "refused")
  /\ UNCHANGED <<leaseRunVars, runId, ledger, created, started, todo, touched>>

\* Mutant of Checkpoint: the fenced-out run does not mark its refusal.
CheckpointUnmarked(r, label) ==
  /\ \/ owner = r /\ Goto(r, label) /\ UNCHANGED markers
     \/ owner # r /\ Emit(r, "lock-lost") /\ Goto(r, "rescue-check")
  /\ UNCHANGED <<leaseRunVars, runId, ledger, flags, todo, touched>>

\* lock_checkpoint.yml: pass as the owner, or be fenced out with a marker of its
\* own, or fail on the conflicting PUT.
Checkpoint(r, label) ==
  /\ \/ owner = r /\ Goto(r, label) /\ UNCHANGED <<markers, marked>>
     \/ /\ owner # r
        /\ marked' = marked \cup {r}
        /\ Emit(r, "lock-lost")
        /\ Goto(r, AfterMarked(r))
     \/ owner # r /\ Raise(r) /\ UNCHANGED marked
  /\ UNCHANGED <<leaseRunVars, runId, ledger, created, started, todo, touched>>

\* An unconditional patch (state: present) of the status of the run's snapshot.
Patch(r, s) ==
  /\ status' = [status EXCEPT ![runId[r]] = s]
  /\ late' = IF owner = r THEN late ELSE late \cup {runId[r]}
  /\ UNCHANGED <<since, sweptBy>>

\* lock_release.yml: give back what is still one's own.  A lock that another
\* attempt took over between the read and the DELETE is an error.
ReleaseLock(r, label) ==
  /\ \/ Release(r) /\ ThenGoto(r, label)
     \/ owner # r /\ UNCHANGED leaseRunVars /\ Goto(r, label) /\ UNCHANGED markers
     \/ owner \notin {r, NoOne} /\ UNCHANGED leaseRunVars /\ Raise(r)
  /\ UNCHANGED <<runId, ledger, created, started, todo, touched>>

-----------------------------------------------------------------------------
\* The way in: identity, preflight, lock.

\* A run starts, or refuses before it asks for the lock (identity.yml,
\* preflight.yml, topology_validate.yml, rollback_identity.yml).  A rollback whose
\* input fails before l3_request_id is minted has no marker: its rescue renders
\* l3_request_id without a default and fails itself.
Start(r) ==
  /\ pc[r] = "idle"
  /\ \/ Goto(r, "lock") /\ UNCHANGED markers
     \/ /\ Goto(r, "done")
        /\ IF r \in Switch THEN UNCHANGED markers ELSE Emit(r, "refused")
     \/ r \in Rollback /\ Goto(r, "done") /\ UNCHANGED markers
  /\ UNCHANGED <<leaseRunVars, runId, ledger, flags, todo, touched>>

\* lock.yml: the free facility, or that of an owner whose term is over, or a
\* refusal (facility-busy, lock-unavailable, lock-race).
Acquire(r) ==
  /\ pc[r] = "lock"
  /\ \/ Grant(r) /\ Goto(r, "verify") /\ UNCHANGED markers
     \/ Evict /\ UNCHANGED <<pc, markers>>
     \/ /\ Goto(r, "done")
        /\ IF r \in Switch THEN UNCHANGED markers ELSE Emit(r, "refused")
        /\ UNCHANGED leaseRunVars
  /\ UNCHANGED <<runId, ledger, flags, todo, touched>>

\* The readback, and the first task after the lock.  A teardown marks its
\* mutation started before its checkpoint and sweep.
Verify(r) ==
  /\ pc[r] = "verify"
  /\ \/ /\ Confirm(r)
        /\ pc' = [pc EXCEPT ![r] = IF r \in Launch THEN "snapshot"
                                   ELSE IF r \in Teardown THEN "sweep-guard"
                                   ELSE IF r \in Rollback THEN "read" ELSE "stage"]
        /\ started' = IF r \in Teardown THEN started \cup {r} ELSE started
        /\ UNCHANGED markers
     \/ /\ owner # r
        /\ Goto(r, "done")
        /\ IF r \in Switch THEN UNCHANGED markers ELSE Emit(r, "refused")
        /\ UNCHANGED <<leaseRunVars, started>>
  /\ UNCHANGED <<runId, ledger, created, marked, todo, touched>>

-----------------------------------------------------------------------------
\* Before the first mutation of a launch or a teardown.

\* snapshot.yml: create-only.  An existing snapshot of the id is the collision
\* refusal; so is a baseline that cannot be read.  A lost answer (or a failed
\* readback) leaves the snapshot without l3_snapshot_created.
Snapshot(r) ==
  /\ pc[r] = "snapshot"
  /\ \/ /\ status[runId[r]] = "none"
        /\ Patch(r, "in-progress")
        /\ \/ created' = created \cup {r} /\ Goto(r, "capacity") /\ UNCHANGED markers
           \/ AnswerLost(r) /\ UNCHANGED created
        /\ UNCHANGED <<leaseRunVars, runId, started, marked, todo, touched>>
     \/ Refuse(r)

\* capacity.yml: missing-budget or no-fit, or on to the sweep.
Capacity(r) ==
  /\ pc[r] = "capacity"
  /\ \/ /\ Goto(r, "sweep-guard")
        /\ UNCHANGED <<leaseRunVars, runId, ledger, flags, todo, markers, touched>>
     \/ Refuse(r)

SweepGuard(r) == pc[r] = "sweep-guard" /\ Checkpoint(r, "list")

\* Mutant of Candidates: only snapshots in progress.
CandidatesInProgress(r) == {i \in Id \ {runId[r]} : status[i] = "in-progress"}

Candidates(r) == {i \in Id \ {runId[r]} : status[i] \in Eligible}

\* Mutant of AfterSweep: the budget is evaluated after the sweep.
AfterSweepCapacity(r) ==
  /\ Goto(r, IF r \in Launch THEN "capacity" ELSE "stage")
  /\ UNCHANGED <<started, markers>>

\* After the sweep a launch marks its mutation started and checkpoints; a
\* teardown checkpointed before the sweep and mutates at once.
AfterSweep(r) ==
  /\ Goto(r, IF r \in Launch THEN "guard" ELSE "stage")
  /\ started' = started \cup {r}
  /\ UNCHANGED markers

\* _supersede_sweep.yml: list once, then patch the listed snapshots one by one.
List(r) ==
  /\ pc[r] = "list"
  /\ todo' = [todo EXCEPT ![r] = Candidates(r)]
  /\ IF Candidates(r) = {}
     THEN AfterSweep(r)
     ELSE Goto(r, "sweep") /\ UNCHANGED <<started, markers>>
  /\ UNCHANGED <<leaseRunVars, runId, ledger, created, marked, touched>>

Sweep(r) ==
  /\ pc[r] = "sweep"
  /\ \E i \in todo[r] :
       /\ status' = [status EXCEPT ![i] = "superseded"]
       /\ sweptBy' = [sweptBy EXCEPT ![i] = @ \cup {r}]
       /\ todo' = [todo EXCEPT ![r] = @ \ {i}]
       /\ \/ todo[r] # {i} /\ Goto(r, "sweep") /\ UNCHANGED <<started, markers>>
          \/ todo[r] = {i} /\ AfterSweep(r)
          \/ AnswerLost(r) /\ UNCHANGED started
  /\ UNCHANGED <<leaseRunVars, runId, since, late, created, marked, touched>>

-----------------------------------------------------------------------------
\* Mutating stages.

\* rollback_snapshot_read.yml: only an eligible snapshot, read under the lock.
Read(r) ==
  /\ pc[r] = "read"
  /\ \/ /\ status[runId[r]] \in Eligible
        /\ Goto(r, "guard")
        /\ UNCHANGED <<leaseRunVars, runId, ledger, flags, todo, markers, touched>>
     \/ status[runId[r]] \notin Eligible /\ Refuse(r)

Guard(r) == pc[r] = "guard" /\ Checkpoint(r, "stage")

Mutate(r) ==
  /\ touched' = touched \cup {r}
  /\ since' = IF owner = r
              THEN [i \in Id |-> IF status[i] = "none" THEN since[i] ELSE since[i] \cup {r}]
              ELSE since

\* A stage changes the surfaces and succeeds or fails, or fails before it
\* changes anything.  The switch runs its stages without checkpoints.
Stage(r) ==
  /\ pc[r] = "stage"
  /\ \/ /\ Mutate(r)
        /\ \/ /\ Goto(r, IF r \in Switch THEN "stage" ELSE "guard")
              /\ UNCHANGED markers
           \/ /\ Goto(r, IF r \in Launch \cup Rollback THEN "complete" ELSE "finish")
              /\ UNCHANGED markers
           \/ Raise(r)
     \/ Raise(r) /\ UNCHANGED <<since, touched>>
  /\ UNCHANGED <<leaseRunVars, runId, status, late, sweptBy, flags, todo>>

\* launch_success.yml and rollback_terminal.yml: the last checkpoint.
Complete(r) ==
  /\ pc[r] = "complete"
  /\ Checkpoint(r, IF r \in Launch THEN "run-complete" ELSE "terminal-patch")

RunComplete(r) ==
  /\ pc[r] = "run-complete"
  /\ Patch(r, "run_complete")
  /\ ThenGoto(r, "finish")
  /\ UNCHANGED <<leaseRunVars, runId, flags, todo, touched>>

\* Success: release, then the always.
Finish(r) == pc[r] = "finish" /\ ReleaseLock(r, "always") /\ UNCHANGED marked

\* Mutant of TerminalPatch: a verdict no other stage knows.
TerminalPatchComplete(r) ==
  /\ pc[r] = "terminal-patch"
  /\ Patch(r, "rollback_complete")
  /\ Emit(r, "rollback_incomplete")
  /\ Goto(r, "terminal-release")
  /\ UNCHANGED <<leaseRunVars, runId, flags, todo, touched>>

\* rollback_terminal.yml: the status, the marker, the release, and only then the
\* sentinel that tells the rescue that all of it is done.
TerminalPatch(r) ==
  /\ pc[r] = "terminal-patch"
  /\ Patch(r, "rollback_incomplete")
  /\ \/ Emit(r, "rollback_incomplete") /\ Goto(r, "terminal-release")
     \/ AnswerLost(r)
  /\ UNCHANGED <<leaseRunVars, runId, flags, todo, touched>>

TerminalRelease(r) ==
  pc[r] = "terminal-release" /\ ReleaseLock(r, "always") /\ UNCHANGED marked

-----------------------------------------------------------------------------
\* _refuse_pre_mutation.yml, gate_rescue.yml and release.yml.

\* _lock_fenced_check.yml: a read that fails counts as fenced out.
RefuseCheck(r) ==
  /\ pc[r] = "refuse-check"
  /\ \/ owner = r /\ Goto(r, "refuse-patch") /\ UNCHANGED markers
     \/ /\ owner # r \/ "api" \in Faults
        /\ Emit(r, "refused")
        /\ Goto(r, "refuse-release")
  /\ UNCHANGED <<leaseRunVars, runId, ledger, flags, todo, touched>>

RefusePatch(r) ==
  /\ pc[r] = "refuse-patch"
  /\ Patch(r, "superseded")
  /\ \/ Emit(r, "refused") /\ Goto(r, "refuse-release")
     \/ AnswerLost(r)
  /\ UNCHANGED <<leaseRunVars, runId, flags, todo, touched>>

RefuseRelease(r) ==
  /\ pc[r] = "refuse-release"
  /\ ReleaseLock(r, AfterMarked(r))
  /\ UNCHANGED marked

\* Branches B and C, for a run without a marker.
Outcome(r) == IF r \in started THEN "post-mutation-failed" ELSE "preflight-error"

\* Mutant of RescueCheck: a fenced-out run skips the marker with the patch.
RescueCheckSilent(r) ==
  /\ pc[r] = "rescue-check"
  /\ Goto(r, IF r \in created /\ owner = r THEN "rescue-patch" ELSE "rescue-release")
  /\ UNCHANGED <<leaseRunVars, runId, ledger, flags, todo, markers, touched>>

RescueCheck(r) ==
  /\ pc[r] = "rescue-check"
  /\ \/ r \in created /\ owner = r /\ Goto(r, "rescue-patch") /\ UNCHANGED markers
     \/ /\ r \notin created \/ owner # r \/ "api" \in Faults
        /\ Emit(r, Outcome(r))
        /\ Goto(r, "rescue-release")
  /\ UNCHANGED <<leaseRunVars, runId, ledger, flags, todo, touched>>

\* Mutant of RescuePatch: every failure counts as pre-mutation.
RescuePatchSuperseded(r) ==
  /\ pc[r] = "rescue-patch"
  /\ Patch(r, "superseded")
  /\ Emit(r, Outcome(r)) /\ Goto(r, "rescue-release")
  /\ UNCHANGED <<leaseRunVars, runId, flags, todo, touched>>

RescuePatch(r) ==
  /\ pc[r] = "rescue-patch"
  /\ Patch(r, IF r \in started THEN "failed_rollback_required" ELSE "superseded")
  /\ \/ Emit(r, Outcome(r)) /\ Goto(r, "rescue-release")
     \/ AnswerLost(r)
  /\ UNCHANGED <<leaseRunVars, runId, flags, todo, touched>>

RescueRelease(r) ==
  pc[r] = "rescue-release" /\ ReleaseLock(r, "always") /\ UNCHANGED marked

Always(r) == pc[r] = "always" /\ ReleaseLock(r, "done") /\ UNCHANGED marked

-----------------------------------------------------------------------------
\* Faults and time.

\* A call raises without effect.  The fenced check ignores its own error.
CallFails(r) ==
  /\ "api" \in Faults
  /\ pc[r] \notin {"idle", "refuse-check", "rescue-check", "done", "killed"}
  /\ Raise(r)
  /\ UNCHANGED <<leaseRunVars, runId, ledger, flags, todo, touched>>

\* The executor is killed: neither rescue nor always runs.
Kill(r) ==
  /\ "kill" \in Faults
  /\ pc[r] \notin {"idle", "done", "killed"}
  /\ Goto(r, "killed")
  /\ UNCHANGED <<leaseRunVars, runId, ledger, flags, todo, markers, touched>>

\* The lease term of the owner ends.
Expire ==
  /\ owner \in Attempt \ aged
  /\ Age({owner})
  /\ UNCHANGED <<pc, runId, ledger, flags, todo, markers, touched>>

\* Every run has stopped; nothing happens any more.
Finished ==
  /\ \A r \in Attempt : pc[r] \in {"done", "killed"}
  /\ UNCHANGED runVars

RunNext ==
  \/ \E r \in Attempt :
       \/ Start(r) \/ Acquire(r) \/ Verify(r)
       \/ Snapshot(r) \/ Capacity(r) \/ SweepGuard(r) \/ List(r) \/ Sweep(r)
       \/ Read(r) \/ Guard(r) \/ Stage(r) \/ Complete(r) \/ RunComplete(r) \/ Finish(r)
       \/ TerminalPatch(r) \/ TerminalRelease(r)
       \/ RefuseCheck(r) \/ RefusePatch(r) \/ RefuseRelease(r)
       \/ RescueCheck(r) \/ RescuePatch(r) \/ RescueRelease(r) \/ Always(r)
       \/ CallFails(r) \/ Kill(r)
  \/ Expire
  \/ Finished

RunSpec == RunInit /\ [][RunNext]_runVars

-----------------------------------------------------------------------------
(***************************************************************************)
(* Properties                                                              *)
(***************************************************************************)

\* The runs a snapshot's baseline does not account for.
Strangers(i) == {m \in since[i] : runId[m] # i}

(***************************************************************************)
(* A snapshot a rollback may still restore is not older than the work of a *)
(* launch or a teardown of another run id: whoever changes the workloads   *)
(* as the owner has made every older baseline ineligible first.  Only a    *)
(* snapshot some run wrote after it had lost the facility is exempt, the   *)
(* residual window of lock_checkpoint.yml.                                 *)
(***************************************************************************)
BaselinesCoverMutations ==
  \A i \in Id \ late :
    status[i] \in Eligible => Strangers(i) \cap (Launch \cup Teardown) = {}

(***************************************************************************)
(* A run that refused has swept nothing: "a refusal during read-only       *)
(* planning [...] must never invalidate an older dirty run's only safe     *)
(* rollback baseline" (_supersede_sweep.yml).                              *)
(***************************************************************************)
Said(r, token) == \E k \in 1..Len(markers[r]) : markers[r][k] = token

RefusalKeepsBaselines ==
  \A r \in Attempt : Said(r, "refused") => \A i \in Id : r \notin sweptBy[i]

(***************************************************************************)
(* A launch that changed the workloads and stopped before run_complete can *)
(* be rolled back until the sweep of a later run makes its baseline moot:  *)
(* no refusal, rescue branch or rollback of its own closes that way.       *)
(***************************************************************************)
UnfinishedLaunchCanBeRolledBack ==
  \A r \in Launch \cap touched :
    pc[r] \in {"done", "killed"} =>
      \/ status[runId[r]] \in Eligible \cup {"run_complete"}
      \/ sweptBy[runId[r]] # {}

(***************************************************************************)
(* Launches and teardowns never emit a second outcome marker: dmf-cms      *)
(* takes the last one, which would hide the first.                         *)
(***************************************************************************)
NoSecondMarker ==
  \A r \in Launch \cup Teardown : Len(markers[r]) <= 1

(***************************************************************************)
(* Without failing calls, a launch that ended without a marker reached its *)
(* end: it changed the workloads, and its snapshot is terminal unless a    *)
(* run without the facility wrote it.  A teardown that ended so changed    *)
(* the workloads; a rollback that ended so never touched them.             *)
(***************************************************************************)
SilenceMeansSuccess ==
  \A r \in Attempt \ Switch : pc[r] = "done" /\ markers[r] = <<>> =>
    /\ r \in touched <=> r \notin Rollback
    /\ r \in Launch => status[runId[r]] \in Stale \/ runId[r] \in late

-----------------------------------------------------------------------------
(***************************************************************************)
(* What a comment of the role says of the runs, and the code does not do.  *)
(***************************************************************************)

(***************************************************************************)
(* l3_budget.py:575-576: the "load-bearing 'a later mutating run           *)
(* invalidates earlier snapshots' invariant".                              *)
(***************************************************************************)
LaterMutationInvalidates ==
  \A i \in Id \ late : status[i] \in Eligible => Strangers(i) = {}
=============================================================================
