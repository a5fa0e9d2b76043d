# Verification of the L3 run guard

This directory holds TLA+ specifications of the part of dmf-runbooks that decides
whether a run may touch a shared facility, what it leaves behind when it fails, and
what it tells the console about it: the Ansible role `roles/l3_run_guard`, its Python
decision libraries `filter_plugins/l3_budget.py` and `l3_topology.py`, and the playbooks
that are built from them. The specifications are model-checked with TLC; the safety of the
facility lock, of the runs around it, of the switch, of the NetBox catalog and its purge,
of the rollback of a failed launch, and of what a launch plans (its topology, its budget,
and that it fits the node) is proved for every instance with TLAPS.

The playbooks run as jobs of an automation controller. Several can be started at the
same time against one facility, any of them can be killed between two tasks, and each
talks to a Kubernetes API server, Helm and NetBox that answer late or not at all.
There is no database transaction around any of it: all coordination goes through four
kinds of object in the cluster, with the preconditions that API calls offer.

## 1. Inventory

### 1.1 Components

| Component | State it keeps | Operations | Sources |
|---|---|---|---|
| **Facility lock** | ConfigMap `dmf-facility-lock` (holder = attempt id, `created_at`, TTL; the server's uid and resourceVersion); per attempt `l3_now_epoch`, `l3_lock_acquired`, the object last read | acquire (POST, held read, reclaim of an expired lock, readback), checkpoint (read, refresh by conditional PUT), release (read, DELETE by uid), also from rescue and always | `lock.yml`, `_lock_acquire_one_attempt.yml`, `lock_checkpoint.yml`, `_lock_fenced_check.yml`, `lock_release.yml`, `release.yml`, `l3_budget.py` (`l3_lock_decision`, `l3_lock_release_decision`) |
| **Run lifecycle** | ConfigMaps `dmf-run-<run_id>` (baseline and status); the facts `l3_snapshot_created`, `l3_mutation_started`, `l3_pre_mutation_marker_emitted`; the outcome marker lines of the job log | create-only snapshot, capacity verdict, supersede sweep, stages between checkpoints, run_complete, pre-mutation refusal, gate rescue, rollback read/terminal | `snapshot.yml`, `capacity.yml`, `_supersede_sweep.yml`, `teardown_pre_mutation.yml`, `launch_success.yml`, `_refuse_pre_mutation.yml`, `gate_rescue.yml`, `rollback_*.yml`, `rollback.yml`, `playbooks/launch-*.yml`, `teardown-*.yml`, `rollback-run.yml` |
| **Switch and coordinator** | ConfigMap `mxl-coordinator` (`active-source`, `target-info`, `epoch`); Helm revisions of the viewer; its Deployment and pod; per run the captured baseline and the outcome event | read, resolve chart, capture baseline, quiesce, upgrade, poll, select, readback; rollback, verify, restore; coordinator tasks of a launch | `playbooks/switch-mxl-fabrics-demo.yml`, `switch_*.yml`, `playbooks/launch-mxl-fabrics-demo.yml` |
| **Finalise-purge** | NetBox records and Tag of a workload; per run the ids found, missing and dirty, and the outcome event | fresh paginated read, fail-closed checks, delete and readback per record, Tag last, final read | `playbooks/finalise-purge.yml`, `purge_*.yml` of `netbox_catalog_common`, `netbox_purge.py` |
| **Rollback surfaces** | Helm releases and their revisions, the coordinator, NetBox records; the snapshot of each; per rollback the listing, the planned removals and restores, and one dirty flag per surface | list, fetch values, uninstall, `helm rollback`, readback, coordinator cleanup and restore; look up by name, classify by id, PATCH, finalise and DELETE, readback | `snapshot.yml`, `rollback_helm_surface.yml`, `rollback_netbox_surface.yml`, `_rollback_netbox_*.yml`, `rollback_coordinator_surface.yml`, `rollback_terminal.yml`, `l3_budget.py` |
| **NetBox tags** | tag list of each NetBox service, per stage the tags it read | get-or-create a tag, merge owned tags, patch and read back | `roles/netbox_catalog_common`, `roles/mxl` |
| **Capacity and budget** | none (pure functions) over the cluster's pods | demand of a pod, a chart and a launch, existing demand, fit verdict, refusals and override | `capacity.yml`, `_capacity_render_group_item.yml`, `l3_budget.py` |
| **Topology** | `topology_params` of a launch; `l3_release_group` and the viewer projection derived from it | validate, agree with the facility, derive releases and selection | `topology_validate.yml`, `l3_topology.py`, `playbooks/launch-mxl-fabrics-demo.yml` |
| **Identity, overrides, guards** | none (validation of inputs) | refuse before the lock | `identity.yml`, `preflight.yml`, `_override.yml`, `_assert_*.yml` |
| **Workload roles** `mxl`, `nmos-cpp`, `nmos-crosspoint` | Helm releases, NetBox services | provision, configure, finalise | `roles/mxl`, `roles/nmos-*` |
| **Markers and milestones** | none | encode marker fields, progress lines | `l3_marker.py`, `_emit_*.yml` |
| **Tests, CI, scripts** | none | – | `tests/`, `bin/`, `.github/` |

### 1.2 How they interact

* Every mutating playbook is one `block` / `rescue` / `always`. The block takes the
  lock, does its work between checkpoints and releases on its own path. A failed task
  goes to the rescue (marker, status patch, release), and the always releases again
  and swallows its own errors. A killed executor runs neither.
* Launch and teardown, once they hold the lock, patch *other* runs' snapshots (the
  supersede sweep): a snapshot a rollback may restore has to be younger than every
  later change to the workloads.
* A rollback reads a snapshot, mutates the surfaces back and patches its status. It may
  break off anywhere and be started again on the same snapshot. People and controllers
  that take no lock change releases and records meanwhile.
* A topology launch derives a release for each source from its parameters; the capacity
  verdict, the selection and the install all work on that list, one after the other,
  while the scheduler and other tenants of the node go on.
* A switch and a launch both write `mxl-coordinator`. So does the viewer's pod, which
  publishes its endpoint each time its container starts and knows nothing of the lock.
* Launch and teardown create and tag the NetBox records of a workload; a purge, started
  from the console with the ids the console has seen, deletes them and then the Tag.
  Operators edit the same records in NetBox and take no lock.
* The console learns the outcome from the *last* marker line of a job, or from the
  one outcome event of a switch or a purge.

### 1.3 Hard behaviours, and what makes each component correct

* **Lock.** Reads, decisions and writes are separate calls. A DELETE may arrive after
  the object it was meant for was replaced; a lock may expire under a running holder;
  an answer may be lost after the call took effect; a reclaim may race another. It is
  correct if no two attempts act as holders inside their lease terms, if a lock object
  only disappears by its holder's release or past its term, if every ending without an
  API error gives it back, and if an abandoned one can be reclaimed.
* **Run lifecycle.** A snapshot is created, swept, patched and read by different runs,
  some of which have lost the facility without knowing. It is correct if a snapshot
  that may still be restored covers every later mutation, if a refusal leaves older
  baselines alone, if an unfinished launch stays recoverable, and if the markers say
  what happened, once.
* **Switch.** Four phases over two objects and a Helm release, with a pod that acts by
  itself and no checkpoint in between. It is correct if nothing is selected while the
  viewer is re-pointed, if the target is selected only when the viewer listens to it,
  if a failed switch restores what it found, and if exactly one event tells which of
  these happened.
* **Purge.** Read, check, delete by id, in calls of their own, against records that a
  launch or an operator may change. It is correct if it deletes only finalised records
  of its workload that the console knew, if the Tag outlives every record that carries
  it (a second purge finds the records by it), if success is said only when every record
  is gone, and if a purge after a broken one comes to an end.
* **NetBox tags.** GET, merge, PATCH without a precondition, by stages of one play that
  own different prefixes. It is correct if the stages keep each other's tags and those of
  operators, up to the documented window between read and PATCH.
* **Rollback surfaces.** Lists, reads and writes are calls of their own, most of them with
  their errors ignored, against state that others change. It is correct if it touches
  nothing that the launch or others did not change, deletes nothing that the snapshot
  holds, keeps what others own on a record, reports clean only what is restored, and
  does report clean when nothing stood in its way, also after a rollback that broke off.
* **Budget and topology.** Demand is summed from a chart that may leave requests out,
  against pods some of which the launch replaces. It is correct if what it lets through
  fits the node at its peak, if it refuses only what does not, if nothing without a
  budget passes without an override, and if the topology it installs can be played.

`PROJECT.json` lists the hazards one by one, each at its line with the properties that
cover it.

## 2. Plan

| Order | Module | Contents | State |
|---|---|---|---|
| 1 | `FacilityLease` | what the lock promises: owner, believers, expired terms | done, proved |
| 2 | `FacilityLock` | the lock protocol, call by call; implements `FacilityLease` | done, proved |
| 3 | `RunLifecycle` | launch, teardown, rollback, switch over the snapshots, on the lease | done, proved |
| 4 | `Switch` | the switch, the coordinator, the viewer pod, on the lease | done, proved |
| 5 | `Catalog` | the NetBox records of a workload: tagging stages and purge, on the lease | done, proved |
| 6 | `HelmRollback` | the helm and coordinator surfaces: snapshot, launch, rollbacks, drift | done, proved |
| 7 | `NetBoxRollback` | the NetBox surface: snapshot, launch, rollbacks, operators | done, proved |
| 8 | `Budget`, `Topology`, `LaunchPlan` | demand and fit against the node's peak, topology parameters, and a launch that uses both | done, proved |
| 9 | `RunLifecycleProofs` | that the runs keep the lease, and every invariant of `RunLifecycle` | done |
| 10 | `SwitchProofs`, `CatalogProofs` | that both keep the lease, and every safety property of the two | done |
| 11 | `LaunchPlanProofs` | `AdmittedFits`, `RefusedIsTooBig`, `UnbudgetedNeedsOverride`, `TopologyIsPlayable`, and that `PodDemand` is `Peak` | done |

`FacilityLock` implements `FacilityLease` by a refinement mapping. `RunLifecycle`,
`Switch` and `Catalog` are composed with the lock through that abstraction: they EXTEND
`FacilityLease` and use its actions `Grant`, `Confirm`, `Release`, `Evict` and `Age`
as their lock steps, so what they show holds over the proved protocol without its
uids and clocks in their state space. That each of them only takes steps of the lease is
a theorem (`RunsKeepTheLease`, `SwitchKeepsTheLease`, `CatalogKeepsTheLease`). `HelmRollback` and `NetBoxRollback` are the detail
below one `Stage` of a rollback in `RunLifecycle`; they have no lock, because what they
have to stand comes from actors that take none. `LaunchPlan` EXTENDS the operator
modules `Budget` and `Topology`.

Every safety property that a run checks is stated by a theorem. What no theorem states are
the two liveness properties (end of section 5).

## 3. Modules and code

A step of every model is one call to an external system together with what the tasks
after it compute from the answer, up to the next call. Between two calls anything else
may run. Each definition's source lines are in `PROJECT.json` under `map`.

### 3.1 `FacilityLock` (with `FacilityLease`)

| Model | Code |
|---|---|
| `lock` | the ConfigMap; `uid` is `metadata.uid`, `holder` the attempt id, `created` `created_at` |
| `now`, `tries`, `seen`, `stamp`, `acquired` | `l3_now_epoch`, `l3_lock_attempt_number`, the registered read, the rendered `created_at`, `l3_lock_acquired` |
| `phase` | which of block, rescue, always runs |
| `Start` | mint the attempt, read the clock **once**, find the API |
| `Create`, `ReadHeld`, `ReclaimDelete`, `ReclaimCreate`, `Verify` | the five calls of an acquisition |
| `CheckpointRead`, `Refresh` | the two calls of `lock_checkpoint.yml` |
| `Stage`, `EndBody` | the guarded work of the playbook |
| `ReleaseRead`, `ReleaseDelete` | the two calls of `lock_release.yml`, on all three paths |
| `ApiError`, `AnswerLost`, `Kill`, `Tick` | a call without effect, a call with effect whose answer is lost, a dead executor, time |

Abstractions. `lock = seen[a]` stands for "the resourceVersion is still that of the
read": nothing writes the object back to an earlier value, and a PUT that leaves it
equal is harmless to a later one. An API call that fails takes its time at the moment
it raises. All executors read the same clock. An operator who deletes the ConfigMap by
hand is not modelled: that procedure is outside the code.

`FacilityLease` leaves out objects, uids and timestamps. It has an `owner`, the
`believers` that confirmed their ownership and still act on it, and the attempts whose
term is `aged`. Only an aged owner can be evicted. In the mapping, the owner is the
holder written into the object, the believers are the attempts at `HolderLabel`, and a
term is `TTL` from the clock the attempt read at its start. A refresh does not extend
that term: a reclaim that read the lock before it deletes the refreshed object, whose uid
is the same (section 7).

### 3.2 `RunLifecycle`

Each run is a launch, teardown, rollback or switch with a run id; several runs may
name the same id (a relaunch of a used id; a rollback of a launch).

| Model | Code |
|---|---|
| `status` | `data.status` of the snapshot of an id |
| `created`, `started`, `marked` | `l3_snapshot_created`, `l3_mutation_started`, `l3_pre_mutation_marker_emitted` |
| `todo` | `supersede_candidates`, listed once and patched one by one |
| `markers` | the marker lines of a run, in order |
| `Start` … `Finish`, `Always` | the tasks of the playbooks in their order |
| `Refuse`, `RefuseCheck`, `RefusePatch`, `RefuseRelease` | `_refuse_pre_mutation.yml` |
| `RescueCheck`, `RescuePatch`, `RescueRelease` | `gate_rescue.yml` |
| `Checkpoint` | `lock_checkpoint.yml`, one step at its conditional PUT |
| `Raise` | which rescue a failed task leads to, and what it emits |
| `since`, `sweptBy`, `late`, `touched` | history only: no guard reads them |

Abstractions. A checkpoint is one step, because the PUT decides: its resourceVersion
makes it fail unless the object is the one that was read. The workload surfaces are
abstracted to who changed them since a snapshot was taken. Capturing the baseline and
the POST of the snapshot are one step (nobody else reads a snapshot that is not there),
and so are the NetBox, Helm and coordinator calls of one stage, which may fail with or
without a change. The verdict of the capacity task is a free choice. A switch's outcome
event is not a marker here (`Switch` has it).

`late` exempts exactly the snapshots that a run wrote *without* owning the facility:
the window between a checkpoint and the write it guards that the comment at
`lock_checkpoint.yml:23-30` documents. The model does not hide it, the write happens;
the invariants speak of the other snapshots.

### 3.3 `Switch`

| Model | Code |
|---|---|
| `coord` | `active-source`; `endpoint` is the flow of the pod that `target-info` and `epoch` are from. The code asks only whether they are nonempty (`Fresh`), never whose they are |
| `revs`, `deployed` | the revisions of the viewer's Helm release and the status of the last |
| `spec`, `pod` | the Deployment's template and the pod that runs |
| `base` | `_switch_baseline` |
| `ReadCoordinator`, `ResolveChart`, `CaptureBaseline` | the reads before the first mutation |
| `QuiesceActive`, `QuiesceEndpoint` | PHASE 1 |
| `Upgrade`, `PollDeploy`, `PollCoord` | PHASE 2 |
| `RollBack`, `VerifyValues`, `VerifyDeploy`, `VerifyCoord`, `Restore`, `Conclude`, `Fail` | the branch for a viewer that did not come back |
| `Select`, `FinalReadback`, `Succeed` | PHASE 3 and the way out |
| `LaunchRead`, `LaunchGuard`, `LaunchPatch` | the coordinator tasks of a launch |
| `Replace`, `Publish`, `BecomeReady`, `Restart` | external: Deployment controller, kubelet, publisher. A pod can be ready before it has published: the code polls the two separately and relies on neither order |
| `touched`, `applied`, `settled`, `strays` | history only: no guard reads them. `settled` are the switches whose quiesce found a viewer that was there and had published, with no restart of a pod of another flow since |

Abstractions. One viewer; a flow is named by the source that sends it. The coordinator
exists and a launched release always carries `flow.id` (a switch without them refuses in
a read, which `Start` and `CallFails` already do). Time is the number of polls. The
teardown of the topology is left out; `rollback_coordinator_surface.yml`, which also
writes the coordinator, is in `HelmRollback`.

The properties that speak of the cluster hold while `strays = {}`: a switch runs all its
phases without a checkpoint, so a switch that outlives its term writes on, next to the
run that took the facility over. That is what the code does; no comment claims more.

### 3.4 `Catalog`

One workload `workload:<slug>`, the records that carry its tag and those of another one.

| Model | Code |
|---|---|
| `exist`, `tags`, `tagObj` | the `ipam.Service` records, their tag lists, the Tag object and its id |
| `baseline` | an older run's snapshot that is still eligible for a rollback |
| `expected`, `found`, `todo`, `amiss`, `dirty`, `tagSeen` | `purge_expected_service_ids`, `_purge_found_ids`, what a loop has left, what the next assert is about, `_purge_dirty_count`, `_purge_tag_id` |
| `stage`, `slug`, `id`, `read` | `mxl_stage`, `workload_slug`, `mxl_netbox_service_id`, `_current_tags` |
| `events` | the `DMF_L3_PURGE_OUTCOME` events of a run, in order |
| `Contract`, `Sweep`, `ReadMembers`, `CheckMissing`, `Delete`, `Readback`, `TagGuard`, `TagLookup`, `TagDelete`, `FinalServices`, `FinalTag`, `Succeed` | `finalise-purge.yml`, in its order |
| `Ensure`, `EnsureCreate`, `EnsureRecheck` | `ensure_workload_tag.yml` |
| `Lookup`, `Create`, `Merged`, `Patch`, `ConfirmPatch` | a stage of `roles/mxl`, `merge_owned_tags.yml`, `patch_service_tags_verified.yml` |
| `Rescue`, `Always`, `Raise` | rescue and always; a purge emits `refused` first |
| `Edit` | external: an operator adds a tag, moves a record to the other workload, or creates the Tag |
| `moved`, `hurt` | history only: no guard reads them |

Abstractions. A play maintains one record (a topology launch repeats the stages for each
release). Tags that are always there (`dmf-catalog`, `app:*`) and custom fields are left
out, and the Tag of the other workload exists. A paginated read is one step; a read that
is cut off at 100 pages raises like a failing call (`CallFails`). The Helm part of launch
and teardown, their sweep and their markers, and the marker that `gate_rescue.yml` adds
to a refused purge belong to `RunLifecycle`.

`moved` exempts what nobody can ask of the code: records that somebody else changed after
the run's first read. `DisturbedOnlyByStrays` says what the lock makes of that: while the
run owns the facility, that somebody is an operator, or a run whose term is over and that
writes on. The changes do happen in the model.

`OneRecordAssumption`: at the start at most one of the records that a play may look up
exists. The code creates one only when the lookup by name finds none
(`roles/mxl/tasks/provision.yml:78-125`), and takes the first if it finds more.

### 3.5 `HelmRollback`

| Model | Code |
|---|---|
| `revs` | helm's history of a release; the length is the revision number |
| `cm`, `active` | `mxl-coordinator` and its `active-source` |
| `base`, `baseActive`, `optedIn` | helm surface and `coordinator_state` of the snapshot |
| `ident`, `removals`, `restores`, `dirty` | content identities of the last listing, `_l3_releases_to_remove`, `_l3_helm_content_restores`, `_l3_helm_dirty` |
| `Capture` | `snapshot.yml`: a release whose values cannot be read ends the launch |
| `Deploy`, `LaunchSelect`, `LaunchFails` | what a launch does to this surface before it fails |
| `ListCurrent`, `FetchCurrent`, `Uninstall`, `Restore`, `Readback`, `ReadbackFetch`, `Cleanup`, `CmDelete` | `rollback_helm_surface.yml`, call by call |
| `Coordinator`, `PatchActive` | `rollback_coordinator_surface.yml` |
| `Abort` | rescue of `rollback.yml`: reported on every surface, and may be started again |
| `Drift`, `SwitchSelects` | changes by people without the lock, and by a switch in between |
| `changed`, `moved`, `late`, `calm` | history only: no guard reads them |

Abstractions. Chart, app version and values of a revision are one content; the code
compares the three together. The listings of the two namespaces are one step, and only
releases of the namespace `mxl` named `mxl-*` count for the coordinator. The lock is left
out: the protocol around a rollback is `RunLifecycle`'s. `Restorable` in `calm` asks that
the recorded revision still is what it was; helm cannot roll back to another.

### 3.6 `NetBoxRollback`

| Model | Code |
|---|---|
| `rec`, `next` | the `ipam.Service` records by id; an id is not used twice |
| `own`, `tags`, `fields` | the parts of a record that a launcher owns (tags of `_netbox_owned_namespace` and monitoring fields), the tags and the fields of others |
| `base`, `seen` | netbox surface of the snapshot; records of this rollback's lookups |
| `Lookup`, `Ambiguous`, `Classify` | `rollback_netbox_surface.yml` |
| `RestorePatch`, `RestoreRead` | `_rollback_netbox_restore_one.yml` |
| `DeletePatch`, `DeleteCall`, `DeleteRead` | `_rollback_netbox_delete_one.yml` |
| `Edit` | external: an operator changes, renames, removes or creates a record |
| `moved`, `late`, `calm` | history only |

A PATCH replaces the whole list of tags and merges custom fields: that is NetBox, and
the reason why the two foreign parts are told apart. `moved` exempts foreign tags of a
record that was edited after the lookup, a window the code has (section 7).

### 3.7 `Budget`, `Topology` and `LaunchPlan`

`Budget` and `Topology` are operators: one per filter of `l3_budget.py` and
`l3_topology.py`. Quantities are whole millicores and bytes. `Peak` is not the code's: it
is what Kubernetes lets run at once while a pod starts, written independently of
`PodDemand`, to compare the two. A flow id is a UUID with a spelling.

| Model | Code |
|---|---|
| `pods` | pods of the cluster: release label, namespace, containers, unbound, bound or finished |
| `active`, `deployed` | `active-source`; the values helm deployed last for each release |
| `plan`, `group`, `existing`, `todo` | inputs of the launch, `l3_release_group`, `_l3_existing_demand`, the install loop |
| `TopologyRefuses`, `Derive` | `topology_validate.yml` |
| `ListPods`, `RunDemand`, `GateRefuses`, `Admit` | `capacity.yml` |
| `Select`, `Install`, `Finish` | the coordinator and install tasks of the launch playbook |
| `Bind`, `OthersChange` | external: the scheduler, pods of other tenants |
| `calm` | history only |

Abstractions. An upgrade with the values that are deployed keeps its pods; a changed one
gives back the place of its pods before it needs it for the new ones. The chart renders
the same workloads for the capacity verdict and for the install. `other` in `Reserves`
is a reserve that is not a whole number: the authority check compares it after a
conversion and lets it pass, and only the filter refuses it. A pod without the instance
label counts as somebody else's. A workload of kind DaemonSet or Pod has no replica count to
declare.

What the constants may be is assumed in three places, as weakly as the code and its
environment allow:

* `InputAssumption`: sources are a list, a selection is not the empty one, the workloads of
  a chart are a list, a replica count is any integer or missing, and a pod is one that
  Kubernetes accepts (`PodShape`): containers in order, requests and overhead not negative. A
  container may declare any part of its requests or none.
* `MissingAssumption`: an undeclared request is not a number.
* `NodeAssumption`: the pods of others are finitely many and acceptable too, and none of
  them carries a release that a launch may install (`MayInstall`) in the launch's namespace:
  a helm release name is unique in its namespace, so such a pod would be the launch's own.
  A reserve is one that `_assert_authority.yml:52-53` lets pass, which compares
  `... | int == 0`: a whole number is zero, and `other` stands for everything that this
  conversion turns to zero without being one. The node has a capacity in each resource.

`InitUse` is the loop of `l3_pod_demand` over the init containers, its two running totals
as a recursive function.

## 4. Runs

| Run | Instance | Question |
|---|---|---|
| `lock_safety` | 3 attempts (two interchangeable with checkpoints, one without), kills | mutual exclusion inside the terms, no foreign DELETE, the lease is implemented |
| `lock_faults` | 2 attempts, kills, failing calls, lost answers, fairness | the lock is given back unless a call failed, an abandoned lock is reclaimed |
| `teardown` | launch, teardown and rollback over 2 ids, kills | snapshots cover later mutations, silence means success |
| `launch_errors` | two launches and a rollback over 2 ids, failing calls, lost answers | an unfinished launch stays recoverable; refusals sweep nothing; one marker |
| `switch_and_launch` | a switch and a launch, all faults, 2 polls, 1 restart | nothing is selected while the viewer is re-pointed, one truthful event, selection matches the viewer's pod and, of a settled viewer, that pod's endpoint, a launch keeps a selection |
| `catalog` | a purge and a launch or teardown; a record that is there and one to be created; one edit, all faults | only residue is deleted, the Tag last, a true event; stages keep each other's and foreign tags; only operators and runs past their term disturb an owner |
| `purge_again` | two purges of two records, kills, fairness | a purge alone, with a fresh preflight, succeeds whatever the other left |
| `helm_rollback` | 2 releases, one of them mxl; 2 contents, 2 sources; 3 changes by the launch or others, 2 rollbacks, all faults | nothing unchanged is touched, clean is true and is reached, the coordinator is kept |
| `netbox_rollback` | 2 names, 3 ids, 2 values of each part; one edit, 2 rollbacks, all faults | no record of the snapshot is deleted, foreign parts survive, clean is true and is reached |
| `launch_plan` | 7 parameter sets or none, 4 charts, 2 pods of others, 2 launches, 1 change | what is admitted fits, what is refused does not, no budget no launch, the topology plays |
| `switch_keeps_baselines`, `switch_success` | smallest instance that shows it | findings, section 7 |

Bounds, and why they are enough.

* `TTL = 1`, `MaxClock = 4`: one attempt can start late enough to reclaim an expired
  lock, and be reclaimed itself. A term matters only as "over" or "not over".
* `MaxAttempts = 2`: the retry is taken once and exhausted once.
* Three attempts is the smallest number with a foreign object between a read and a
  DELETE while a third one reclaims. Failing calls and three attempts together are left
  to the proof.
* Two ids: a run's own, and one it can sweep. Three runs: the one that leaves a
  baseline, the one that mutates after it, the one that restores it. A single lease term
  per run suffices since terms never restart.
* `MaxPolls = 2`: a poll is repeated once and gives up once. `MaxRestarts = 1`: the
  viewer restarts at every point once, on top of the replacement by each upgrade.
* `catalog` has one record that a play may find and one that it may have to create after a
  purge deleted the first: NetBox does not use an id twice. The purge's loops are left to
  `purge_again`, which has two records, but no plays and no failing calls, for size: a
  kill after any call leaves everything that a failing call leaves. `MaxEdits = 1`: one
  edit at any point, by which either kind of tag is lost if it can be.
* `helm_rollback`: the release of the launch, one of the snapshot, and either may be both.
  Three changes: the launch's, and one by others before and one during a rollback. Two
  rollbacks: one that breaks off and its retry. For more of any of these there is the proof.
* `netbox_rollback`: three ids are a found record, one the launch creates, and one more
  under a reused name. The edit happens at any point, of any part.
* `launch_plan`: the node (7 by 6) holds some of the launches exactly, some by cpu only
  and some not at all. Two launches: the second replaces releases of the first. The charts
  have each shape of a pod that the demand treats apart, and each way to have no budget;
  the parameter sets have each way to be invalid that compares two sources.
* `LiveView` and `SwitchView` leave out what neither a later step nor a property reads
  (a loop counter after the loop, facts of a finished run). Symmetries permute ids,
  launches or sources that no configuration tells apart, and never in a run with a
  liveness property.

Deadlock is checked for `FacilityLock`, `RunLifecycle`, `Switch` and `Catalog`: `Finished`
is a stuttering step enabled only when every run has ended. `HelmRollback`,
`NetBoxRollback` and `LaunchPlan` have one actor at a time and simply end when their
bounds are used up.

Fairness. `FairSpec` gives each attempt weak fairness on `Run(a)`: a playbook that runs
executes its next task, because Ansible does and every wait in it is bounded. Nobody has
to start a playbook, no fault has to happen, and the clock may stop. `CatalogFairSpec`
does the same for the runs of `Catalog`, for `purge_again`. The other
modules are checked for safety only and state no fairness.

## 5. Proofs

`FacilityLeaseProofs` proves, for any set of attempts, that `FacilityLease` never has an
attempt acting as the holder inside its term without owning the facility
(`LeaseHonoursTerms`), and so never two (`LeaseExcludes`).

`FacilityLockProofs` proves, for any set of attempts, TTL, retry bound, set of
checkpointed attempts, set of faults and clock bound, from `LockAssumption` alone:

| Theorem | Statement |
|---|---|
| `TypeCorrect` | `Spec => []TypeOK` |
| `Inductive` | `Spec => []IInv` |
| `MutualExclusionInTerm` | `Spec => []OneHolderInTerm` |
| `NoLeakWithoutError` | `Spec => []LeftHeldOnlyAfterError` |
| `TakenOnlyRightly` | `Spec => TakenOnlyByHolderOrPastTerm` |
| `LockImplementsLease` | `Spec => ImplementsLease` |

The argument. `OneHolderInTerm` is not inductive: it follows from
`HolderHasLockInTerm` (a holder inside its term *has* the lock, and the object has one
holder). To keep that, every DELETE has to be shown to hit only what it was meant for:

* `ReadStillMeans` says what a pending DELETE or PUT still knows about the object that
  was read: an object with the same uid has the same holder, a reclaim's object was
  expired at the reclaimer's clock, a release's or refresh's object is its own. Here the
  uid precondition earns its place: without it the second half cannot be preserved.
* `LockFromHolder` says that an object was created by the attempt it names, after that
  attempt read its clock, and that its uid is below the next one. With it, "expired at
  the reclaimer's clock" implies "the holder's term is over" although the two attempts
  read different clocks at different times.
* `WillRelease` ties labels to phases and to `l3_lock_acquired`: whatever ends the block
  of a holder leads to a release. `LeftHeldOnlyAfterError` needs it.
* An attempt creates at most one object at a time that can still be named: the labels of
  `BeforeCreate` are those without one, which makes the uid decide about the holder.

The refinement proof maps every action to a lease step or a stutter: `Create` and
`ReclaimCreate` to `Grant`, `Verify` to `Confirm`, leaving a holder label to `Withdraw`,
`ReleaseDelete` to `Release`, `ReclaimDelete` to `Evict`, `Start` and `Tick` to `Age`.

`RunLifecycleProofs` proves, for any sets of launches, teardowns, rollbacks, switches and
run ids and any of the two faults, from `RunAssumption` (the kinds of run are disjoint and
make up the attempts) and `NoOneAssumption`:

| Theorem | Statement |
|---|---|
| `RunTypeCorrect` | `RunSpec => []RunTypeOK` |
| `OneMarkerEach` | `RunSpec => []NoSecondMarker` |
| `RefusalsSweepNothing` | `RunSpec => []RefusalKeepsBaselines` |
| `RunsKeepTheLease` | `RunSpec => LeaseSpec` |
| `RunsHonourTerms` | `RunSpec => []TermHonoured` |
| `LaunchesStayRecoverable` | `RunSpec => []UnfinishedLaunchCanBeRolledBack` |
| `BaselinesStayCovered` | `RunSpec => []BaselinesCoverMutations` |
| `SilentEndsAreGood` | `RunSpec => []SilenceMeansSuccess`, if `"api" \notin Faults` |

The argument is in layers, each an invariant over the one before.

* `FlowInv`: the types and, run by run, `Local`: which kind of run reaches which label
  (`KindOK`), what its flags and its sweeping say there (`FlagsOK`), and that it has said
  nothing where a marker may still follow (`MarkersOK`). A run reaches `rescue-check`, from
  where a marker follows, only unmarked and with nothing said; that is why no branch of
  `gate_rescue.yml` adds a second one. The lemmas `RaiseLocal`, `CheckpointLocal`,
  `RefuseLocal` and `ReleaseLocal` are what the shared task files keep, `LocalStep` uses
  them for each action, and `FrameLocal` says that no step touches another run.
* `SnapshotsOK`: one launch per snapshot (creation is create-only), its history begins with
  it, and while that launch is not about to give it up it can be restored. Only its own
  launch, a rollback or a sweep writes a snapshot.
* `CoverOK`: while a run owns the facility, nobody else's mutations are in the history of
  its snapshot; every other snapshot its sweep is through with is ineligible or was
  written late; and a rollback restores a snapshot that was covered when it was read. It is
  kept because an owner never becomes owner again (`OwnerStays`: a run is granted the
  facility at `lock` only), and a patch of anybody else puts the id in `late`.
* `SilentInv`: what a run that ended without a marker has behind it. `SilentOK` says, run by
  run, that whoever marked itself has said so, except between two steps, that a run past its
  last stage changed the workloads, and at which labels a run may be that has said nothing.
  `EndedOK` relates the launch to the rollback of its snapshot: once a launch ended well, its
  snapshot is terminal or was written late, and a rollback that owns the facility and is past
  its guard on that id can only be there if the snapshot was written late. The hypothesis is
  about the code, not the proof: when the status patch of a rescue fails, the run ends before
  the marker that follows it (`RescuePatch`).

`HelmRollbackProofs` proves, for any releases, contents, sources, faults, and bounds on
changes and rollbacks, from `HelmAssumption`:

| Theorem | Statement |
|---|---|
| `HelmTypeCorrect` | `HelmSpec => []HelmTypeOK` |
| `UnchangedStays` | `HelmSpec => []UnchangedIsUntouched` |
| `CleanReportIsTrue` | `HelmSpec => CleanMeansRestored` |
| `CalmConverges` | `HelmSpec => CalmRollbackIsClean` |
| `CoordinatorIsKept` | `HelmSpec => CoordinatorSurvives` |

`HelmInv` adds to the properties what the loops know: a recorded revision of an unchanged
release still deploys the recorded content, which a `helm rollback` (it appends a revision)
does not disturb; nothing of the snapshot is ever among the removals; whatever a listing
did not see was changed after it (`moved`, `late`); and what an undisturbed rollback has
still to repair is in the loop it is in.

`NetBoxRollbackProofs` proves, for any names, parts, faults and bounds, from
`NetBoxAssumption` and `AbsentAssumption`:

| Theorem | Statement |
|---|---|
| `NetBoxTypeCorrect` | `NetBoxSpec => []NetBoxTypeOK` |
| `FoundRecordsAreSafe` | `NetBoxSpec => FoundRecordsStay` |
| `ForeignPartsAreKept` | `NetBoxSpec => ForeignPartsSurvive` |
| `CleanReportIsTrue` | `NetBoxSpec => CleanMeansAsFound` |
| `UndisturbedConverges` | `NetBoxSpec => UndisturbedIsClean` |

`NetBoxInv` says that a record nobody edited since the lookups is as it was seen, so that
writing back the looked-up tags loses none; that the loops work on ids of the snapshot
(restores) or not of it (deletes); and what is restored and deleted so far while nothing
is dirty. That a new record never takes an id of the snapshot is an invariant of its own,
`IdsAreFresh`.

`SwitchProofs` proves, for any runs, targets, sources, faults, polls and restarts, from
the assumptions of `Switch`:

| Theorem | Statement |
|---|---|
| `SwitchTypeCorrect` | `SwitchSpec => []SwitchTypeOK` |
| `SwitchEmitsOnce` | `SwitchSpec => []OneEvent` |
| `SwitchTellsTheTruth` | `SwitchSpec => EventTellsTheTruth` |
| `NothingSelectedWhileSwitching` | `SwitchSpec => []QuiescedWhileSwitching` |
| `SelectionMatchesViewer` | `SwitchSpec => SelectMatchesViewer` |
| `LaunchesKeepTheSelection` | `SwitchSpec => LaunchKeepsSelection` |
| `SwitchKeepsTheLease` | `SwitchSpec => LeaseSpec` |
| `SwitchHonoursTerms` | `SwitchSpec => []TermHonoured` |

`FlowInv` is types and, run by run, the control flow (`Local`): what a run has emitted at
each label. `OneEvent` follows from it. The other four need what the owner knows of the
cluster: `Informed` says, phase by phase, which of the facts it read still hold, from "the
captured selection is the selection" before the quiesce to "values, Deployment and
coordinator are those of the baseline" before it reports a restore. It holds of the owner
while `strays = {}`; then nobody but the owner and the viewer's pod writes, and the pod can
only make an endpoint fresh (`OthersKeepOff`, `FrameInformed`). One lemma for each call that
reads or writes says that it leaves its run informed. Whose endpoint it is needs one more
clause, `Awaiting`, of a settled switch between quiesce and selection: an endpoint that is
there is the target's, a pod that has not published yet is of the target's flow, and the
template is the pod's or the target's. The steps of the pod keep it by themselves
(`ViewAwaiting`). Without `settled` it is false: `switch_success` shows how.

`CatalogProofs` proves, for any purges, plays, record ids, edits and faults, from
`CatalogAssumption` and `OneRecordAssumption`:

| Theorem | Statement |
|---|---|
| `CatalogTypeCorrect` | `CatalogSpec => []CatalogTypeOK` |
| `SuccessTellsTheTruth` | `CatalogSpec => []SuccessMeansGone` |
| `PurgeEmitsOnce` | `CatalogSpec => []OnePurgeEvent` |
| `LaunchKeepsItsGroup` | `CatalogSpec => []LaunchedIsGrouped` |
| `PurgeDeletesOnlyResidue` | `CatalogSpec => DeletesOnlyResidue` |
| `TagGoesLast` | `CatalogSpec => TagOutlivesMembers` |
| `ForeignTagsSurvive` | `CatalogSpec => NotesSurvive` |
| `OwnersAreDisturbedOnlyByStrays` | `CatalogSpec => DisturbedOnlyByStrays` |
| `CatalogKeepsTheLease` | `CatalogSpec => LeaseSpec` |
| `CatalogHonoursTerms` | `CatalogSpec => []TermHonoured` |

`CatalogInv` has the control flow (`Local`) and what a run's reads are still worth (`Knows`),
up to the records in its `moved`. `PurgeOK`: in the loops every record of the workload that
is still there is among the found ones, each of those is finalised and was expected, and
while nothing is dirty, what is still there is still to do; from the Tag guard on none is
left. `PlayOK`: a tag of an operator's on the record of a stage that is about to write is
among those it read, and between its write and its readback the record has the merged tags. `NamedOK`: no record under the play's name exists but the one
it works on (before its lookup: but the one that was there or was created since), so that a
lookup which finds one finds the right one. `RecordsOK` is why: a record is only created
when none of that name is there. Another run's step changes a record only by putting it in
`moved`, and then `Knows` says nothing of it (`FrameKnows`); so the proof asks nothing of
who owns the facility. `DisturbedOnlyByStrays` is proved apart, from the lease: a run other
than the owner that still acts is past its term.

Why `moved` has every change by others, and not only those made while the run does not own
the facility: with three runs, one of them evicted and writing on while the others own the
facility in turn, `SuccessMeansGone` and `LaunchedIsGrouped` cannot be kept otherwise. The
attempt to prove it showed that; an instance of two runs does not.

`LaunchPlanProofs` proves, for any topologies, charts, pods of others, reserves, node and
bounds, from `LaunchPlanAssumption`, `InputAssumption`, `NodeAssumption` and
`MissingAssumption` (section 3.7):

| Theorem | Statement |
|---|---|
| `PodDemandIsPeak` | `PodShape(pod)` implies `PodDemand(pod) = Peak(pod)` |
| `AdmittedLaunchesFit` | `PlanSpec => []AdmittedFits` |
| `RefusedLaunchesAreTooBig` | `PlanSpec => RefusedIsTooBig` |
| `UnbudgetedIsRefused` | `PlanSpec => []UnbudgetedNeedsOverride` |
| `InstalledTopologyPlays` | `PlanSpec => []TopologyIsPlayable` |

*Sums.* The laws of a sum over a finite set need induction, and the library's induction
theorems take an operator, which the provers cannot instantiate. `WFMin`, that a
well-founded relation has a minimum in every set, takes sets only: from it come
induction over a set of naturals (`NatsByStep`) and over a set of subsets of a finite set
(`SetsByElement`). They give the laws: an element is taken out or put in (`SumWithout`,
`SumWith`), a sum is monotone, is that of its parts, of its groups (`SumOfParts`,
`SumOfGroups`), and does not exceed the sum it maps into one to one (`SumInjects`).

*One pod.* `l3_pod_demand` keeps two totals while it passes over the init containers, and
Kubernetes' `Peak` is a maximum over all of them. `InitUseSums` says what the totals are
after each container: the sum of the restartable ones until then, and the maximum of each
with the restartable ones before it. In the end they are the parts of `Peak`.

*One launch.* `ChartPeak`: if a chart has its budget, its demand is the sum of the peaks
of all the pods it makes, one for each replica. `ReleasesInOrder` says that the rendered
demands of a launch count each of its releases once, so `LaunchPeak` gives
`RunDemand.demand` as `PeakOf(Wanted)`. What a budget means is apart: `BudgetedChart`,
`BudgetOfAll` and `RunBudget` say that a demand with a budget has one in each workload of
each chart that is rendered, and `DeclaredIsBudgeted` the converse, which
`RefusedLaunchesAreTooBig` needs.

*Topology.* In valid parameters no two sources share a release, a flow or a multicast
address (`ValidTellsApart`), the viewer's projection is the selected source
(`ProjectionIsSelected`), and the release group has one release for each source, none twice
and none named as the viewer's (`GroupOfSources`).

`PlanInv` says that the group is the one the parameters derive, also when it is judged
and installed, that past the gate there is a budget or an override, that a selection is
made before the install, and that every release is still to be installed or has the values
of the plan. `NodeInv` adds what the node has to do with it:

* `PodsOK`: finitely many pods, each of others or of a release that may be installed. The
  sum over them has a value only then, and nobody else's pod is taken for the launch's own.
* `ListedOK`: while no pod of others changed, `existing` is still what a new list would
  give. An install and a binding of the launch's own pods keep it, because it leaves them
  out by release *and* namespace.
* `FittedOK`, `ReserveOK`: past the gate without an override, the launch fits by its sums,
  with a reserve that is a whole number and hence zero.
* `DeployedOK`: the live pods of a deployed release are among the pods of the values it
  was deployed with, none twice. Without it, an install that leaves a release alone because
  its values are deployed could leave pods behind that the demand never counted.

From these, when all is installed, the live pods are those of others, which are bound
and so in `existing`, and the launch's own, which map one to one into `Wanted`: the sum of
their peaks is at most what the gate compared with the node. A refusal is the other
direction: with a declared demand, what the gate compared is that sum exactly, so it exceeds
the node.

Only model-checked: `AbandonedLockIsReclaimed` and `RerunConverges`. They are liveness;
fairness and ENABLED are out of the prover's reach.

## 6. Not modelled, and why

* Identity and override validation: pure functions of the input with no state; their
  refusals before the lock are in `Start` of `RunLifecycle`.
* The parsing of quantities and manifests, and the preflight checks of node count and
  access: text, and one refusal of `RunLifecycle`. `LaunchPlan` has one node, which is
  what those checks demand.
* The monitoring surface of a rollback: the code derives it from the NetBox records,
  restores nothing of its own, and always reports it.
* The Helm calls of the workload roles: they are the abstract mutation of `RunLifecycle`
  (their NetBox calls are in `Catalog`, which releases a launch installs in `LaunchPlan`). The stages and the playbooks of `nmos-cpp` and
  `nmos-crosspoint` have the shape of the `mxl` ones.
* Markers, milestones: string encoding; a marker is a token in a sequence.
* Tests, CI, scripts, container images: not part of the running system.

## 7. Findings

Each is a comment of the code that a run refutes; the quoted lines are in
`PROJECT.json`.

* `LaterMutationInvalidates`: every later mutating run is said to invalidate earlier
  snapshots. A switch mutates the viewer's release and the coordinator and sweeps
  nothing, so a rollback can restore over it.
* `SuccessMeansTarget`: the selected source is said to start only against the endpoint that
  the new pod publishes. The quiesce clears the endpoint once, and PHASE 2 asks only that
  there is one: if the old pod's containers restarted and publish once more between the
  quiesce and their replacement, it is theirs, the new pod need only be ready, and the switch reports
  success. No call has to fail. With `Faults = {"helm"}` in the cfg TLC finds a shorter
  way: an upgrade that failed without touching the Deployment, of a viewer whose container
  restarts, passes PHASE 2 too, which compares no flow. `SelectMatchesViewer` says for
  which switches the endpoint is the new pod's, and is proved.

Observed while reading, without a run of their own:

* `lock_checkpoint.yml:20-21`: a checkpoint's refresh is said to extend the attempt's
  window. A DELETE of a reclaim that was decided on a read from before the refresh carries
  the uid only, which a refresh does not change, and removes the refreshed lock.
* `rollback_terminal.yml:63`: the sentinel of the terminal stage is set after its release;
  an error between the marker and the sentinel makes the rescue emit a second marker.
* `_refuse_pre_mutation.yml:39`: the refusal raises its flag before the status patch and
  the marker; if that patch fails, `gate_rescue.yml` takes the refusal for reported and
  the run ends without any marker.
* A purge that its checks refuse is reported by the shared marker as post-mutation-failed
  (`l3_mutation_started` is set before its first read), although nothing was deleted.
* `tasks/main.yml:35-36` expects a lock to stay behind only after a hard crash; it
  also does when the readback after the POST raises (`l3_lock_acquired` is not set yet).
* `gate_rescue.yml:142-144` reports "Snapshot marked failed_rollback_required" also for teardowns,
  which have none, and for launches that were fenced out.
* A rollback whose input assertions fail renders `l3_request_id` in its rescue before it
  is defined, and ends without a marker (`Start` of `RunLifecycle`).
* A launch whose last release fails ends as post-mutation-failed with a snapshot that
  says `run_complete`.
* A launch that is fenced out right after its sweep has superseded older baselines
  without changing anything.
* `switch_poll_rollback_verify.yml:26-27`: the endpoint that the rollback's verification
  asks for is said to be "republished by the restored target on its own startup". Nothing
  clears the endpoint between upgrade and rollback: it can be that of the upgrade's pod,
  published just after the poll gave up, and the old selection is then restored against
  it. This needs no fault and no restart.
* A switch to the flow that already runs restarts no pod; the quiesced endpoint is then
  never published again, so neither the poll nor the rollback's verification can succeed.
* A failed or pending Helm revision makes each later switch refuse while it resolves the
  chart, until somebody repairs the release.
* A switch that fails after PHASE 3 has selected the target (a lost answer, the readback,
  the release) reports `refused`, which `switch-mxl-fabrics-demo.yml:735-741` explains as
  a state in which nothing is selected.
* A purge runs the supersede sweep before its read-only checks: one that they refuse has
  deleted nothing and superseded every older baseline, where `_supersede_sweep.yml:12-15`
  says that a refusal during read-only planning never does.
* A relaunch of a topology with another selection keeps the coordinator's selection, but
  installs the viewer with the flow of the parameters (`l3_topology_viewer_projection`):
  nothing plays until somebody switches. `TopologyIsPlayable` speaks of launches whose
  selection is the one in force.
* A relaunch with fewer sources leaves the releases of the dropped ones running.
* `helm list` without `-a` does not show a release that is pending; a rollback takes one
  for absent.
* The coordinator surface has no flag in the list of dirty surfaces.
* `rollback.yml`'s rescue reports "refused before any mutation" also when a later
  checkpoint fences the rollback out after it changed the helm surface.
* A record that an operator creates under one of the launch's names before the rollback is
  deleted as created by the run.
* A foreign tag that is added between the lookup and the PATCH is erased
  (`_rollback_netbox_restore_one.yml` sends the tags of the lookup).
* Existing demand does not count pods that are not yet bound, nor those in phase Unknown.
* An `l3_ee_reserve` that is no whole number passes the authority check
  (`_assert_authority.yml:52`, `| int == 0`) and is refused by the fit filter only.
* A RollingUpdate that surges needs the place of both generations; at an exact fit the
  upgrade of a release can wait for a pod that is never bound.
