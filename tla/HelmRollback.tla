---------------------------- MODULE HelmRollback ----------------------------
(***************************************************************************)
(* The Helm and the coordinator surface of a failed launch, and of the     *)
(* rollbacks (rollback-run.yml, as often as somebody starts it) that bring *)
(* them back to the snapshot the launch took before its first change.      *)
(*                                                                         *)
(* Helm is modelled by the history it keeps of each release: an upgrade    *)
(* and a `helm rollback` append a revision, an uninstall drops them all.   *)
(* Chart, app version and values of a revision are one content: they are   *)
(* compared together, and a failed values fetch makes them all unknown.    *)
(* The facility lock is not modelled here: no other run is at work, but    *)
(* people and controllers that take no lock change releases at any time.   *)
(***************************************************************************)
EXTENDS Naturals, Sequences, SequencesExt

CONSTANTS
  Release,      \* release names, in the namespaces mxl and nmos
  MxlRelease,   \* those named mxl-* in the namespace mxl
  Content,      \* what a revision deploys
  Source,       \* values of active-source
  NoContent,    \* of a release that is not installed
  Unknown,      \* of a release whose values fetch failed
  NoSource,     \* active-source is absent
  MaxChanges,   \* bound: changes by the launch and by others
  MaxTries,     \* bound: rollbacks of this snapshot
  Faults        \* a subset of {"kill", "api"}

ASSUME HelmAssumption ==
  /\ MxlRelease \subseteq Release
  /\ NoContent \notin Content /\ Unknown \notin Content /\ NoContent # Unknown
  /\ NoSource \notin Source
  /\ MaxChanges \in Nat /\ MaxTries \in Nat

VARIABLES
  revs,      \* Helm: the revisions of a release, oldest first
  cm,        \* the ConfigMap mxl-coordinator exists
  active,    \* its active-source
  stage,     \* where the launch, then the rollback, is
  base,      \* the snapshot: revision and content of every release
  baseActive,\* the snapshot: active-source
  optedIn,   \* the snapshot has a coordinator_state
  ident,     \* content identities of the last listing
  removals,  \* _l3_releases_to_remove
  restores,  \* _l3_helm_content_restores
  todo,      \* what is left of the loop at work
  dirty,     \* _l3_helm_dirty
  tries, changes,
  changed,   \* history: releases the launch or others changed since the snapshot
  moved,     \* history: releases others changed since this rollback's listing
  late,      \* history: releases others changed since its readback
  calm       \* history: from a restorable state, nothing moved and no call failed

cluster == <<revs, cm, active>>
snapshot == <<base, baseActive, optedIn>>
plan == <<removals, restores>>
local == <<ident, plan, todo, dirty>>
counters == <<tries, changes>>
helmHistory == <<changed, moved, late, calm>>
helmVars == <<cluster, snapshot, stage, local, counters, helmHistory>>

Loops == {"uninstall", "restore"}
Rolling == {"list", "fetch", "readback", "readback-fetch", "cleanup", "cm-delete",
            "coordinator", "select", "deselect", "terminal"} \cup Loops
HelmStage == {"fresh", "refused", "launch", "idle", "reported"} \cup Rolling

Current(r) == IF revs[r] = <<>> THEN NoContent ELSE Last(revs[r])
Installed == {r \in Release : revs[r] # <<>>}
PreRun == {r \in Release : base[r].content # NoContent}

\* Each release the run found can be brought back by its recorded revision.
Restorable ==
  \A r \in PreRun : base[r].rev <= Len(revs[r]) /\ revs[r][base[r].rev] = base[r].content

NothingRecorded == [rev |-> 0, content |-> NoContent]

HelmTypeOK ==
  /\ revs \in [Release -> Seq(Content)]
  /\ cm \in BOOLEAN /\ active \in Source \cup {NoSource}
  /\ stage \in HelmStage
  /\ base \in [Release -> [rev : Nat, content : Content \cup {NoContent}]]
  /\ baseActive \in Source \cup {NoSource} /\ optedIn \in BOOLEAN
  /\ ident \in [Release -> Content \cup {NoContent, Unknown}]
  /\ removals \subseteq Release /\ restores \subseteq Release /\ todo \subseteq Release
  /\ dirty \in BOOLEAN
  /\ tries \in 0..MaxTries /\ changes \in 0..MaxChanges
  /\ changed \subseteq Release /\ moved \subseteq Release /\ late \subseteq Release
  /\ calm \in BOOLEAN

HelmInit ==
  /\ revs \in [Release -> {<<>>} \cup {<<c>> : c \in Content}]
  /\ cm \in BOOLEAN /\ active \in IF cm THEN Source \cup {NoSource} ELSE {NoSource}
  /\ stage = "fresh"
  /\ base = [r \in Release |-> NothingRecorded] /\ baseActive = NoSource
  /\ optedIn \in BOOLEAN
  /\ ident = [r \in Release |-> NoContent]
  /\ removals = {} /\ restores = {} /\ todo = {} /\ dirty = FALSE
  /\ tries = 0 /\ changes = 0
  /\ changed = {} /\ moved = {} /\ late = {} /\ calm = FALSE

-----------------------------------------------------------------------------
\* Calls.

\* helm list and helm get values of each release: what the surface looks like,
\* with the releases whose values could not be read.
Listed(names, failed) ==
  [r \in Release |-> IF r \notin names THEN NoContent
                     ELSE IF r \in failed \/ revs[r] = <<>> THEN Unknown
                     ELSE Current(r)]

\* A call that goes wrong, when calls may.
Unreadable == IF "api" \in Faults THEN SUBSET Release ELSE {{}}
CanFail == "api" \in Faults

\* A task without ignore_errors fails, or the executor is killed: rollback.yml's
\* rescue reports every surface and releases; the snapshot stays eligible.
Abort ==
  /\ stage' = "idle" /\ todo' = {} /\ calm' = FALSE
  /\ UNCHANGED <<cluster, snapshot, ident, plan, dirty, counters, changed, moved, late>>

CallFails == CanFail /\ stage \in Rolling \ (Loops \cup {"fetch", "readback", "readback-fetch", "terminal"}) /\ Abort
Kill == "kill" \in Faults /\ stage \in Rolling /\ Abort

-----------------------------------------------------------------------------
\* The launch.

\* Mutant of Capture: a failed values fetch is recorded as no release.
CaptureUnread ==
  /\ stage = "fresh"
  /\ \E failed \in Unreadable :
       base' = [r \in Release |-> IF r \in Installed \ failed
                                  THEN [rev |-> Len(revs[r]), content |-> Current(r)]
                                  ELSE NothingRecorded]
  /\ baseActive' = IF optedIn THEN active ELSE NoSource
  /\ stage' = "launch"
  /\ UNCHANGED <<cluster, optedIn, local, counters, helmHistory>>

\* snapshot.yml: a baseline with an unknown content is refused.
Capture ==
  /\ stage = "fresh"
  /\ \E failed \in Unreadable :
       IF failed \cap Installed = {}
       THEN /\ base' = [r \in Release |-> [rev |-> Len(revs[r]), content |-> Current(r)]]
            /\ baseActive' = IF optedIn THEN active ELSE NoSource
            /\ stage' = "launch"
       ELSE stage' = "refused" /\ UNCHANGED <<base, baseActive>>
  /\ UNCHANGED <<cluster, optedIn, local, counters, helmHistory>>

\* helm upgrade --install: a new revision, or the first one.
Deploy ==
  /\ stage = "launch" /\ changes < MaxChanges
  /\ \E r \in Release, c \in Content :
       /\ revs' = [revs EXCEPT ![r] = Append(@, c)]
       /\ changed' = changed \cup {r}
  /\ changes' = changes + 1
  /\ UNCHANGED <<cm, active, snapshot, stage, local, tries, moved, late, calm>>

\* The launch creates the coordinator, and selects when nothing is selected.
LaunchSelect ==
  /\ stage = "launch" /\ optedIn /\ active = NoSource
  /\ cm' = TRUE /\ active' \in Source \cup {NoSource}
  /\ <<cm', active'>> # <<cm, active>>
  /\ UNCHANGED <<revs, snapshot, stage, local, counters, helmHistory>>

LaunchFails ==
  /\ stage = "launch" /\ stage' = "idle"
  /\ UNCHANGED <<cluster, snapshot, local, counters, helmHistory>>

\* Somebody without the lock upgrades, installs or uninstalls a release.
Drift ==
  /\ stage \notin {"fresh", "refused"} /\ changes < MaxChanges
  /\ \E r \in Release :
       /\ \/ \E c \in Content : revs' = [revs EXCEPT ![r] = Append(@, c)]
          \/ r \in Installed /\ revs' = [revs EXCEPT ![r] = <<>>]
       /\ changed' = changed \cup {r}
       /\ moved' = moved \cup {r}
       /\ late' = late \cup {r}
  /\ changes' = changes + 1 /\ calm' = FALSE
  /\ UNCHANGED <<cm, active, snapshot, stage, local, tries>>

\* A switch between two runs (it supersedes no snapshot) selects another source.
SwitchSelects ==
  /\ stage \in {"idle", "reported"} /\ cm /\ changes < MaxChanges
  /\ active' \in Source \ {active} /\ changes' = changes + 1
  /\ UNCHANGED <<revs, cm, snapshot, stage, local, tries, helmHistory>>

-----------------------------------------------------------------------------
\* rollback_helm_surface.yml.

Begin ==
  /\ stage \in {"idle", "reported"} /\ tries < MaxTries
  /\ stage' = "list" /\ tries' = tries + 1
  /\ moved' = {} /\ late' = {} /\ calm' = Restorable
  /\ ident' = [r \in Release |-> NoContent]
  /\ removals' = {} /\ restores' = {} /\ todo' = {} /\ dirty' = FALSE
  /\ UNCHANGED <<cluster, snapshot, changes, changed>>

\* A listed release is kept as unknown until its values are fetched.
ListCurrent ==
  /\ stage = "list" /\ stage' = "fetch"
  /\ ident' = Listed(Installed, Release)
  /\ moved' = {}
  /\ UNCHANGED <<cluster, snapshot, plan, todo, dirty, counters, changed, late, calm>>

\* l3_releases_to_remove: present now, not in the snapshot.
ToRemove(seen) == {r \in Release \ PreRun : seen[r] # NoContent}

\* l3_helm_content_restores: in both, and changed or not known to be unchanged.
ContentRestores(seen) == {r \in PreRun : seen[r] \notin {NoContent, base[r].content}}

\* The values of the releases listed; then the two loops are planned.
FetchCurrent ==
  /\ stage = "fetch" /\ stage' = "uninstall"
  /\ \E failed \in Unreadable :
       LET seen == Listed({r \in Release : ident[r] # NoContent}, failed) IN
       /\ ident' = seen
       /\ removals' = ToRemove(seen) /\ todo' = ToRemove(seen)
       /\ restores' = ContentRestores(seen)
       /\ calm' = (calm /\ \A r \in Release : seen[r] # Unknown)
  /\ UNCHANGED <<cluster, snapshot, dirty, counters, changed, moved, late>>

\* An ignored error: without effect, or after it (helm --wait times out).
Ignored(r, after) ==
  /\ \/ revs' = [revs EXCEPT ![r] = after] /\ calm' = calm
     \/ CanFail /\ calm' = FALSE /\ revs' \in {revs, [revs EXCEPT ![r] = after]}
  /\ todo' = todo \ {r}
  /\ UNCHANGED <<cm, active, snapshot, stage, ident, plan, dirty, counters,
                 changed, moved, late>>

Uninstall == stage = "uninstall" /\ \E r \in todo : Ignored(r, <<>>)

UninstallsDone ==
  /\ stage = "uninstall" /\ todo = {}
  /\ stage' = "restore" /\ todo' = restores
  /\ UNCHANGED <<cluster, snapshot, ident, plan, dirty, counters, helmHistory>>

\* helm rollback mints a new revision with the content of the recorded one; without
\* such a revision (the release was installed anew) it fails.
HelmRollbackTo(r) ==
  IF base[r].rev <= Len(revs[r]) THEN Append(revs[r], revs[r][base[r].rev]) ELSE revs[r]

Restore == stage = "restore" /\ \E r \in todo : Ignored(r, HelmRollbackTo(r))

RestoresDone ==
  /\ stage = "restore" /\ todo = {} /\ stage' = "readback"
  /\ UNCHANGED <<cluster, snapshot, local, counters, helmHistory>>

\* The listing after the loops; a listing that fails is dirty.
Readback ==
  /\ stage = "readback"
  /\ late' = {}
  /\ \/ stage' = "readback-fetch" /\ ident' = Listed(Installed, Release) /\ UNCHANGED <<dirty, calm>>
     \/ CanFail /\ stage' = "cleanup" /\ dirty' = TRUE /\ calm' = FALSE /\ UNCHANGED ident
  /\ UNCHANGED <<cluster, snapshot, plan, todo, counters, changed, moved>>

\* Mutants of ReadbackDirty: only what was to be restored is compared; the revision
\* counter is compared instead of the content.
ReadbackDirtyRestores(seen) ==
  \/ \E r \in removals : seen[r] # NoContent
  \/ \E r \in restores : seen[r] # base[r].content
ReadbackDirtyRevision(seen) ==
  \/ \E r \in removals : seen[r] # NoContent
  \/ \E r \in PreRun : seen[r] \in {NoContent, Unknown} \/ Len(revs[r]) # base[r].rev

\* l3_helm_readback_dirty: a removal is still there, or a release of the snapshot is
\* gone, unread or different.
ReadbackDirty(seen) ==
  \/ \E r \in removals : seen[r] # NoContent
  \/ \E r \in PreRun \ removals : seen[r] # base[r].content

ReadbackFetch ==
  /\ stage = "readback-fetch" /\ stage' = "cleanup"
  /\ \E failed \in Unreadable :
       LET seen == Listed({r \in Release : ident[r] # NoContent}, failed) IN
       /\ ident' = seen
       /\ dirty' = ReadbackDirty(seen)
       /\ calm' = (calm /\ \A r \in Release : seen[r] # Unknown)
  /\ UNCHANGED <<cluster, snapshot, plan, todo, counters, changed, moved, late>>

\* Mutant of Remaining: what was to be removed counts as removed.
RemainingPlanned == (Installed \cap MxlRelease) \ removals

\* helm list -q, the names that start with mxl-.
Remaining == Installed \cap MxlRelease

\* Only a rollback that planned to remove a release of the namespace mxl looks.
Cleanup ==
  /\ stage = "cleanup"
  /\ stage' = IF removals \cap MxlRelease # {} /\ Remaining = {}
              THEN "cm-delete" ELSE "coordinator"
  /\ UNCHANGED <<cluster, snapshot, local, counters, helmHistory>>

CmDelete ==
  /\ stage = "cm-delete" /\ stage' = "coordinator"
  /\ cm' = FALSE /\ active' = NoSource
  /\ UNCHANGED <<revs, snapshot, local, counters, helmHistory>>

-----------------------------------------------------------------------------
\* rollback_coordinator_surface.yml.

\* Mutant of Coordinator: an active-source that was absent is not removed.
CoordinatorOnlyRestores ==
  /\ stage = "coordinator"
  /\ stage' = IF optedIn /\ baseActive # NoSource THEN "select" ELSE "terminal"
  /\ UNCHANGED <<cluster, snapshot, local, counters, helmHistory>>

\* A no-op without a recorded coordinator; else read it and decide.
Coordinator ==
  /\ stage = "coordinator"
  /\ stage' = IF ~optedIn THEN "terminal"
              ELSE IF baseActive # NoSource THEN "select"
              ELSE IF active # NoSource THEN "deselect" ELSE "terminal"
  /\ UNCHANGED <<cluster, snapshot, local, counters, helmHistory>>

\* The merge patch creates the ConfigMap if the cleanup deleted it.
PatchActive ==
  /\ stage \in {"select", "deselect"} /\ stage' = "terminal"
  /\ cm' = TRUE
  /\ active' = IF stage = "select" THEN baseActive ELSE NoSource
  /\ UNCHANGED <<revs, snapshot, local, counters, helmHistory>>

\* rollback_terminal.yml: the surface is reported dirty or not (l3_rollback_outcome).
Terminal ==
  /\ stage = "terminal" /\ stage' = "reported"
  /\ UNCHANGED <<cluster, snapshot, local, counters, helmHistory>>

HelmNext ==
  \/ Capture \/ Deploy \/ LaunchSelect \/ LaunchFails \/ Drift \/ SwitchSelects
  \/ Begin \/ ListCurrent \/ FetchCurrent \/ Uninstall \/ UninstallsDone \/ Restore
  \/ RestoresDone \/ Readback \/ ReadbackFetch \/ Cleanup \/ CmDelete \/ Coordinator
  \/ PatchActive \/ Terminal \/ CallFails \/ Kill

HelmSpec == HelmInit /\ [][HelmNext]_helmVars

-----------------------------------------------------------------------------
\* Properties.

Reporting == stage = "terminal" /\ stage' = "reported"

(***************************************************************************)
(* A release nobody changed since the snapshot keeps its content through   *)
(* every rollback, also one that cannot read it and rolls it back anyway,  *)
(* and through its retries (l3_releases_to_remove, helm rollback by        *)
(* revision number).                                                       *)
(***************************************************************************)
UnchangedIsUntouched ==
  stage \notin {"fresh", "refused"} =>
    \A r \in Release \ changed : Current(r) = base[r].content

(***************************************************************************)
(* Call success never equals clean: a rollback that reports no helm        *)
(* surface leaves every release of the snapshot with the content of the    *)
(* snapshot and none of the launch's, except what others changed after the *)
(* reads the report rests on (l3_helm_readback_dirty).                     *)
(***************************************************************************)
CleanMeansRestored ==
  [][Reporting /\ ~dirty =>
       /\ \A r \in PreRun \ late : Current(r) = base[r].content
       /\ \A r \in Release \ (PreRun \cup moved) : r \notin Installed]_helmVars

(***************************************************************************)
(* A rollback during which nothing else happens reports the surface clean, *)
(* whatever the launch and earlier rollbacks, broken off at any point,     *)
(* left: no difference counts that a successful restore leaves behind (the *)
(* revision counter).                                                      *)
(***************************************************************************)
CalmRollbackIsClean == [][Reporting /\ calm => ~dirty]_helmVars

(***************************************************************************)
(* The coordinator that mxl releases share is deleted only when none is    *)
(* left (also when an uninstall failed), and the selection the snapshot    *)
(* recorded is back when the rollback reports, whether or not the cleanup  *)
(* deleted the ConfigMap on the way.                                       *)
(***************************************************************************)
CoordinatorSurvives ==
  [][/\ cm /\ ~cm' => Installed \cap MxlRelease \subseteq moved
     /\ Reporting /\ optedIn => active = baseActive]_helmVars
=============================================================================
