------------------------------- MODULE Catalog -------------------------------
(***************************************************************************)
(* The NetBox records of one media workload: the launch and teardown       *)
(* stages that create and tag them (roles/mxl with netbox_catalog_common)  *)
(* and finalise-purge.yml, which deletes what a finalised workload leaves. *)
(*                                                                         *)
(* NetBox has no transaction and no conditional write: every stage reads a *)
(* record, computes its tags and writes the whole list back; the purge     *)
(* reads the members, checks them and deletes them one by one by id.  Both *)
(* rely on the facility lock (FacilityLease) and on reading back.  An      *)
(* operator who edits a record in NetBox takes no lock.                    *)
(*                                                                         *)
(* A tag is a name of Tag; tags that are always there are left out.        *)
(***************************************************************************)
EXTENDS FacilityLease, Naturals, Sequences

CONSTANTS
  Purge,     \* the runs of finalise-purge.yml
  Play,      \* the runs of a launch or teardown playbook
  Service,   \* ids of ipam.Service records; none is used twice
  Own,       \* the ids a record of the launched function may have
  Unborn,    \* ids NetBox has not given away yet
  MaxEdits,  \* bound on an operator's edits
  Faults     \* a subset of {"kill", "api"}

ASSUME CatalogAssumption ==
  /\ Attempt = Purge \cup Play /\ Purge \cap Play = {}
  /\ Own \subseteq Service /\ Unborn \subseteq Service
  /\ MaxEdits \in Nat
  /\ Faults \subseteq {"kill", "api"}

\* The first provision of a function creates its record, and only when the lookup by
\* that name finds none: to begin with there is at most one.
ASSUME OneRecordAssumption == \A x, y \in Own \ Unborn : x = y

VARIABLES
  exist,     \* ids of the records that are there
  unborn,    \* ids not given away
  tags,      \* the tag names of a record
  tagObj,    \* id of the Tag object workload:<slug>, 0 when it is not there
  baseline,  \* an older run's snapshot is eligible for rollback
  pc,        \* where a run is
  stage,     \* mxl_stage
  slug,      \* workload_slug of a launch: this workload, another, or none
  id,        \* mxl_netbox_service_id, _purge_member_id
  read,      \* _current_tags
  expected,  \* purge_expected_service_ids
  found,     \* _purge_found_ids
  todo,      \* what a loop of the purge still has before it
  amiss,     \* what the next assert of the purge is about: violations, remains
  dirty,     \* _purge_dirty_count > 0
  tagSeen,   \* _purge_tag_id
  events,    \* DMF_L3_PURGE_OUTCOME events of a run, in order
  edits,     \* an operator's edits so far
  nextTag,   \* the id of the next Tag object
  moved,     \* history: records others changed since a run's first read of them
  hurt       \* history: runs one of whose calls failed

netbox == <<exist, unborn, tags, tagObj, nextTag>>
facts == <<stage, slug, id, read>>
purgeFacts == <<expected, found, todo, amiss, dirty, tagSeen>>
leaseCatalogVars == <<owner, aged>>
catalogVars == <<leaseVars, netbox, baseline, facts, purgeFacts, moved, hurt, edits, pc, events>>

Lifecycle == {"active", "bootstrapped"}
Group == {"workload", "other"}  \* workload:<slug> and workload:<another>
Tag == Lifecycle \cup Group \cup {"note"}

Purging == {"contract", "sweep", "members", "missing", "delete", "readback", "tag-guard",
            "tag-lookup", "tag-delete", "final-services", "final-tag"}
Staging == {"ensure", "ensure-create", "ensure-recheck", "lookup", "create", "patch",
            "confirm"}

\* Labels at which a run acts as the verified holder.
Body == Purging \cup Staging \cup {"guard"}
CatalogLabel == Body \cup {"idle", "lock", "verify", "release", "rescue", "always",
                           "done", "killed"}

CatalogTypeOK ==
  /\ LeaseTypeOK
  /\ exist \subseteq Service /\ unborn \subseteq Service \ exist
  /\ tags \in [Service -> SUBSET Tag]
  /\ tagObj \in Nat /\ nextTag \in Nat /\ tagObj < nextTag
  /\ baseline \in BOOLEAN
  /\ pc \in [Attempt -> CatalogLabel]
  /\ stage \in [Attempt -> {"provision", "configure", "finalise"}]
  /\ slug \in [Attempt -> Group \cup {"none"}]
  /\ id \in [Attempt -> Service]
  /\ read \in [Attempt -> SUBSET Tag]
  /\ expected \in [Attempt -> SUBSET Service]
  /\ found \in [Attempt -> SUBSET Service]
  /\ todo \in [Attempt -> SUBSET Service]
  /\ amiss \in [Attempt -> BOOLEAN] /\ dirty \in [Attempt -> BOOLEAN]
  /\ tagSeen \in [Attempt -> Nat]
  /\ events \in [Attempt -> Seq({"success", "refused"})]
  /\ edits \in 0..MaxEdits
  /\ moved \in [Attempt -> SUBSET Service]
  /\ hurt \subseteq Attempt

\* The facility is free; the records are of either workload, finalised or not.
CatalogInit ==
  /\ LeaseInit
  /\ unborn = Unborn /\ exist = Service \ Unborn
  /\ tags \in [Service -> {{}, {"workload", "bootstrapped"}, {"workload", "active"},
                           {"other", "active"}}]
  /\ \A x \in Service : tags[x] = {} <=> x \in Unborn
  /\ tagObj \in {0, 1} /\ nextTag = 2
  /\ (\E x \in Service : "workload" \in tags[x]) => tagObj = 1
  /\ baseline = TRUE
  /\ pc = [r \in Attempt |-> "idle"]
  /\ stage = [r \in Attempt |-> "provision"]
  /\ slug = [r \in Attempt |-> "none"]
  /\ \E x \in Service : id = [r \in Attempt |-> x]
  /\ read = [r \in Attempt |-> {}]
  /\ expected = [r \in Attempt |-> {}]
  /\ found = [r \in Attempt |-> {}]
  /\ todo = [r \in Attempt |-> {}]
  /\ amiss = [r \in Attempt |-> FALSE] /\ dirty = [r \in Attempt |-> FALSE]
  /\ tagSeen = [r \in Attempt |-> 0]
  /\ events = [r \in Attempt |-> <<>>]
  /\ edits = 0
  /\ moved = [r \in Attempt |-> {}]
  /\ hurt = {}

-----------------------------------------------------------------------------
\* Control flow.

\* A run that leaves the body no longer acts as the holder.
Goto(r, label) ==
  /\ pc' = [pc EXCEPT ![r] = label]
  /\ believers' = IF label \in Body THEN believers ELSE believers \ {r}

\* Mutant of Emit: a purge event with the token of the shared outcome marker.
EmitMarkerToken(r, token) ==
  LET t == IF token = "refused" THEN "post-mutation-failed" ELSE token
  IN  events' = IF r \in Purge THEN [events EXCEPT ![r] = Append(@, t)] ELSE events

Emit(r, token) ==
  events' = IF r \in Purge THEN [events EXCEPT ![r] = Append(@, token)] ELSE events

\* A task fails: the rescue of a purge begins with its refused event; rescue and
\* always release, and the always swallows its own errors.  Without an acquired
\* lock there is nothing to release.
Raise(r) ==
  \/ pc[r] \notin {"lock", "verify", "rescue", "always"} /\ Goto(r, "rescue") /\ Emit(r, "refused")
  \/ pc[r] \in {"lock", "verify"} /\ Goto(r, "done") /\ Emit(r, "refused")
  \/ pc[r] = "rescue" /\ Goto(r, "always") /\ UNCHANGED events
  \/ pc[r] = "always" /\ Goto(r, "done") /\ UNCHANGED events

\* A call has an effect: the run goes on, or fails because the answer was lost.
Answered(r, label) ==
  \/ Goto(r, label) /\ UNCHANGED <<events, hurt>>
  \/ "api" \in Faults /\ Raise(r) /\ hurt' = hurt \cup {r}

\* Run r changes records X: everyone else's reads of them are old.
Moves(r, X) ==
  moved' = [q \in Attempt |-> IF q = r THEN moved[q] ELSE moved[q] \cup X]

\* What a run has now read of records X, it knows.
Fresh(r, X) == moved' = [moved EXCEPT ![r] = @ \ X]

Members == {x \in exist : "workload" \in tags[x]}

ReleaseLock(r, label) ==
  /\ \/ Release(r) /\ Answered(r, label)
     \/ owner # r /\ UNCHANGED leaseCatalogVars /\ Goto(r, label) /\ UNCHANGED <<events, hurt>>
     \/ owner \notin {r, NoOne} /\ UNCHANGED leaseCatalogVars /\ Raise(r) /\ UNCHANGED hurt
  /\ UNCHANGED <<netbox, baseline, facts, purgeFacts, moved, edits>>

\* lock_checkpoint.yml: pass as the owner, or be fenced out.
Checkpoint(r, label) ==
  /\ \/ owner = r /\ Goto(r, label) /\ UNCHANGED events
     \/ owner # r /\ Raise(r)
  /\ UNCHANGED <<leaseCatalogVars, netbox, baseline, facts, purgeFacts, moved, hurt, edits>>

-----------------------------------------------------------------------------
\* The way in.

\* The console's own read of the members, however old, comes with a purge.  A
\* launch may name this workload, another or none; a teardown has one stage only.
Start(r) ==
  /\ pc[r] = "idle"
  /\ \/ /\ r \in Purge
        /\ \E X \in SUBSET (Service \ unborn) : expected' = [expected EXCEPT ![r] = X]
        /\ Goto(r, "lock")
        /\ UNCHANGED <<stage, slug, events>>
     \/ /\ r \in Play
        /\ \/ stage' = [stage EXCEPT ![r] = "finalise"] /\ UNCHANGED slug
           \/ \E g \in Group \cup {"none"} : slug' = [slug EXCEPT ![r] = g] /\ UNCHANGED stage
        /\ Goto(r, "lock")
        /\ UNCHANGED <<expected, events>>
     \/ Goto(r, "done") /\ Emit(r, "refused") /\ UNCHANGED <<expected, stage, slug>>
  /\ UNCHANGED <<leaseCatalogVars, netbox, baseline, id, read, found, todo, amiss, dirty, tagSeen,
                 moved, hurt, edits>>

\* The free facility, or that of an owner whose term is over, or a refusal.
Acquire(r) ==
  /\ pc[r] = "lock"
  /\ \/ Grant(r) /\ pc' = [pc EXCEPT ![r] = "verify"] /\ UNCHANGED events
     \/ Evict /\ UNCHANGED <<pc, events>>
     \/ Raise(r) /\ UNCHANGED leaseCatalogVars
  /\ UNCHANGED <<netbox, baseline, facts, purgeFacts, moved, hurt, edits>>

Verify(r) ==
  /\ pc[r] = "verify"
  /\ \/ /\ Confirm(r)
        /\ pc' = [pc EXCEPT ![r] = IF r \in Purge THEN "contract" ELSE "guard"]
        /\ UNCHANGED events
     \/ owner # r /\ Raise(r) /\ UNCHANGED leaseCatalogVars
  /\ UNCHANGED <<netbox, baseline, facts, purgeFacts, moved, hurt, edits>>

\* The checkpoint before a purge's sweep or a stage of a launch or teardown.
Guard(r) ==
  /\ pc[r] = "guard"
  /\ Checkpoint(r, IF r \in Purge THEN "sweep"
                   ELSE IF stage[r] = "provision" THEN "ensure" ELSE "lookup")

-----------------------------------------------------------------------------
\* finalise-purge.yml with its tasks in netbox_catalog_common.

\* The frozen contract of the extra vars.
Contract(r) ==
  /\ pc[r] = "contract"
  /\ \/ Goto(r, "guard") /\ UNCHANGED events
     \/ Raise(r)
  /\ UNCHANGED <<leaseCatalogVars, netbox, baseline, facts, purgeFacts, moved, hurt, edits>>

\* teardown_pre_mutation.yml: the supersede sweep.
Sweep(r) ==
  /\ pc[r] = "sweep"
  /\ baseline' = FALSE
  /\ Answered(r, "members")
  /\ UNCHANGED <<leaseCatalogVars, netbox, facts, purgeFacts, moved, edits>>

\* Mutant of Violations: any lifecycle is good enough.
ViolationsAnyLifecycle(r) == Members \ expected[r]

\* l3_purge_fail_closed_violations.
Violations(r) ==
  (Members \ expected[r]) \cup {x \in Members : tags[x] \cap Lifecycle # {"bootstrapped"}}

\* The assert after the checks, and then the first of the deletes.
AfterChecks(r, bad, members) ==
  \/ bad /\ Raise(r) /\ UNCHANGED todo
  \/ /\ ~bad
     /\ todo' = [todo EXCEPT ![r] = members]
     /\ Goto(r, IF members = {} THEN "tag-guard" ELSE "delete")
     /\ UNCHANGED events

\* The fresh read of the members (in one page; CallFails is also the refusal of a
\* read cut off at 100 pages), the violations, and the expected ids not found.
ReadMembers(r) ==
  /\ pc[r] = "members"
  /\ found' = [found EXCEPT ![r] = Members]
  /\ Fresh(r, Service)
  /\ LET missing == expected[r] \ Members
         bad == Violations(r) # {}
     IN  /\ amiss' = [amiss EXCEPT ![r] = bad]
         /\ IF missing = {}
            THEN AfterChecks(r, bad, Members)
            ELSE todo' = [todo EXCEPT ![r] = missing] /\ Goto(r, "missing") /\ UNCHANGED events
  /\ UNCHANGED <<leaseCatalogVars, netbox, baseline, facts, expected, dirty, tagSeen,
                 hurt, edits>>

\* Mutant of StillLive: an id outside the group counts as gone.
StillLiveUnread(x) == FALSE

StillLive(x) == x \in exist

\* _purge_check_missing_member.yml: only a clean 404 is gone.
CheckMissing(r) ==
  /\ pc[r] = "missing"
  /\ \E x \in todo[r] :
       \E live \in {StillLive(x)} \cup (IF "api" \in Faults THEN {TRUE} ELSE {}) :
         /\ amiss' = [amiss EXCEPT ![r] = @ \/ live]
         /\ hurt' = IF live # StillLive(x) THEN hurt \cup {r} ELSE hurt
         /\ IF todo[r] = {x}
            THEN AfterChecks(r, amiss[r] \/ live, found[r])
            ELSE todo' = [todo EXCEPT ![r] = @ \ {x}] /\ UNCHANGED <<pc, believers, events>>
  /\ UNCHANGED <<leaseCatalogVars, netbox, baseline, facts, expected, found, dirty, tagSeen, moved,
                 edits>>

\* _purge_delete_one_member.yml: DELETE by id, whose errors are ignored.
Delete(r) ==
  /\ pc[r] = "delete"
  /\ \E x \in todo[r] :
       /\ id' = [id EXCEPT ![r] = x]
       /\ \/ /\ exist' = exist \ {x}
             /\ tags' = [tags EXCEPT ![x] = {}]
             /\ Moves(r, {x} \cap exist)
             /\ UNCHANGED hurt
          \/ /\ "api" \in Faults
             /\ hurt' = hurt \cup {r}
             /\ UNCHANGED <<exist, tags, moved>>
  /\ Goto(r, "readback")
  /\ UNCHANGED <<leaseCatalogVars, unborn, tagObj, nextTag, baseline, stage, slug, read, purgeFacts,
                 edits, events>>

\* Mutant of AfterMembers: the tag goes although a member is dirty.
AfterMembersAnyway(isDirty) == "tag-guard"

\* The tag is deleted last, and only when no member is dirty.
AfterMembers(isDirty) == IF isDirty THEN "final-services" ELSE "tag-guard"

\* The readback: anything but a clean 404 is dirty.
Readback(r) ==
  /\ pc[r] = "readback"
  /\ \E there \in {id[r] \in exist} \cup (IF "api" \in Faults THEN {TRUE} ELSE {}) :
       /\ dirty' = [dirty EXCEPT ![r] = @ \/ there]
       /\ hurt' = IF there # (id[r] \in exist) THEN hurt \cup {r} ELSE hurt
       /\ todo' = [todo EXCEPT ![r] = @ \ {id[r]}]
       /\ Goto(r, IF todo[r] = {id[r]} THEN AfterMembers(dirty[r] \/ there) ELSE "delete")
  /\ UNCHANGED <<leaseCatalogVars, netbox, baseline, facts, expected, found, amiss, tagSeen, moved,
                 edits, events>>

TagGuard(r) == pc[r] = "tag-guard" /\ Checkpoint(r, "tag-lookup")

\* Mutant of TagLookup: the id of a Tag that is not there is not defaulted.
TagLookupRequired(r) ==
  /\ pc[r] = "tag-lookup"
  /\ \/ /\ tagObj # 0
        /\ tagSeen' = [tagSeen EXCEPT ![r] = tagObj]
        /\ Goto(r, "tag-delete")
        /\ UNCHANGED events
     \/ tagObj = 0 /\ Raise(r) /\ UNCHANGED tagSeen
  /\ UNCHANGED <<leaseCatalogVars, netbox, baseline, facts, expected, found, todo, amiss, dirty,
                 moved, hurt, edits>>

TagLookup(r) ==
  /\ pc[r] = "tag-lookup"
  /\ tagSeen' = [tagSeen EXCEPT ![r] = tagObj]
  /\ Goto(r, "tag-delete")
  /\ UNCHANGED <<leaseCatalogVars, netbox, baseline, facts, expected, found, todo, amiss, dirty,
                 moved, hurt, edits, events>>

\* NetBox takes a deleted Tag off every record.  Its readback is only reported.
TagDelete(r) ==
  /\ pc[r] = "tag-delete"
  /\ \/ /\ tagObj # 0 /\ tagObj = tagSeen[r]
        /\ tagObj' = 0
        /\ tags' = [x \in Service |-> tags[x] \ {"workload"}]
        /\ Moves(r, Members)
        /\ UNCHANGED hurt
     \/ /\ tagObj = 0 \/ tagObj # tagSeen[r]
        /\ UNCHANGED <<tagObj, tags, moved, hurt>>
     \/ /\ "api" \in Faults
        /\ hurt' = hurt \cup {r}
        /\ UNCHANGED <<tagObj, tags, moved>>
  /\ Goto(r, "final-services")
  /\ UNCHANGED <<leaseCatalogVars, exist, unborn, nextTag, baseline, facts, purgeFacts,
                 edits, events>>

\* purge_final_read.yml.
FinalServices(r) ==
  /\ pc[r] = "final-services"
  /\ amiss' = [amiss EXCEPT ![r] = Members # {}]
  /\ Goto(r, "final-tag")
  /\ UNCHANGED <<leaseCatalogVars, netbox, baseline, facts, expected, found, todo, dirty, tagSeen,
                 moved, hurt, edits, events>>

\* Mutant of FinalTag: success is reported before the lock is released.
FinalTagReporting(r) ==
  /\ pc[r] = "final-tag"
  /\ \/ ~amiss[r] /\ tagObj = 0 /\ Goto(r, "release") /\ Emit(r, "success")
     \/ (amiss[r] \/ tagObj # 0) /\ Raise(r)
  /\ UNCHANGED <<leaseCatalogVars, netbox, baseline, facts, purgeFacts, moved, hurt, edits>>

FinalTag(r) ==
  /\ pc[r] = "final-tag"
  /\ \/ ~amiss[r] /\ tagObj = 0 /\ Goto(r, "release") /\ UNCHANGED events
     \/ (amiss[r] \/ tagObj # 0) /\ Raise(r)
  /\ UNCHANGED <<leaseCatalogVars, netbox, baseline, facts, purgeFacts, moved, hurt, edits>>

\* lock_release.yml, and only then the success event of a purge.
Succeed(r) ==
  /\ pc[r] = "release"
  /\ \/ /\ \/ Release(r)
           \/ owner # r /\ UNCHANGED leaseCatalogVars
        /\ Goto(r, "always")
        /\ Emit(r, "success")
        /\ UNCHANGED hurt
     \/ "api" \in Faults /\ Release(r) /\ Raise(r) /\ hurt' = hurt \cup {r}
     \/ owner \notin {r, NoOne} /\ UNCHANGED leaseCatalogVars /\ Raise(r) /\ UNCHANGED hurt
  /\ UNCHANGED <<netbox, baseline, facts, purgeFacts, moved, edits>>

Rescue(r) == pc[r] = "rescue" /\ ReleaseLock(r, "always")

Always(r) == pc[r] = "always" /\ ReleaseLock(r, "done")

-----------------------------------------------------------------------------
\* roles/mxl: provision, configure and finalise of one service record.

\* ensure_workload_tag.yml: nothing to do without a workload_slug; the tag of
\* another workload is there.
Ensure(r) ==
  /\ pc[r] = "ensure"
  /\ Goto(r, IF slug[r] = "workload" /\ tagObj = 0 THEN "ensure-create" ELSE "lookup")
  /\ UNCHANGED <<leaseCatalogVars, netbox, baseline, facts, purgeFacts, moved, hurt, edits, events>>

\* POST: 201, or 400 because somebody else was first.
EnsureCreate(r) ==
  /\ pc[r] = "ensure-create"
  /\ \/ /\ tagObj = 0
        /\ tagObj' = nextTag /\ nextTag' = nextTag + 1
        /\ Answered(r, "lookup")
     \/ /\ tagObj # 0
        /\ Goto(r, "ensure-recheck")
        /\ UNCHANGED <<tagObj, nextTag, events, hurt>>
  /\ UNCHANGED <<leaseCatalogVars, exist, unborn, tags, baseline, facts, purgeFacts, moved, edits>>

EnsureRecheck(r) ==
  /\ pc[r] = "ensure-recheck"
  /\ \/ tagObj # 0 /\ Goto(r, "lookup") /\ UNCHANGED events
     \/ tagObj = 0 /\ Raise(r)
  /\ UNCHANGED <<leaseCatalogVars, netbox, baseline, facts, purgeFacts, moved, hurt, edits>>

\* The record by name, with its tags.  Only provision creates one.
Lookup(r) ==
  /\ pc[r] = "lookup"
  /\ \/ \E x \in Own \cap exist :
          /\ id' = [id EXCEPT ![r] = x]
          /\ read' = [read EXCEPT ![r] = tags[x]]
          /\ IF stage[r] = "configure" THEN UNCHANGED moved ELSE Fresh(r, {x})
          /\ Goto(r, "patch")
          /\ UNCHANGED events
     \/ /\ Own \cap exist = {}
        /\ read' = [read EXCEPT ![r] = {}]
        /\ \/ stage[r] = "provision" /\ Goto(r, "create") /\ UNCHANGED events
           \/ stage[r] # "provision" /\ Raise(r)
        /\ UNCHANGED <<id, moved>>
  /\ UNCHANGED <<leaseCatalogVars, netbox, baseline, stage, slug, purgeFacts, hurt,
                 edits>>

\* _workload_tags.
WorkloadTags(r) == {slug[r]} \ {"none"}

\* NetBox answers 400 to a tag that does not exist.
Known(T) == "workload" \in T => tagObj # 0

Create(r) ==
  LET T == {"bootstrapped"} \cup WorkloadTags(r)
  IN  /\ pc[r] = "create"
      /\ \/ /\ Known(T)
            /\ \E x \in Own \cap unborn :
                 /\ exist' = exist \cup {x} /\ unborn' = unborn \ {x}
                 /\ tags' = [tags EXCEPT ![x] = T]
                 /\ id' = [id EXCEPT ![r] = x]
                 /\ Moves(r, {x})
            /\ Answered(r, "patch")
         \/ /\ ~Known(T) \/ Own \cap unborn = {}
            /\ Raise(r)
            /\ UNCHANGED <<exist, unborn, tags, id, moved, hurt>>
      /\ UNCHANGED <<leaseCatalogVars, tagObj, nextTag, baseline, stage, slug, read, purgeFacts,
                     edits>>

\* Mutant of Owned: the prefix of provision's merge is still owned by configure.
OwnedLeaking(r) == Lifecycle \cup IF slug[r] = "none" THEN {} ELSE Group

\* The owned names of a stage: lifecycle:*, and workload:* for the one merge of a
\* provision with a workload_slug.
Owned(r) ==
  Lifecycle \cup IF stage[r] = "provision" /\ slug[r] # "none" THEN Group ELSE {}

\* Mutant of Merged: the tags are replaced.
MergedReplacing(r, desired) == desired

\* merge_owned_tags.
Merged(r, desired) == (read[r] \ Owned(r)) \cup desired

Desired(r) ==
  CASE stage[r] = "provision" -> {"bootstrapped"} \cup WorkloadTags(r)
    [] stage[r] = "configure" -> {"active"}
    [] stage[r] = "finalise"  -> {"bootstrapped"}

\* patch_service_tags_verified.yml: the whole list, built from the stage's read.
Patch(r) ==
  LET T == Merged(r, Desired(r))
  IN  /\ pc[r] = "patch"
      /\ \/ /\ id[r] \in exist /\ Known(T)
            /\ tags' = [tags EXCEPT ![id[r]] = T]
            /\ Moves(r, {id[r]})
            /\ Answered(r, "confirm")
         \/ /\ id[r] \notin exist \/ ~Known(T)
            /\ Raise(r)
            /\ UNCHANGED <<tags, moved, hurt>>
      /\ UNCHANGED <<leaseCatalogVars, exist, unborn, tagObj, nextTag, baseline, facts, purgeFacts,
                     edits>>

\* The owned names on the record are those written; then the next stage.
ConfirmPatch(r) ==
  LET same == /\ id[r] \in exist
              /\ tags[id[r]] \cap Owned(r) = Merged(r, Desired(r)) \cap Owned(r)
  IN  /\ pc[r] = "confirm"
      /\ \/ /\ same /\ stage[r] = "provision"
            /\ stage' = [stage EXCEPT ![r] = "configure"]
            /\ Goto(r, "guard")
            /\ UNCHANGED events
         \/ same /\ stage[r] # "provision" /\ Goto(r, "release") /\ UNCHANGED <<stage, events>>
         \/ ~same /\ Raise(r) /\ UNCHANGED stage
      /\ UNCHANGED <<leaseCatalogVars, netbox, baseline, slug, id, read, purgeFacts, moved, hurt,
                     edits>>

-----------------------------------------------------------------------------
\* Faults, time, and the operator.

\* An operator edits a record in NetBox (a note, or a move to the other workload),
\* or creates the Tag.
Edit ==
  /\ edits < MaxEdits
  /\ edits' = edits + 1
  /\ \/ /\ \E x \in exist :
            /\ \/ tags' = [tags EXCEPT ![x] = @ \cup {"note"}]
               \/ tags' = [tags EXCEPT ![x] = (@ \ Group) \cup {"other"}]
            /\ moved' = [r \in Attempt |-> moved[r] \cup {x}]
        /\ UNCHANGED <<tagObj, nextTag>>
     \/ /\ tagObj = 0
        /\ tagObj' = nextTag /\ nextTag' = nextTag + 1
        /\ UNCHANGED <<tags, moved>>
  /\ UNCHANGED <<leaseVars, exist, unborn, baseline, facts, purgeFacts, hurt, pc,
                 events>>

\* A call raises without effect, where its errors are not ignored.
CallFails(r) ==
  /\ "api" \in Faults
  /\ pc[r] \notin {"idle", "contract", "missing", "delete", "readback", "tag-delete", "done",
                   "killed"}
  /\ Raise(r)
  /\ hurt' = hurt \cup {r}
  /\ UNCHANGED <<leaseCatalogVars, netbox, baseline, facts, purgeFacts, moved, edits>>

\* The executor is killed: neither rescue nor always runs.
Kill(r) ==
  /\ "kill" \in Faults
  /\ pc[r] \notin {"idle", "done", "killed"}
  /\ Goto(r, "killed")
  /\ UNCHANGED <<leaseCatalogVars, netbox, baseline, facts, purgeFacts, moved, hurt, edits, events>>

\* The lease term of the owner ends.
Expire ==
  /\ owner \in Attempt \ aged
  /\ Age({owner})
  /\ UNCHANGED <<netbox, baseline, facts, purgeFacts, moved, hurt, edits, pc, events>>

Stopped(r) == pc[r] \in {"done", "killed"}

\* Every run has stopped; nothing happens any more.
Finished ==
  /\ \A r \in Attempt : Stopped(r)
  /\ UNCHANGED catalogVars

\* The steps a running playbook takes by itself.
Run(r) ==
  \/ Acquire(r) \/ Verify(r) \/ Contract(r) \/ Guard(r) \/ Sweep(r)
  \/ ReadMembers(r) \/ CheckMissing(r) \/ Delete(r) \/ Readback(r)
  \/ TagGuard(r) \/ TagLookup(r) \/ TagDelete(r)
  \/ FinalServices(r) \/ FinalTag(r) \/ Succeed(r) \/ Rescue(r) \/ Always(r)
  \/ Ensure(r) \/ EnsureCreate(r) \/ EnsureRecheck(r)
  \/ Lookup(r) \/ Create(r) \/ Patch(r) \/ ConfirmPatch(r)

CatalogNext ==
  \/ \E r \in Attempt : Start(r) \/ Run(r) \/ CallFails(r) \/ Kill(r)
  \/ Edit
  \/ Expire
  \/ Finished

CatalogSpec == CatalogInit /\ [][CatalogNext]_catalogVars

\* A playbook that runs executes its tasks in order until it ends.
CatalogFairSpec == CatalogSpec /\ \A r \in Attempt : WF_catalogVars(Run(r))

-----------------------------------------------------------------------------
(***************************************************************************)
(* Properties                                                              *)
(***************************************************************************)

(***************************************************************************)
(* "The DELETE loop only EVER touches ids that appear in the FRESH         *)
(* workload membership" (purge_workload_records.yml), although reads,      *)
(* checks and deletes are calls of their own: what a purge deletes is,     *)
(* when it is deleted, an expected and finalised record of this workload,  *)
(* unless somebody else changed it after the read.                         *)
(***************************************************************************)
Residue(x) == "workload" \in tags[x] /\ tags[x] \cap Lifecycle = {"bootstrapped"}

DeletesOnlyResidue ==
  [][\A p \in Purge :
       pc[p] = "delete" /\ pc'[p] = "readback" =>
         \A x \in (exist \ exist') \ moved[p] : x \in expected[p] /\ Residue(x)]_catalogVars

(***************************************************************************)
(* "Tag object LAST": a purge does not delete the Tag while a record still *)
(* carries it, which would take the record out of every later purge's and  *)
(* the console's sight, unless somebody else moved the record there after  *)
(* the read.                                                               *)
(***************************************************************************)
TagOutlivesMembers ==
  [][\A p \in Purge :
       pc[p] = "tag-delete" /\ pc'[p] = "final-services" /\ tagObj' # tagObj =>
         Members \subseteq moved[p]
    ]_catalogVars

(***************************************************************************)
(* The console forgets a workload on success: every id it asked to purge   *)
(* is gone then, whatever calls failed, unless somebody else changed the   *)
(* record after the purge had read the workload.                           *)
(***************************************************************************)
Said(p, token) == \E k \in 1..Len(events[p]) : events[p][k] = token

SuccessMeansGone ==
  \A p \in Purge : Said(p, "success") => expected[p] \cap exist \subseteq moved[p]

(***************************************************************************)
(* "on every terminal exit" one event (finalise-purge.yml): success is the *)
(* last task, so nothing that fails after it adds a refused one.           *)
(***************************************************************************)
OnePurgeEvent ==
  \A p \in Purge :
    /\ Len(events[p]) <= 1
    /\ pc[p] = "done" => Len(events[p]) = 1

(***************************************************************************)
(* A launch that reaches its end leaves its record active and in the one   *)
(* workload it was launched for, unless somebody else changed it: the      *)
(* configure stage does not strip the group that provision stamped in the  *)
(* same play, and what it looks up again is the same record.               *)
(***************************************************************************)
LaunchedIsGrouped ==
  \A l \in Play :
    pc[l] = "release" /\ stage[l] = "configure" /\ id[l] \notin moved[l] =>
      /\ id[l] \in exist
      /\ tags[id[l]] \cap Lifecycle = {"active"}
      /\ slug[l] # "none" => tags[id[l]] \cap Group = {slug[l]}

(***************************************************************************)
(* Tags outside the owned namespace survive: a stage drops a tag of that   *)
(* namespace only if it came after the stage's read, by somebody else (the *)
(* window patch_service_tags_verified.yml documents).                      *)
(***************************************************************************)
NotesSurvive ==
  [][\A r \in Play :
       pc[r] = "patch" /\ pc'[r] # "patch" /\ "note" \in tags[id[r]] \ tags'[id[r]]
         => "note" \notin read[r] /\ id[r] \in moved[r]]_catalogVars

(***************************************************************************)
(* What the lock gives to those four exceptions: while a run owns the      *)
(* facility, nobody changes a record it relies on but an operator, or a    *)
(* run whose lease term is over, evicted in the middle of its work         *)
(* (lock_checkpoint.yml runs before a stage, not before every call).       *)
(***************************************************************************)
DisturbedOnlyByStrays ==
  [][\A r \in Attempt :
       owner = r /\ ~(moved'[r] \subseteq moved[r]) =>
         edits' # edits \/ \E q \in aged \ {r} : pc'[q] # pc[q]]_catalogVars

(***************************************************************************)
(* "a re-run after any partial failure converges to success"               *)
(* (finalise-purge.yml): with a preflight that matches the records, nobody *)
(* else at work and no failing call, whatever earlier purges left.         *)
(***************************************************************************)
Alone(p) == (\A r \in Attempt \ {p} : Stopped(r)) /\ edits = MaxEdits

PreflightMatches(p) ==
  /\ Members = expected[p] \cap exist
  /\ \A x \in Members : Residue(x)

RerunConverges ==
  \A p \in Purge :
    (pc[p] = "guard" /\ owner = p /\ Alone(p) /\ PreflightMatches(p))
      ~> (Said(p, "success") \/ p \in hurt \/ pc[p] = "killed")
=============================================================================
