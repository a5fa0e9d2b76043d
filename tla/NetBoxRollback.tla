--------------------------- MODULE NetBoxRollback ---------------------------
(***************************************************************************)
(* The NetBox surface of a failed launch, and of the rollbacks that bring  *)
(* its service records back to the snapshot the launch took.               *)
(*                                                                         *)
(* A record is named, but it is its id that tells the launch's own from    *)
(* those it found: NetBox never gives an id twice, a name it may. Of its   *)
(* content three parts matter: `own` stands for the tags and custom fields *)
(* a launcher owns, `tags` and `fields` for those of others. Tags are sent *)
(* as one list and replace what is there, custom fields are merged by the  *)
(* server. Operators, who take no lock, edit records at any time.          *)
(***************************************************************************)
EXTENDS Naturals, FiniteSets

CONSTANTS
  Name,        \* _l3_snapshot_topology_service_names
  Elsewhere,   \* a name that is not one of them
  Own,         \* values of the owned part
  Finalised,   \* the owned part of a record about to be deleted
  Foreign,     \* values of the foreign parts
  Absent,      \* no record
  MaxId,       \* bound: records that are ever created
  MaxEdits,    \* bound: changes by operators
  MaxTries,    \* bound: rollbacks of this snapshot
  Faults       \* a subset of {"kill", "api"}

ASSUME NetBoxAssumption ==
  /\ Name # {} /\ Elsewhere \notin Name /\ Finalised \notin Own
  /\ MaxId \in Nat /\ MaxEdits \in Nat /\ MaxTries \in Nat

Id == 1..MaxId
Record == [name : Name \cup {Elsewhere}, own : Own \cup {Finalised},
           tags : Foreign, fields : Foreign]

ASSUME AbsentAssumption == Absent \notin Record

VARIABLES
  rec,      \* NetBox: the record of an id
  next,     \* NetBox: the next id
  stage,    \* where the launch, then the rollback, is
  base,     \* the snapshot: the records that had one of the names
  seen,     \* the records of this rollback's lookups
  unread,   \* names still to look up
  todo,     \* items left of the loop at work
  item,     \* its item, or 0
  dirty,    \* the dirty accumulator holds a true
  tries, edits,
  moved,    \* history: ids operators changed or created since the lookups began
  late,     \* history: ids operators changed since their readback
  calm      \* history: a restorable start, no operator and no failed call since

netbox == <<rec, next>>
item_ == <<todo, item>>
local == <<seen, unread, item_, dirty>>
counters == <<tries, edits>>
netboxHistory == <<moved, late, calm>>
netboxVars == <<netbox, stage, base, local, counters, netboxHistory>>

Exists(id) == rec[id] # Absent
Found(id) == base[id] # Absent
Held(n) == {id \in Id : Exists(id) /\ rec[id].name = n}

Item == {"restore", "restore-read", "delete", "delete-call", "delete-read"}
Rolling == {"lookup", "classify", "terminal"} \cup Item
NetBoxStage == {"fresh", "refused", "launch", "idle", "reported"} \cup Rolling

NetBoxTypeOK ==
  /\ rec \in [Id -> Record \cup {Absent}] /\ next \in 1..(MaxId + 1)
  /\ stage \in NetBoxStage
  /\ base \in [Id -> Record \cup {Absent}] /\ seen \in [Id -> Record \cup {Absent}]
  /\ unread \subseteq Name /\ todo \subseteq Id /\ item \in Id \cup {0}
  /\ dirty \in BOOLEAN
  /\ tries \in 0..MaxTries /\ edits \in 0..MaxEdits
  /\ moved \subseteq Id /\ late \subseteq Id /\ calm \in BOOLEAN

NoRecords == [id \in Id |-> Absent]

\* Records of any names: nothing in NetBox makes a service name unique.
NetBoxInit ==
  /\ next \in 1..(MaxId + 1)
  /\ rec \in {f \in [Id -> Record \cup {Absent}] :
                \A id \in Id : IF id < next THEN f[id] # Absent /\ f[id].own # Finalised
                               ELSE f[id] = Absent}
  /\ stage = "fresh" /\ base = NoRecords /\ seen = NoRecords
  /\ unread = {} /\ todo = {} /\ item = 0 /\ dirty = FALSE
  /\ tries = 0 /\ edits = 0 /\ moved = {} /\ late = {} /\ calm = FALSE

-----------------------------------------------------------------------------
\* Calls.

\* NetBox with a record written.
Written(id, n, o, t, f) == [rec EXCEPT ![id] = [name |-> n, own |-> o, tags |-> t, fields |-> f]]

CanFail == "api" \in Faults

\* The NetBox state after a call whose errors are ignored: it may fail without effect.
Ignored(after) ==
  \/ rec' = after /\ calm' = calm
  \/ CanFail /\ rec' \in {rec, after} /\ calm' = FALSE

\* A task without ignore_errors fails, or the executor is killed: rollback.yml's
\* rescue reports every surface and releases; the snapshot stays eligible.
Abort ==
  /\ stage' = "idle" /\ unread' = {} /\ todo' = {} /\ item' = 0 /\ calm' = FALSE
  /\ UNCHANGED <<netbox, base, seen, dirty, counters, moved, late>>

LookupFails == CanFail /\ stage = "lookup" /\ Abort
Kill == "kill" \in Faults /\ stage \in Rolling /\ Abort

-----------------------------------------------------------------------------
\* The launch and the operators.

\* snapshot.yml: the records of each exact name, with their ids; a name held twice
\* or a lookup that fails ends the launch.
Capture ==
  /\ stage = "fresh"
  /\ \/ /\ \A n \in Name : Cardinality(Held(n)) <= 1
        /\ base' = [id \in Id |-> IF Exists(id) /\ rec[id].name \in Name THEN rec[id] ELSE Absent]
        /\ stage' = "launch"
     \/ /\ CanFail \/ \E n \in Name : Cardinality(Held(n)) > 1
        /\ stage' = "refused" /\ UNCHANGED base
  /\ UNCHANGED <<netbox, local, counters, netboxHistory>>

\* The next record.
Add(n, o, t) == next \in Id /\ rec' = Written(next, n, o, t, t) /\ next' = next + 1

\* The stages of the launch create the record of a name or stamp their own part on it.
Provision ==
  /\ stage = "launch"
  /\ \E n \in Name, o \in Own :
       \/ Held(n) = {} /\ \E t \in Foreign : Add(n, o, t)
       \/ \E id \in Held(n) : /\ rec' = Written(id, n, o, rec[id].tags, rec[id].fields)
                              /\ UNCHANGED next
  /\ UNCHANGED <<stage, base, local, counters, netboxHistory>>

LaunchFails ==
  /\ stage = "launch" /\ stage' = "idle"
  /\ UNCHANGED <<netbox, base, local, counters, netboxHistory>>

\* An operator changes, renames or removes a record, or creates one.
Edit ==
  /\ stage \notin {"fresh", "refused"} /\ edits < MaxEdits
  /\ \E id \in Id :
       /\ \/ /\ Exists(id) /\ UNCHANGED next
             /\ LET r == rec[id] IN
                \/ \E n \in Name \cup {Elsewhere} : rec' = Written(id, n, r.own, r.tags, r.fields)
                \/ \E o \in Own : rec' = Written(id, r.name, o, r.tags, r.fields)
                \/ \E t \in Foreign : rec' = Written(id, r.name, r.own, t, r.fields)
                \/ \E f \in Foreign : rec' = Written(id, r.name, r.own, r.tags, f)
          \/ Exists(id) /\ rec' = [rec EXCEPT ![id] = Absent] /\ UNCHANGED next
          \/ id = next /\ \E n \in Name, o \in Own, t \in Foreign : Add(n, o, t)
       /\ moved' = moved \cup {id} /\ late' = late \cup {id}
  /\ rec' # rec /\ edits' = edits + 1 /\ calm' = FALSE
  /\ UNCHANGED <<stage, base, local, tries>>

-----------------------------------------------------------------------------
\* rollback_netbox_surface.yml.

Restorable ==
  /\ \A id \in Id : Found(id) => Exists(id) /\ rec[id].name \in Name
  /\ \A n \in Name : Cardinality(Held(n)) <= 1

Begin ==
  /\ stage \in {"idle", "reported"} /\ tries < MaxTries
  /\ stage' = "lookup" /\ unread' = Name /\ seen' = NoRecords /\ dirty' = FALSE
  /\ tries' = tries + 1 /\ moved' = {} /\ late' = {} /\ calm' = Restorable
  /\ UNCHANGED <<netbox, base, item_, edits>>

\* One GET by exact name. The task after the loop fails if one returned two records;
\* nothing but reads lies between, so the rollback ends here.
Lookup ==
  /\ stage = "lookup"
  /\ \E n \in unread :
       /\ Cardinality(Held(n)) <= 1
       /\ seen' = [id \in Id |-> IF id \in Held(n) THEN rec[id] ELSE seen[id]]
       /\ unread' = unread \ {n}
       /\ stage' = IF unread' = {} THEN "classify" ELSE "lookup"
  /\ UNCHANGED <<netbox, base, item_, dirty, counters, netboxHistory>>

Seen == {id \in Id : seen[id] # Absent}

\* Mutant of ToDelete: by name, a record under a name the snapshot has no record of.
ToDeleteByName ==
  {id \in Seen : \A old \in Id : Found(old) => base[old].name # seen[id].name}

\* l3_netbox_records_to_restore_or_delete: by id, over the ids of the snapshot.
ToRestore == {id \in Seen : Found(id)}
ToDelete == {id \in Seen : ~Found(id)}
Missing == {id \in Id : Found(id) /\ seen[id] = Absent}

Ambiguous ==
  /\ stage = "lookup" /\ \E n \in unread : Cardinality(Held(n)) > 1
  /\ Abort

\* A missing record is dirty; the restores come first.
Classify ==
  /\ stage = "classify"
  /\ dirty' = (Missing # {})
  /\ stage' = "restore" /\ todo' = ToRestore
  /\ UNCHANGED <<netbox, base, seen, unread, item, counters, netboxHistory>>

\* Mutant of Patched: the whole map of custom fields as it was looked up.
PatchedWhole(id, o) ==
  Written(id, rec[id].name, o, seen[id].tags, seen[id].fields)

\* The body of a PATCH: the owned part given, and as a tag list the foreign tags of
\* the record as it was looked up; custom fields of others are not sent.
Patched(id, o) == Written(id, rec[id].name, o, seen[id].tags, rec[id].fields)

\* _rollback_netbox_restore_one.yml: PATCH, which a record that is gone answers 404.
RestorePatch ==
  /\ stage = "restore"
  /\ \E id \in todo :
       /\ item' = id /\ todo' = todo \ {id}
       /\ IF Exists(id) THEN Ignored(Patched(id, base[id].own)) ELSE UNCHANGED <<rec, calm>>
  /\ stage' = "restore-read"
  /\ UNCHANGED <<next, base, seen, unread, dirty, counters, moved, late>>

\* Mutant of RestoreDirty: foreign tags are compared too.
RestoreDirtyForeign(id) == ~Exists(id) \/ rec[id].own # base[id].own \/ rec[id].tags # base[id].tags

\* l3_netbox_restore_dirty: the owned part is exactly the snapshot's.
RestoreDirty(id) == ~Exists(id) \/ rec[id].own # base[id].own

\* The readback of one item; one that fails is dirty.
ReadBack(amiss) ==
  /\ \/ dirty' = (dirty \/ amiss) /\ calm' = calm
     \/ CanFail /\ dirty' = TRUE /\ calm' = FALSE
  /\ late' = late \ {item} /\ item' = 0
  /\ UNCHANGED <<netbox, base, seen, unread, todo, counters, moved>>

RestoreRead == stage = "restore-read" /\ stage' = "restore" /\ ReadBack(RestoreDirty(item))

RestoresDone ==
  /\ stage = "restore" /\ todo = {} /\ stage' = "delete" /\ todo' = ToDelete
  /\ UNCHANGED <<netbox, base, seen, unread, item, dirty, counters, netboxHistory>>

\* _rollback_netbox_delete_one.yml: only a finalise PATCH that is answered leads to DELETE.
DeletePatch ==
  /\ stage = "delete"
  /\ \E id \in todo :
       /\ item' = id /\ todo' = todo \ {id}
       /\ \/ /\ Exists(id) /\ rec' = Patched(id, Finalised)
             /\ stage' = "delete-call" /\ UNCHANGED calm
          \/ /\ ~Exists(id) /\ stage' = "delete-read" /\ UNCHANGED <<rec, calm>>
          \/ /\ CanFail /\ stage' = "delete-read" /\ calm' = FALSE
             /\ \/ UNCHANGED rec
                \/ Exists(id) /\ rec' = Patched(id, Finalised)
  /\ UNCHANGED <<next, base, seen, unread, dirty, counters, moved, late>>

DeleteCall ==
  /\ stage = "delete-call" /\ stage' = "delete-read"
  /\ Ignored([rec EXCEPT ![item] = Absent])
  /\ UNCHANGED <<next, base, seen, unread, item_, dirty, counters, moved, late>>

\* Mutant of DeleteDirty: the record counts as deleted once it is finalised.
DeleteDirtyFinalised(id) == Exists(id) /\ rec[id].own # Finalised

\* l3_netbox_delete_dirty: anything but 404.
DeleteDirty(id) == Exists(id)

DeleteRead == stage = "delete-read" /\ stage' = "delete" /\ ReadBack(DeleteDirty(item))

DeletesDone ==
  /\ stage = "delete" /\ todo = {} /\ stage' = "terminal"
  /\ UNCHANGED <<netbox, base, local, counters, netboxHistory>>

\* rollback_terminal.yml: l3_rollback_outcome reports the surface dirty or not.
Terminal ==
  /\ stage = "terminal" /\ stage' = "reported"
  /\ UNCHANGED <<netbox, base, local, counters, netboxHistory>>

NetBoxNext ==
  \/ Capture \/ Provision \/ LaunchFails \/ Edit \/ Begin \/ Lookup \/ Classify
  \/ Ambiguous \/ RestorePatch \/ RestoreRead \/ RestoresDone \/ DeletePatch
  \/ DeleteCall \/ DeleteRead \/ DeletesDone \/ Terminal \/ LookupFails \/ Kill

NetBoxSpec == NetBoxInit /\ [][NetBoxNext]_netboxVars

-----------------------------------------------------------------------------
\* Properties.

Reporting == stage = "terminal" /\ stage' = "reported"
ByOperator == edits' # edits

(***************************************************************************)
(* Name reuse: a record that the snapshot holds is deleted by nobody but   *)
(* an operator, under whatever name the rollback finds it                  *)
(* (l3_netbox_records_to_restore_or_delete decides by id).                 *)
(***************************************************************************)
FoundRecordsStay ==
  [][\A id \in Id : Found(id) /\ Exists(id) /\ rec'[id] = Absent => ByOperator]_netboxVars

(***************************************************************************)
(* What others own on a record is theirs: no step of a launch or rollback  *)
(* changes a foreign custom field, and foreign tags only of a record an    *)
(* operator changed after the lookup (the PATCH sends the list that the    *)
(* lookup returned, l3_filter_owned_custom_fields and merge_owned_tags).   *)
(***************************************************************************)
ForeignPartsSurvive ==
  [][\A id \in Id : Exists(id) /\ rec'[id] # Absent /\ ~ByOperator =>
       /\ rec'[id].fields = rec[id].fields
       /\ id \notin moved => rec'[id].tags = rec[id].tags]_netboxVars

(***************************************************************************)
(* Call success never equals clean: a rollback that does not report netbox *)
(* leaves each record of the snapshot with its owned part, and none that   *)
(* has one of the names without being in the snapshot, except what         *)
(* operators changed after the reads that the report rests on.             *)
(***************************************************************************)
CleanMeansAsFound ==
  [][Reporting /\ ~dirty =>
       /\ \A id \in Id \ late : Found(id) => Exists(id) /\ rec[id].own = base[id].own
       /\ \A id \in Id \ moved : ~Found(id) /\ Exists(id) => rec[id].name \notin Name]_netboxVars

(***************************************************************************)
(* A rollback that nobody disturbs reports the surface clean, if the       *)
(* records of the snapshot are still there, whatever the launch, operators *)
(* and earlier rollbacks, broken off at any point, did to them.            *)
(***************************************************************************)
UndisturbedIsClean == [][Reporting /\ calm => ~dirty]_netboxVars
=============================================================================
