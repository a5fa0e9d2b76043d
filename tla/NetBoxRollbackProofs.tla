------------------------ MODULE NetBoxRollbackProofs ------------------------
(***************************************************************************)
(* Proofs about NetBoxRollback, for any set of names, number of records,   *)
(* edits and rollbacks, and any set of faults.                             *)
(***************************************************************************)
EXTENDS NetBoxRollback, TLAPS

-----------------------------------------------------------------------------
\* The inductive invariant.

Restoring == {"restore", "restore-read"}
Deleting == {"delete", "delete-call", "delete-read"}
Planned == Restoring \cup Deleting \cup {"terminal"}

\* What the loops work on comes from the lookups and the snapshot.
LoopsFollowPlan ==
  /\ stage \notin {"restore-read", "delete-call", "delete-read"} => item = 0
  /\ stage \in {"restore-read", "delete-call", "delete-read"} => item \in Id
  /\ stage \in Restoring => todo \subseteq ToRestore /\ (item \in Id => item \in ToRestore)
  /\ stage \in Deleting => todo \subseteq ToDelete /\ (item \in Id => item \in ToDelete)
  /\ stage = "terminal" => todo = {}

\* A record nobody edited since the lookups is as it was seen.
LookedUp ==
  /\ stage \in Rolling \ {"lookup"} => unread = {}
  /\ stage \in Rolling =>
       \A id \in Id \ moved :
         /\ Exists(id) /\ seen[id] # Absent => rec[id].tags = seen[id].tags
         /\ Exists(id) /\ rec[id].name \in Name \ unread => seen[id] # Absent

RestoredSoFar ==
  stage \in Planned /\ ~dirty =>
    \A id \in Id :
      /\ Found(id) => seen[id] # Absent
      /\ Found(id) /\ id \notin late /\ ~(stage \in Restoring /\ (id \in todo \/ id = item))
           => Exists(id) /\ rec[id].own = base[id].own

DeletedSoFar ==
  stage \in Deleting \cup {"terminal"} /\ ~dirty =>
    \A id \in Id \ moved :
      ~Found(id) /\ seen[id] # Absent /\ id \notin todo /\ id # item => ~Exists(id)

\* A rollback nobody disturbs finds and restores every record of the snapshot.
CalmSoFar ==
  calm /\ stage \in Rolling =>
    /\ ~dirty
    /\ \A id \in Id : Found(id) =>
         /\ Exists(id) /\ rec[id].name \in Name
         /\ rec[id].name \notin unread => seen[id] # Absent
    /\ stage = "restore-read" => rec[item].own = base[item].own
    /\ stage = "delete-read" => ~Exists(item)

NetBoxInv ==
  NetBoxTypeOK /\ LoopsFollowPlan /\ LookedUp /\ RestoredSoFar /\ DeletedSoFar /\ CalmSoFar

-----------------------------------------------------------------------------
\* A PATCH writes the owned part and the foreign tags of one record, nothing else.
LEMMA PatchedFacts ==
  ASSUME NetBoxTypeOK, NEW id \in Id, Exists(id), seen[id] # Absent,
         NEW o \in Own \cup {Finalised}
  PROVE  /\ Patched(id, o) \in [Id -> Record \cup {Absent}]
         /\ Patched(id, o)[id] \in Record
         /\ Patched(id, o)[id] # Absent
         /\ Patched(id, o)[id].own = o
         /\ Patched(id, o)[id].tags = seen[id].tags
         /\ Patched(id, o)[id].fields = rec[id].fields
         /\ Patched(id, o)[id].name = rec[id].name
         /\ \A other \in Id \ {id} : Patched(id, o)[other] = rec[other]
<1>1. rec[id] \in Record /\ seen[id] \in Record
  BY DEF NetBoxTypeOK, Exists
<1>2. QED
  BY <1>1, AbsentAssumption DEF Patched, Written, NetBoxTypeOK, Record

-----------------------------------------------------------------------------
LEMMA InitEstablishesInv == NetBoxInit => NetBoxInv
<1> SUFFICES ASSUME NetBoxInit PROVE NetBoxInv
  OBVIOUS
<1>1. stage = "fresh" /\ item = 0
  BY DEF NetBoxInit
<1>2. NetBoxTypeOK
  <2>1. NoRecords \in [Id -> Record \cup {Absent}]
    BY DEF NoRecords
  <2>2. rec \in [Id -> Record \cup {Absent}] /\ next \in 1..(MaxId + 1)
    BY DEF NetBoxInit
  <2>3. stage \in NetBoxStage /\ 0 \in 0..MaxTries /\ 0 \in 0..MaxEdits
    BY <1>1, NetBoxAssumption DEF NetBoxStage
  <2>4. QED
    BY <2>1, <2>2, <2>3 DEF NetBoxInit, NetBoxTypeOK
<1>3. LoopsFollowPlan /\ LookedUp /\ RestoredSoFar /\ DeletedSoFar /\ CalmSoFar
  BY <1>1 DEF LoopsFollowPlan, LookedUp, RestoredSoFar, DeletedSoFar, CalmSoFar, NetBoxStage, Rolling, Item, Planned, Restoring, Deleting
<1>4. QED
  BY <1>2, <1>3 DEF NetBoxInv

LEMMA CaptureKeeps == NetBoxInv /\ Capture => NetBoxInv'
  BY NetBoxAssumption, AbsentAssumption
  DEF Capture, Exists, NetBoxInv, NetBoxTypeOK, LoopsFollowPlan, LookedUp, RestoredSoFar, DeletedSoFar,
      CalmSoFar, netbox, item_, local, counters, netboxHistory, NetBoxStage, Rolling, Item, Planned, Restoring, Deleting, Id

LEMMA ProvisionKeeps == NetBoxInv /\ Provision => NetBoxInv'
  BY NetBoxAssumption, AbsentAssumption
  DEF Provision, Add, Written, Held, Exists, Record, NetBoxInv, NetBoxTypeOK, LoopsFollowPlan, LookedUp, RestoredSoFar, DeletedSoFar,
      CalmSoFar, netbox, item_, local, counters, netboxHistory, NetBoxStage, Rolling, Item, Planned, Restoring, Deleting, Id

LEMMA LaunchFailsKeeps == NetBoxInv /\ LaunchFails => NetBoxInv'
  BY NetBoxAssumption, AbsentAssumption
  DEF LaunchFails, NetBoxInv, NetBoxTypeOK, LoopsFollowPlan, LookedUp, RestoredSoFar, DeletedSoFar,
      CalmSoFar, netbox, item_, local, counters, netboxHistory, NetBoxStage, Rolling, Item, Planned, Restoring, Deleting, Id

LEMMA EditKeeps == NetBoxInv /\ Edit => NetBoxInv'
<1> SUFFICES ASSUME NetBoxInv, Edit PROVE NetBoxInv'
  OBVIOUS
<1> USE DEF netbox, item_, local, counters, netboxHistory
<1>1. NetBoxTypeOK
  BY DEF NetBoxInv
<1>2. PICK id \in Id :
        /\ rec' \in [Id -> Record \cup {Absent}] /\ next' \in 1..(MaxId + 1)
        /\ \A other \in Id \ {id} : rec'[other] = rec[other]
        /\ moved' = moved \cup {id} /\ late' = late \cup {id}
  <2> PICK id \in Id :
        /\ \/ /\ Exists(id) /\ UNCHANGED next
              /\ \E n \in Name \cup {Elsewhere}, o \in Own \cup {Finalised}, t, f \in Foreign :
                    rec' = Written(id, n, o, t, f)
           \/ Exists(id) /\ rec' = [rec EXCEPT ![id] = Absent] /\ UNCHANGED next
           \/ id = next /\ \E n \in Name, o \in Own, t \in Foreign : Add(n, o, t)
        /\ moved' = moved \cup {id} /\ late' = late \cup {id}
    BY <1>1 DEF Edit, NetBoxTypeOK, Exists, Record
  <2>1. CASE \E n \in Name \cup {Elsewhere}, o \in Own \cup {Finalised}, t, f \in Foreign :
               /\ rec' = Written(id, n, o, t, f) /\ next' \in 1..(MaxId + 1)
    BY <1>1, <2>1 DEF NetBoxTypeOK, Written, Record
  <2>2. CASE rec' = [rec EXCEPT ![id] = Absent] /\ UNCHANGED next
    BY <1>1, <2>2 DEF NetBoxTypeOK
  <2>3. QED
    BY <1>1, <2>1, <2>2, NetBoxAssumption DEF Add, NetBoxTypeOK, Id
<1>3. NetBoxTypeOK'
  <2>1. edits' \in 0..MaxEdits
    BY <1>1, NetBoxAssumption DEF Edit, NetBoxTypeOK
  <2>2. QED
    BY <1>1, <1>2, <2>1 DEF Edit, NetBoxTypeOK
<1>4. LoopsFollowPlan'
  BY DEF NetBoxInv, Edit, LoopsFollowPlan, ToRestore, ToDelete, Seen, Found
<1>5. LookedUp'
  BY <1>2 DEF NetBoxInv, Edit, LookedUp, Exists
<1>6. RestoredSoFar'
  BY <1>2 DEF NetBoxInv, Edit, RestoredSoFar, Exists, Found
<1>7. DeletedSoFar'
  BY <1>2 DEF NetBoxInv, Edit, DeletedSoFar, Exists, Found
<1>8. CalmSoFar'
  BY DEF Edit, CalmSoFar
<1>9. QED
  BY <1>3, <1>4, <1>5, <1>6, <1>7, <1>8 DEF NetBoxInv

LEMMA BeginKeeps == NetBoxInv /\ Begin => NetBoxInv'
<1> SUFFICES ASSUME NetBoxInv, Begin PROVE NetBoxInv'
  OBVIOUS
<1> USE DEF netbox, item_, local, counters, netboxHistory
<1>1. NetBoxTypeOK /\ item = 0
  BY DEF NetBoxInv, LoopsFollowPlan, Begin
<1>2. NoRecords \in [Id -> Record \cup {Absent}] /\ \A id \in Id : NoRecords[id] = Absent
  BY DEF NoRecords
<1>3. NetBoxTypeOK'
  <2>1. tries' \in 0..MaxTries
    BY <1>1, NetBoxAssumption DEF Begin, NetBoxTypeOK
  <2>2. calm' \in BOOLEAN
    BY Zenon DEF Begin, Restorable
  <2>3. QED
    BY <1>1, <1>2, <2>1, <2>2 DEF Begin, NetBoxTypeOK, NetBoxStage, Rolling
<1>4. LoopsFollowPlan' /\ RestoredSoFar' /\ DeletedSoFar'
  BY <1>1 DEF Begin, LoopsFollowPlan, RestoredSoFar, DeletedSoFar, NetBoxStage, Rolling, Item, Planned, Restoring, Deleting
<1>5. LookedUp'
  BY <1>1, <1>2 DEF Begin, LookedUp, Rolling, Exists
<1>6. CalmSoFar'
  BY <1>1 DEF Begin, CalmSoFar, Restorable, Exists, Found
<1>7. QED
  BY <1>3, <1>4, <1>5, <1>6 DEF NetBoxInv

LEMMA LookupKeeps == NetBoxInv /\ Lookup => NetBoxInv'
  BY NetBoxAssumption, AbsentAssumption
  DEF Lookup, Held, Exists, Found, NetBoxInv, NetBoxTypeOK, LoopsFollowPlan, LookedUp, RestoredSoFar, DeletedSoFar,
      CalmSoFar, netbox, item_, local, counters, netboxHistory, NetBoxStage, Rolling, Item, Planned, Restoring, Deleting, Id

LEMMA AmbiguousKeeps == NetBoxInv /\ Ambiguous => NetBoxInv'
  BY NetBoxAssumption, AbsentAssumption
  DEF Ambiguous, Abort, NetBoxInv, NetBoxTypeOK, LoopsFollowPlan, LookedUp, RestoredSoFar, DeletedSoFar,
      CalmSoFar, netbox, item_, local, counters, netboxHistory, NetBoxStage, Rolling, Item, Planned, Restoring, Deleting, Id

LEMMA ClassifyKeeps == NetBoxInv /\ Classify => NetBoxInv'
<1> SUFFICES ASSUME NetBoxInv, Classify PROVE NetBoxInv'
  OBVIOUS
<1> USE DEF netbox, item_, local, counters, netboxHistory
<1>1. NetBoxTypeOK /\ item = 0 /\ unread = {} /\ stage = "classify"
  BY DEF NetBoxInv, LoopsFollowPlan, LookedUp, Classify, Rolling
<1>2. NetBoxTypeOK'
  BY <1>1 DEF Classify, NetBoxTypeOK, NetBoxStage, Rolling, Item, ToRestore, Seen, Missing
<1>3. LoopsFollowPlan'
  BY <1>1 DEF Classify, LoopsFollowPlan, Restoring, Deleting, ToRestore, Seen, Found, Id
<1>4. LookedUp'
  BY <1>1 DEF NetBoxInv, Classify, LookedUp, Rolling, Exists
<1>5. ~dirty' => \A id \in Id : Found(id) => seen[id] # Absent /\ id \in todo'
  BY DEF Classify, Missing, ToRestore, Seen, Found
<1>6. RestoredSoFar'
  BY <1>5 DEF Classify, RestoredSoFar, Restoring, Found
<1>7. DeletedSoFar'
  BY DEF Classify, DeletedSoFar, Deleting
<1>8. CalmSoFar'
  <2>1. calm => Missing = {}
    BY <1>1 DEF NetBoxInv, CalmSoFar, Rolling, Missing
  <2>2. QED
    BY <1>1, <2>1 DEF NetBoxInv, Classify, CalmSoFar, Rolling, Found, Exists
<1>9. QED
  BY <1>2, <1>3, <1>4, <1>6, <1>7, <1>8 DEF NetBoxInv

LEMMA RestoresDoneKeeps == NetBoxInv /\ RestoresDone => NetBoxInv'
  BY NetBoxAssumption, AbsentAssumption
  DEF RestoresDone, ToRestore, ToDelete, Seen, Found, Exists, NetBoxInv, NetBoxTypeOK, LoopsFollowPlan, LookedUp, RestoredSoFar, DeletedSoFar,
      CalmSoFar, netbox, item_, local, counters, netboxHistory, NetBoxStage, Rolling, Item, Planned, Restoring, Deleting, Id

LEMMA DeletesDoneKeeps == NetBoxInv /\ DeletesDone => NetBoxInv'
  BY NetBoxAssumption, AbsentAssumption
  DEF DeletesDone, ToDelete, Seen, Found, Exists, NetBoxInv, NetBoxTypeOK, LoopsFollowPlan, LookedUp, RestoredSoFar, DeletedSoFar,
      CalmSoFar, netbox, item_, local, counters, netboxHistory, NetBoxStage, Rolling, Item, Planned, Restoring, Deleting, Id

LEMMA TerminalKeeps == NetBoxInv /\ Terminal => NetBoxInv'
  BY NetBoxAssumption, AbsentAssumption
  DEF Terminal, NetBoxInv, NetBoxTypeOK, LoopsFollowPlan, LookedUp, RestoredSoFar, DeletedSoFar,
      CalmSoFar, netbox, item_, local, counters, netboxHistory, NetBoxStage, Rolling, Item, Planned, Restoring, Deleting, Id

LEMMA LookupFailsKeeps == NetBoxInv /\ LookupFails => NetBoxInv'
  BY NetBoxAssumption, AbsentAssumption
  DEF LookupFails, Abort, NetBoxInv, NetBoxTypeOK, LoopsFollowPlan, LookedUp, RestoredSoFar, DeletedSoFar,
      CalmSoFar, netbox, item_, local, counters, netboxHistory, NetBoxStage, Rolling, Item, Planned, Restoring, Deleting, Id

LEMMA KillKeeps == NetBoxInv /\ Kill => NetBoxInv'
  BY NetBoxAssumption, AbsentAssumption
  DEF Kill, Abort, NetBoxInv, NetBoxTypeOK, LoopsFollowPlan, LookedUp, RestoredSoFar, DeletedSoFar,
      CalmSoFar, netbox, item_, local, counters, netboxHistory, NetBoxStage, Rolling, Item, Planned, Restoring, Deleting, Id

-----------------------------------------------------------------------------
\* The loops: a step of one item leaves the other records alone.
LEMMA RestorePatchKeeps == NetBoxInv /\ RestorePatch => NetBoxInv'
<1> SUFFICES ASSUME NetBoxInv, RestorePatch PROVE NetBoxInv'
  OBVIOUS
<1> USE DEF netbox, item_, local, counters, netboxHistory
<1>1. NetBoxTypeOK /\ stage = "restore" /\ stage' = "restore-read" /\ item = 0 /\ unread = {}
  BY DEF NetBoxInv, RestorePatch, LoopsFollowPlan, LookedUp, Rolling, Item
<1>2. PICK id \in todo :
        /\ item' = id /\ todo' = todo \ {id}
        /\ IF Exists(id) THEN Ignored(Patched(id, base[id].own)) ELSE UNCHANGED <<rec, calm>>
  BY DEF RestorePatch
<1>3. id \in Id /\ id \in ToRestore /\ Found(id) /\ seen[id] # Absent /\ todo \subseteq ToRestore
  BY <1>1 DEF NetBoxInv, LoopsFollowPlan, Restoring, ToRestore, Seen
<1>4. base[id].own \in Own \cup {Finalised}
  BY <1>1, <1>3 DEF NetBoxTypeOK, Found, Record
<1>5. \/ UNCHANGED rec
      \/ Exists(id) /\ rec' = Patched(id, base[id].own)
  BY <1>2 DEF Ignored
<1>6. /\ rec' \in [Id -> Record \cup {Absent}]
      /\ \A other \in Id \ {id} : rec'[other] = rec[other]
      /\ Exists(id)' <=> Exists(id)
      /\ Exists(id) => rec'[id].name = rec[id].name
      /\ Exists(id) => rec'[id].tags = rec[id].tags \/ rec'[id].tags = seen[id].tags
  BY <1>1, <1>3, <1>4, <1>5, PatchedFacts DEF NetBoxTypeOK, Exists
<1>7. NetBoxTypeOK'
  BY <1>1, <1>2, <1>3, <1>6 DEF RestorePatch, NetBoxTypeOK, NetBoxStage, Rolling, Item, Ignored
<1>8. LoopsFollowPlan'
  BY <1>1, <1>2, <1>3 DEF RestorePatch, LoopsFollowPlan, Restoring, Deleting, ToRestore, Seen, Found
<1>9. LookedUp'
  BY <1>1, <1>3, <1>6 DEF NetBoxInv, RestorePatch, LookedUp, Rolling, Item, Exists
<1>10. RestoredSoFar'
  <2>1. ASSUME NEW other \in Id, other \notin todo' \cup {item'}
        PROVE  other \notin todo \cup {item} /\ rec'[other] = rec[other]
    BY <1>1, <1>2, <1>6, <2>1 DEF Id
  <2>2. QED
    BY <1>1, <2>1 DEF NetBoxInv, RestorePatch, RestoredSoFar, Planned, Restoring, Exists, Found
<1>11. DeletedSoFar'
  BY <1>1 DEF DeletedSoFar, Deleting
<1>12. CalmSoFar'
  <2>1. Exists(id) => Patched(id, base[id].own)[id].own = base[id].own
    BY <1>1, <1>3, <1>4, PatchedFacts
  <2>2. calm' => calm /\ (Exists(id) => rec' = Patched(id, base[id].own))
    BY <1>2, Zenon DEF Ignored
  <2>3. QED
    BY <1>1, <1>2, <1>3, <1>6, <2>1, <2>2 DEF NetBoxInv, RestorePatch, CalmSoFar, Rolling, Item,
       Exists, Found
<1>13. QED
  BY <1>7, <1>8, <1>9, <1>10, <1>11, <1>12 DEF NetBoxInv

LEMMA RestoreReadKeeps == NetBoxInv /\ RestoreRead => NetBoxInv'
<1> SUFFICES ASSUME NetBoxInv, RestoreRead PROVE NetBoxInv'
  OBVIOUS
<1> USE DEF netbox, item_, local, counters, netboxHistory
<1>1. NetBoxTypeOK /\ stage = "restore-read" /\ stage' = "restore" /\ item \in ToRestore
  BY DEF NetBoxInv, RestoreRead, LoopsFollowPlan, Restoring
<1>2. item \in Id /\ Found(item) /\ todo \subseteq ToRestore
  BY <1>1 DEF NetBoxInv, LoopsFollowPlan, Restoring, ToRestore, Seen
<1>3. NetBoxTypeOK'
  BY <1>1 DEF RestoreRead, ReadBack, RestoreDirty, Exists, NetBoxTypeOK, NetBoxStage, Rolling, Item
<1>4. LoopsFollowPlan'
  BY <1>1, <1>2 DEF RestoreRead, ReadBack, LoopsFollowPlan, Restoring, Deleting, ToRestore, Seen, Found, Id
<1>5. LookedUp'
  BY <1>1 DEF NetBoxInv, RestoreRead, ReadBack, LookedUp, Rolling, Item, Exists
<1>6. RestoredSoFar'
  BY <1>1, <1>2 DEF NetBoxInv, RestoreRead, ReadBack, RestoreDirty, RestoredSoFar, Planned,
     Restoring, Exists, Found
<1>7. DeletedSoFar'
  BY <1>1 DEF DeletedSoFar, Deleting
<1>8. CalmSoFar'
  BY <1>1, <1>2 DEF NetBoxInv, RestoreRead, ReadBack, RestoreDirty, CalmSoFar, Rolling, Item,
     Exists, Found
<1>9. QED
  BY <1>3, <1>4, <1>5, <1>6, <1>7, <1>8 DEF NetBoxInv

LEMMA DeletePatchKeeps == NetBoxInv /\ DeletePatch => NetBoxInv'
<1> SUFFICES ASSUME NetBoxInv, DeletePatch PROVE NetBoxInv'
  OBVIOUS
<1> USE DEF netbox, item_, local, counters, netboxHistory
<1>1. NetBoxTypeOK /\ stage = "delete" /\ item = 0 /\ unread = {}
      /\ stage' \in {"delete-call", "delete-read"}
  BY DEF NetBoxInv, DeletePatch, LoopsFollowPlan, LookedUp, Rolling, Item
<1>2. PICK id \in todo :
        /\ item' = id /\ todo' = todo \ {id}
        /\ \/ /\ Exists(id) /\ rec' = Patched(id, Finalised)
              /\ stage' = "delete-call" /\ calm' = calm
           \/ ~Exists(id) /\ stage' = "delete-read" /\ rec' = rec /\ calm' = calm
           \/ /\ stage' = "delete-read" /\ calm' = FALSE
              /\ \/ rec' = rec
                 \/ Exists(id) /\ rec' = Patched(id, Finalised)
  BY Zenon DEF DeletePatch
<1>3. id \in Id /\ id \in ToDelete /\ ~Found(id) /\ seen[id] # Absent /\ todo \subseteq ToDelete
  BY <1>1 DEF NetBoxInv, LoopsFollowPlan, Deleting, ToDelete, Seen
<1>4. /\ rec' \in [Id -> Record \cup {Absent}]
      /\ \A other \in Id \ {id} : rec'[other] = rec[other]
      /\ Exists(id)' <=> Exists(id)
      /\ Exists(id) => rec'[id].name = rec[id].name
      /\ Exists(id) => rec'[id].tags = rec[id].tags \/ rec'[id].tags = seen[id].tags
  BY <1>1, <1>2, <1>3, PatchedFacts DEF NetBoxTypeOK, Exists
<1>5. NetBoxTypeOK'
  BY <1>1, <1>2, <1>3, <1>4 DEF DeletePatch, NetBoxTypeOK, NetBoxStage, Rolling, Item
<1>6. LoopsFollowPlan'
  BY <1>1, <1>2, <1>3 DEF DeletePatch, LoopsFollowPlan, Restoring, Deleting, ToDelete, Seen, Found
<1>7. LookedUp'
  BY <1>1, <1>3, <1>4 DEF NetBoxInv, DeletePatch, LookedUp, Rolling, Item, Exists
<1>8. RestoredSoFar'
  BY <1>1, <1>3, <1>4 DEF NetBoxInv, DeletePatch, RestoredSoFar, Planned, Restoring, Deleting,
     Exists, Found
<1>9. DeletedSoFar'
  <2>1. ASSUME NEW other \in Id, other \notin todo', other # item'
        PROVE  other \notin todo /\ other # item /\ rec'[other] = rec[other]
    BY <1>1, <1>2, <1>4, <2>1 DEF Id
  <2>2. QED
    BY <1>1, <2>1 DEF NetBoxInv, DeletePatch, DeletedSoFar, Deleting, Exists, Found
<1>10. CalmSoFar'
  BY <1>1, <1>2, <1>3, <1>4 DEF NetBoxInv, DeletePatch, CalmSoFar, Rolling, Item, Exists, Found
<1>11. QED
  BY <1>5, <1>6, <1>7, <1>8, <1>9, <1>10 DEF NetBoxInv

LEMMA DeleteCallKeeps == NetBoxInv /\ DeleteCall => NetBoxInv'
<1> SUFFICES ASSUME NetBoxInv, DeleteCall PROVE NetBoxInv'
  OBVIOUS
<1> USE DEF netbox, item_, local, counters, netboxHistory
<1>1. NetBoxTypeOK /\ stage = "delete-call" /\ stage' = "delete-read" /\ item \in Id /\ ~Found(item)
  BY DEF NetBoxInv, DeleteCall, LoopsFollowPlan, Deleting, ToDelete, Seen
<1>2. /\ rec' \in [Id -> Record \cup {Absent}]
      /\ \A other \in Id \ {item} : rec'[other] = rec[other]
      /\ rec'[item] \in {rec[item], Absent}
      /\ calm' => calm /\ ~Exists(item)'
      /\ calm' \in BOOLEAN
  <2>1. \/ rec' = [rec EXCEPT ![item] = Absent] /\ calm' = calm
        \/ rec' \in {rec, [rec EXCEPT ![item] = Absent]} /\ calm' = FALSE
    BY Zenon DEF DeleteCall, Ignored
  <2>2. item' = item
    BY DEF DeleteCall
  <2>3. QED
    <3>1. CASE rec' = [rec EXCEPT ![item] = Absent] /\ calm' = calm
      BY <1>1, <2>2, <3>1 DEF NetBoxTypeOK, Exists
    <3>2. CASE rec' \in {rec, [rec EXCEPT ![item] = Absent]} /\ calm' = FALSE
      BY <1>1, <3>2 DEF NetBoxTypeOK
    <3>3. QED
      BY <2>1, <3>1, <3>2
<1>3. NetBoxTypeOK'
  BY <1>1, <1>2 DEF DeleteCall, NetBoxTypeOK, NetBoxStage, Rolling, Item
<1>4. LoopsFollowPlan'
  BY <1>1 DEF NetBoxInv, DeleteCall, LoopsFollowPlan, Restoring, Deleting, ToDelete, Seen, Found
<1>5. LookedUp'
  BY <1>1, <1>2 DEF NetBoxInv, DeleteCall, LookedUp, Rolling, Item, Exists
<1>6. RestoredSoFar'
  BY <1>1, <1>2 DEF NetBoxInv, DeleteCall, RestoredSoFar, Planned, Restoring, Deleting, Exists, Found
<1>7. DeletedSoFar'
  BY <1>1, <1>2 DEF NetBoxInv, DeleteCall, DeletedSoFar, Deleting, Exists, Found
<1>8. CalmSoFar'
  BY <1>1, <1>2 DEF NetBoxInv, DeleteCall, CalmSoFar, Rolling, Item, Exists, Found
<1>9. QED
  BY <1>3, <1>4, <1>5, <1>6, <1>7, <1>8 DEF NetBoxInv

LEMMA DeleteReadKeeps == NetBoxInv /\ DeleteRead => NetBoxInv'
<1> SUFFICES ASSUME NetBoxInv, DeleteRead PROVE NetBoxInv'
  OBVIOUS
<1> USE DEF netbox, item_, local, counters, netboxHistory
<1>1. NetBoxTypeOK /\ stage = "delete-read" /\ stage' = "delete" /\ item \in ToDelete
  BY DEF NetBoxInv, DeleteRead, LoopsFollowPlan, Deleting
<1>2. item \in Id /\ ~Found(item) /\ todo \subseteq ToDelete
  BY <1>1 DEF NetBoxInv, LoopsFollowPlan, Deleting, ToDelete, Seen
<1>3. NetBoxTypeOK'
  BY <1>1 DEF DeleteRead, ReadBack, DeleteDirty, Exists, NetBoxTypeOK, NetBoxStage, Rolling, Item
<1>4. LoopsFollowPlan'
  BY <1>1, <1>2 DEF DeleteRead, ReadBack, LoopsFollowPlan, Restoring, Deleting, ToDelete, Seen, Found, Id
<1>5. LookedUp'
  BY <1>1 DEF NetBoxInv, DeleteRead, ReadBack, LookedUp, Rolling, Item, Exists
<1>6. RestoredSoFar'
  BY <1>1, <1>2 DEF NetBoxInv, DeleteRead, ReadBack, RestoredSoFar, Planned, Restoring, Deleting,
     Exists, Found
<1>7. DeletedSoFar'
  BY <1>1, <1>2 DEF NetBoxInv, DeleteRead, ReadBack, DeleteDirty, DeletedSoFar, Deleting, Exists, Found
<1>8. CalmSoFar'
  BY <1>1, <1>2 DEF NetBoxInv, DeleteRead, ReadBack, DeleteDirty, CalmSoFar, Rolling, Item,
     Exists, Found
<1>9. QED
  BY <1>3, <1>4, <1>5, <1>6, <1>7, <1>8 DEF NetBoxInv

-----------------------------------------------------------------------------
LEMMA StepKeepsInv == NetBoxInv /\ [NetBoxNext]_netboxVars => NetBoxInv'
<1> SUFFICES ASSUME NetBoxInv, [NetBoxNext]_netboxVars PROVE NetBoxInv'
  OBVIOUS
<1>1. CASE NetBoxNext
  BY <1>1, CaptureKeeps, ProvisionKeeps, LaunchFailsKeeps, EditKeeps, BeginKeeps, LookupKeeps,
     ClassifyKeeps, AmbiguousKeeps, RestorePatchKeeps, RestoreReadKeeps, RestoresDoneKeeps,
     DeletePatchKeeps, DeleteCallKeeps, DeleteReadKeeps, DeletesDoneKeeps, TerminalKeeps,
     LookupFailsKeeps, KillKeeps DEF NetBoxNext
<1>2. CASE UNCHANGED netboxVars
  BY <1>2 DEF netboxVars, netbox, item_, local, counters, netboxHistory, NetBoxInv, NetBoxTypeOK,
     LoopsFollowPlan, LookedUp, RestoredSoFar, DeletedSoFar, CalmSoFar, ToRestore, ToDelete, Seen,
     Found, Exists
<1>3. QED
  BY <1>1, <1>2

\* NetBox has given no id yet that it will give.
IdsAreFresh == \A id \in Id : id >= next => ~Exists(id)

LEMMA StepKeepsFresh == NetBoxInv /\ IdsAreFresh /\ [NetBoxNext]_netboxVars => IdsAreFresh'
<1> SUFFICES ASSUME NetBoxInv, IdsAreFresh, [NetBoxNext]_netboxVars PROVE IdsAreFresh'
  OBVIOUS
<1> USE DEF netbox, item_, local, counters, netboxHistory
<1>1. NetBoxTypeOK
  BY DEF NetBoxInv
<1>2. CASE rec' = rec /\ next' = next
  BY <1>2 DEF IdsAreFresh, Exists
<1>3. CASE Provision \/ Edit
  BY <1>1, <1>3, NetBoxAssumption DEF Provision, Edit, Add, Written, Held, Exists, NetBoxTypeOK, IdsAreFresh, Id
<1>4. CASE RestorePatch /\ rec' # rec
  <2>1. PICK other \in todo : Exists(other) /\ rec' = Patched(other, base[other].own)
    BY <1>4 DEF RestorePatch, Ignored
  <2>2. other \in Id /\ seen[other] # Absent /\ base[other] \in Record
    BY <1>1, <1>4 DEF NetBoxInv, NetBoxTypeOK, LoopsFollowPlan, RestorePatch, Restoring, ToRestore, Seen, Found
  <2>3. QED
    BY <1>1, <1>4, <2>1, <2>2, PatchedFacts DEF RestorePatch, Record, IdsAreFresh, Exists
<1>5. CASE DeletePatch /\ rec' # rec
  <2>1. PICK other \in todo : Exists(other) /\ rec' = Patched(other, Finalised)
    BY <1>5 DEF DeletePatch, Exists
  <2>2. other \in Id /\ seen[other] # Absent
    BY <1>1, <1>5 DEF NetBoxInv, NetBoxTypeOK, LoopsFollowPlan, DeletePatch, Deleting, ToDelete, Seen
  <2>3. QED
    BY <1>1, <1>5, <2>1, <2>2, PatchedFacts DEF DeletePatch, IdsAreFresh, Exists
<1>6. CASE DeleteCall
  <2>1. rec' \in {rec, [rec EXCEPT ![item] = Absent]}
    BY <1>6, Zenon DEF DeleteCall, Ignored
  <2>2. QED
    BY <1>1, <1>6, <2>1 DEF DeleteCall, NetBoxTypeOK, IdsAreFresh, Exists
<1>7. QED
  BY <1>2, <1>3, <1>4, <1>5, <1>6 DEF NetBoxNext, netboxVars, Capture, LaunchFails, Begin,
     Lookup, Classify, Ambiguous, Abort, RestorePatch, RestoreRead, ReadBack, RestoresDone, DeletePatch,
     DeleteRead, DeletesDone, Terminal, LookupFails, Kill

LEMMA NetBoxInductive == NetBoxSpec => []NetBoxInv /\ []IdsAreFresh
<1>1. NetBoxInit => IdsAreFresh
  BY DEF NetBoxInit, IdsAreFresh, Exists, Id
<1>2. QED
  BY <1>1, InitEstablishesInv, StepKeepsInv, StepKeepsFresh, PTL DEF NetBoxSpec

\* The snapshot, the lookups, the loops' items and NetBox's records have their types at every step.
THEOREM NetBoxTypeCorrect == NetBoxSpec => []NetBoxTypeOK
<1>1. NetBoxInv => NetBoxTypeOK
  BY DEF NetBoxInv
<1>2. QED
  BY <1>1, NetBoxInductive, PTL

-----------------------------------------------------------------------------
\* Which record a step removes, and what it does to the foreign parts.
LEMMA OnlyDeleteCallRemoves ==
  ASSUME NetBoxInv, [NetBoxNext]_netboxVars, edits' = edits,
         NEW id \in Id, Exists(id), rec'[id] = Absent
  PROVE  DeleteCall /\ item = id
<1> USE DEF netbox, item_, local, counters, netboxHistory
<1>1. NetBoxTypeOK
  BY DEF NetBoxInv
<1>2. rec' # rec
  BY DEF Exists
<1>3. ~Edit
  BY <1>1, NetBoxAssumption DEF Edit, NetBoxTypeOK
<1>4. Provision \/ RestorePatch \/ DeletePatch \/ DeleteCall
  BY <1>2, <1>3 DEF NetBoxNext, netboxVars, Capture, LaunchFails, Begin, Lookup, Classify, Ambiguous,
     Abort, RestoreRead, ReadBack, RestoresDone, DeleteRead, DeletesDone, Terminal, LookupFails, Kill
<1>5. ~Provision
  BY <1>1, AbsentAssumption DEF Provision, Add, Written, Held, Exists, NetBoxTypeOK, Record
<1>6. ~RestorePatch
  <2> SUFFICES ASSUME RestorePatch PROVE FALSE
    OBVIOUS
  <2>1. PICK other \in todo : Exists(other) /\ rec' = Patched(other, base[other].own)
    BY <1>2 DEF RestorePatch, Ignored
  <2>2. other \in Id /\ seen[other] # Absent /\ base[other] \in Record
    BY <1>1 DEF NetBoxInv, NetBoxTypeOK, LoopsFollowPlan, RestorePatch, Restoring, ToRestore, Seen, Found
  <2>3. QED
    BY <1>1, <2>1, <2>2, PatchedFacts DEF Exists, Record
<1>7. ~DeletePatch
  <2> SUFFICES ASSUME DeletePatch PROVE FALSE
    OBVIOUS
  <2>1. PICK other \in todo : Exists(other) /\ rec' = Patched(other, Finalised)
    BY <1>2 DEF DeletePatch, Exists
  <2>2. other \in Id /\ seen[other] # Absent
    BY <1>1 DEF NetBoxInv, NetBoxTypeOK, LoopsFollowPlan, DeletePatch, Deleting, ToDelete, Seen
  <2>3. QED
    BY <1>1, <2>1, <2>2, PatchedFacts DEF Exists
<1>8. DeleteCall
  BY <1>4, <1>5, <1>6, <1>7
<1>9. rec' \in {rec, [rec EXCEPT ![item] = Absent]}
  BY <1>8, Zenon DEF DeleteCall, Ignored
<1>10. QED
  BY <1>1, <1>8, <1>9 DEF Exists, NetBoxTypeOK

(***************************************************************************)
(* Nobody but an operator deletes a record of the snapshot: the item at    *)
(* work in DELETE was picked because its id is not in the snapshot.        *)
(***************************************************************************)
THEOREM FoundRecordsAreSafe == NetBoxSpec => FoundRecordsStay
<1>1. NetBoxInv /\ [NetBoxNext]_netboxVars =>
        [\A id \in Id : Found(id) /\ Exists(id) /\ rec'[id] = Absent => ByOperator]_netboxVars
  <2> SUFFICES ASSUME NetBoxInv, [NetBoxNext]_netboxVars, NEW id \in Id,
                      Found(id), Exists(id), rec'[id] = Absent, edits' = edits
               PROVE  FALSE
    BY DEF ByOperator
  <2>1. DeleteCall /\ item = id
    BY OnlyDeleteCallRemoves
  <2>2. QED
    BY <2>1 DEF NetBoxInv, LoopsFollowPlan, DeleteCall, Deleting, ToDelete, Found
<1>2. QED
  BY <1>1, NetBoxInductive, PTL DEF NetBoxSpec, FoundRecordsStay

(***************************************************************************)
(* Foreign tags and custom fields survive launch and rollback, except that *)
(* a tag list an operator changed after the lookup is written over.        *)
(***************************************************************************)
THEOREM ForeignPartsAreKept == NetBoxSpec => ForeignPartsSurvive
<1>1. NetBoxInv /\ IdsAreFresh /\ [NetBoxNext]_netboxVars =>
        [\A id \in Id : Exists(id) /\ rec'[id] # Absent /\ ~ByOperator =>
           /\ rec'[id].fields = rec[id].fields
           /\ id \notin moved => rec'[id].tags = rec[id].tags]_netboxVars
  <2> SUFFICES ASSUME NetBoxInv, IdsAreFresh, [NetBoxNext]_netboxVars, NEW id \in Id,
                      Exists(id), rec'[id] # Absent, edits' = edits
               PROVE  /\ rec'[id].fields = rec[id].fields
                      /\ id \notin moved => rec'[id].tags = rec[id].tags
    BY DEF ByOperator
  <2> USE DEF netbox, item_, local, counters, netboxHistory
  <2>1. NetBoxTypeOK
    BY DEF NetBoxInv
  <2>2. ~Edit
    BY <2>1, NetBoxAssumption DEF Edit, NetBoxTypeOK
  <2>3. CASE rec' = rec
    BY <2>3
  <2>4. CASE Provision
    BY <2>1, <2>4, NetBoxAssumption DEF Provision, Add, Written, Held, Exists, NetBoxTypeOK, IdsAreFresh, Id
  <2>5. CASE RestorePatch /\ rec' # rec
    <3>1. PICK other \in todo : Exists(other) /\ rec' = Patched(other, base[other].own)
      BY <2>5 DEF RestorePatch, Ignored
    <3>2. other \in Id /\ seen[other] # Absent /\ base[other] \in Record
      BY <2>1, <2>5 DEF NetBoxInv, NetBoxTypeOK, LoopsFollowPlan, RestorePatch, Restoring, ToRestore, Seen, Found
    <3>3. id \notin moved => seen[id] = Absent \/ seen[id].tags = rec[id].tags
      BY <2>5 DEF NetBoxInv, LookedUp, RestorePatch, Rolling, Item
    <3>4. QED
      BY <2>1, <3>1, <3>2, <3>3, PatchedFacts DEF Record
  <2>6. CASE DeletePatch /\ rec' # rec
    <3>1. PICK other \in todo : Exists(other) /\ rec' = Patched(other, Finalised)
      BY <2>6 DEF DeletePatch, Exists
    <3>2. other \in Id /\ seen[other] # Absent
      BY <2>1, <2>6 DEF NetBoxInv, NetBoxTypeOK, LoopsFollowPlan, DeletePatch, Deleting, ToDelete, Seen
    <3>3. id \notin moved => seen[id] = Absent \/ seen[id].tags = rec[id].tags
      BY <2>6 DEF NetBoxInv, LookedUp, DeletePatch, Rolling, Item
    <3>4. QED
      BY <2>1, <3>1, <3>2, <3>3, PatchedFacts
  <2>7. CASE DeleteCall
    <3>1. rec' \in {rec, [rec EXCEPT ![item] = Absent]}
      BY <2>7, Zenon DEF DeleteCall, Ignored
    <3>2. QED
      BY <2>1, <3>1 DEF NetBoxTypeOK
  <2>8. QED
    BY <2>2, <2>3, <2>4, <2>5, <2>6, <2>7 DEF NetBoxNext, netboxVars, Capture, LaunchFails, Begin,
       Lookup, Classify, Ambiguous, Abort, RestoreRead, ReadBack, RestoresDone, DeleteRead, DeletesDone,
       Terminal, LookupFails, Kill
<1>2. QED
  BY <1>1, NetBoxInductive, PTL DEF NetBoxSpec, ForeignPartsSurvive

(***************************************************************************)
(* A rollback that reports the surface clean has left the records of the   *)
(* snapshot with their owned parts and no other under their names, for any *)
(* failures of its calls and any interruptions before it.                  *)
(***************************************************************************)
THEOREM CleanReportIsTrue == NetBoxSpec => CleanMeansAsFound
<1>1. NetBoxInv /\ [NetBoxNext]_netboxVars =>
        [Reporting /\ ~dirty =>
          /\ \A id \in Id \ late : Found(id) => Exists(id) /\ rec[id].own = base[id].own
          /\ \A id \in Id \ moved : ~Found(id) /\ Exists(id) => rec[id].name \notin Name]_netboxVars
  <2> SUFFICES ASSUME NetBoxInv, stage = "terminal", ~dirty, NEW id \in Id
               PROVE  /\ id \notin late /\ Found(id) => Exists(id) /\ rec[id].own = base[id].own
                      /\ id \notin moved /\ ~Found(id) /\ Exists(id) => rec[id].name \notin Name
    BY DEF Reporting
  <2>1. item = 0 /\ 0 \notin Id /\ todo = {} /\ unread = {}
    BY DEF NetBoxInv, LoopsFollowPlan, LookedUp, Rolling, Id
  <2>2. id \notin moved /\ Exists(id) /\ rec[id].name \in Name => seen[id] # Absent
    BY <2>1 DEF NetBoxInv, LookedUp, Rolling
  <2>3. QED
    BY <2>1, <2>2 DEF NetBoxInv, RestoredSoFar, DeletedSoFar, Planned, Restoring
<1>2. QED
  BY <1>1, NetBoxInductive, PTL DEF NetBoxSpec, CleanMeansAsFound

\* A rollback that nobody disturbs ends clean, from any state its predecessors left.
THEOREM UndisturbedConverges == NetBoxSpec => UndisturbedIsClean
<1>1. NetBoxInv /\ [NetBoxNext]_netboxVars => [Reporting /\ calm => ~dirty]_netboxVars
  BY DEF NetBoxInv, CalmSoFar, Reporting, Rolling
<1>2. QED
  BY <1>1, NetBoxInductive, PTL DEF NetBoxSpec, UndisturbedIsClean
=============================================================================
