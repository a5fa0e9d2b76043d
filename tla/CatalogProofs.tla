---------------------------- MODULE CatalogProofs ----------------------------
(***************************************************************************)
(* Theorems of Catalog, for every set of purges, plays and records, every  *)
(* number of operator edits and every combination of faults.               *)
(***************************************************************************)
EXTENDS Catalog, FacilityLeaseProofs, TLAPS

USE CatalogAssumption, NoOneAssumption

-----------------------------------------------------------------------------
(***************************************************************************)
(* The inductive invariant: where each run is and what it has emitted      *)
(* (Local), what a purge and a play know of the records nobody else has    *)
(* changed since they read them (PurgeOK, PlayOK, NamedOK), and which      *)
(* records of the function there are at all (RecordsOK).                   *)
(***************************************************************************)

\* Where a purge has not emitted its event yet, and where it has.
Silent == Body \cup {"idle", "lock", "verify", "release"}
Spoken == {"rescue", "always", "done"}

EventsOK(r) ==
  /\ r \in Play => events[r] = <<>>
  /\ pc[r] \in Silent => events[r] = <<>>
  /\ r \in Purge => Len(events[r]) <= 1
  /\ r \in Purge /\ pc[r] \in Spoken => Len(events[r]) = 1

\* Before the first stage of a play has read its record.
Ensuring == {"ensure", "ensure-create", "ensure-recheck"}

Local(r) ==
  /\ pc[r] \in Purging => r \in Purge
  /\ pc[r] \in Staging => r \in Play
  /\ pc[r] \in Body => r \in believers
  /\ pc[r] \in Ensuring \cup {"idle", "lock", "verify", "create"} => stage[r] # "configure"
  /\ pc[r] = "create" => stage[r] = "provision"
  /\ EventsOK(r)

\* The expected records that are left, and those of the purge's read, as far as
\* nobody else has changed them since.
Kept(p) == (expected[p] \cap exist) \ moved[p]
AsRead(p) == (found[p] \cap exist) \ moved[p]

\* What the checks have found of the purge's read.
Sound(p) ==
  /\ \A x \in AsRead(p) : x \in expected[p] /\ Residue(x)
  /\ Members \subseteq found[p] \cup moved[p]

PurgeOK(p) ==
  /\ pc[p] = "missing" /\ ~amiss[p] => Sound(p) /\ Kept(p) \subseteq found[p] \cup todo[p]
  /\ pc[p] \in {"delete", "readback"} =>
       /\ Sound(p) /\ Kept(p) \subseteq found[p] /\ todo[p] \subseteq found[p]
       /\ ~dirty[p] => AsRead(p) \subseteq todo[p]
  /\ pc[p] \in {"tag-guard", "tag-lookup", "tag-delete"} =>
       Kept(p) = {} /\ Members \subseteq moved[p]
  /\ pc[p] = "final-services" => Kept(p) \subseteq Members
  /\ pc[p] = "final-tag" /\ ~amiss[p] => Kept(p) = {}
  /\ pc[p] = "release" => Kept(p) = {}
  /\ Said(p, "success") => Kept(p) = {}

\* Between the provision and the end of a launch for a workload.
Grouped(l) == stage[l] = "configure" /\ slug[l] # "none"

PlayOK(l) ==
  id[l] \notin moved[l] =>
    /\ pc[l] = "patch" /\ id[l] \in exist /\ "note" \in tags[id[l]] => "note" \in read[l]
    /\ pc[l] \in {"patch", "confirm"} /\ Grouped(l) => read[l] \cap Group = {slug[l]}
    /\ pc[l] = "confirm" => id[l] \in exist /\ tags[id[l]] = Merged(l, Desired(l))
    /\ pc[l] \in {"guard", "lookup"} /\ Grouped(l) /\ id[l] \in exist =>
         tags[id[l]] \cap Group = {slug[l]}
    /\ pc[l] = "release" /\ stage[l] = "configure" =>
         /\ id[l] \in exist
         /\ tags[id[l]] \cap Lifecycle = {"active"}
         /\ slug[l] # "none" => tags[id[l]] \cap Group = {slug[l]}

\* The record that was there to begin with.
Born == Own \ Unborn

\* Before a play has its record, and with it: the other records come from others.
Before(l) ==
  /\ pc[l] \in Ensuring \cup {"idle", "lock", "verify", "guard", "lookup", "create"}
  /\ stage[l] # "configure"

With(l) ==
  \/ pc[l] \in {"patch", "confirm"} /\ stage[l] = "provision"
  \/ pc[l] \in {"guard", "lookup"} /\ stage[l] = "configure"

NamedOK(l) ==
  /\ Before(l) => Own \cap exist \subseteq Born \cup moved[l]
  /\ With(l) => Own \cap exist \subseteq {id[l]} \cup moved[l]

RecordsOK ==
  /\ unborn \subseteq Unborn
  /\ Own \cap exist \subseteq Born \/ Born \cap exist = {}
  /\ (\E r \in Attempt : pc[r] = "create") => Born \cap exist = {}

Knows(r) ==
  /\ r \in Purge => PurgeOK(r)
  /\ r \in Play => PlayOK(r) /\ NamedOK(r)

CatalogInv ==
  /\ CatalogTypeOK
  /\ RecordsOK
  /\ \A r \in Attempt : Local(r) /\ Knows(r)

-----------------------------------------------------------------------------
(***************************************************************************)
(* Type correctness, and what a step of one run leaves of the others.      *)
(***************************************************************************)

Act(r) == Start(r) \/ Run(r) \/ CallFails(r) \/ Kill(r)

\* The parts of the type.
NetType ==
  /\ exist \subseteq Service /\ unborn \subseteq Service \ exist
  /\ tags \in [Service -> SUBSET Tag]
  /\ tagObj \in Nat /\ nextTag \in Nat /\ tagObj < nextTag
  /\ moved \in [Attempt -> SUBSET Service]

FactType ==
  /\ stage \in [Attempt -> {"provision", "configure", "finalise"}]
  /\ slug \in [Attempt -> Group \cup {"none"}]
  /\ id \in [Attempt -> Service]
  /\ read \in [Attempt -> SUBSET Tag]
  /\ expected \in [Attempt -> SUBSET Service]
  /\ found \in [Attempt -> SUBSET Service]
  /\ todo \in [Attempt -> SUBSET Service]
  /\ amiss \in [Attempt -> BOOLEAN] /\ dirty \in [Attempt -> BOOLEAN]
  /\ tagSeen \in [Attempt -> Nat]

WalkType ==
  /\ believers \subseteq Attempt
  /\ pc \in [Attempt -> CatalogLabel]
  /\ events \in [Attempt -> Seq({"success", "refused"})]

RestType ==
  /\ owner \in Attempt \cup {NoOne} /\ aged \subseteq Attempt
  /\ baseline \in BOOLEAN
  /\ edits \in 0..MaxEdits
  /\ hurt \subseteq Attempt

LEMMA TypeParts == CatalogTypeOK <=> NetType /\ FactType /\ WalkType /\ RestType
  BY DEF CatalogTypeOK, LeaseTypeOK, NetType, FactType, WalkType, RestType

\* Run r moves, and emits at most its own events.
Walks(r) ==
  /\ WalkType'
  /\ \A m \in Attempt \ {r} :
       /\ pc'[m] = pc[m] /\ events'[m] = events[m]
       /\ m \in believers' <=> m \in believers

\* The facts of run m stay.
SameFacts(m) ==
  /\ stage'[m] = stage[m] /\ slug'[m] = slug[m] /\ id'[m] = id[m] /\ read'[m] = read[m]
  /\ expected'[m] = expected[m] /\ found'[m] = found[m] /\ todo'[m] = todo[m]
  /\ amiss'[m] = amiss[m] /\ dirty'[m] = dirty[m]

Learns(r) == FactType' /\ \A m \in Attempt \ {r} : SameFacts(m)

\* Records that nobody else has changed for run m are as they were.
Undisturbed(m) ==
  /\ moved[m] \subseteq moved'[m]
  /\ \A x \in Service \ moved'[m] :
       (x \in exist' <=> x \in exist) /\ (x \in exist' => tags'[x] = tags[x])

Writes(r) == NetType' /\ \A m \in Attempt \ {r} : Undisturbed(m)

Frame(r) == Walks(r) /\ Learns(r) /\ Writes(r)

\* Going to a label.
LEMMA GotoWalks ==
  ASSUME CatalogTypeOK, NEW r \in Attempt, NEW l \in CatalogLabel, Goto(r, l)
  PROVE  /\ pc' \in [Attempt -> CatalogLabel] /\ pc'[r] = l
         /\ believers' \subseteq Attempt
         /\ \A m \in Attempt \ {r} : pc'[m] = pc[m] /\ (m \in believers' <=> m \in believers)
         /\ l \in Body /\ r \in believers => r \in believers'
  BY DEF CatalogTypeOK, LeaseTypeOK, Goto

\* Going to a label in silence.
LEMMA SilentWalks ==
  ASSUME CatalogTypeOK, NEW r \in Attempt, NEW l \in CatalogLabel, Goto(r, l), UNCHANGED events
  PROVE  Walks(r) /\ pc'[r] = l /\ events'[r] = events[r]
  BY GotoWalks DEF Walks, WalkType, CatalogTypeOK

\* Emitting an event: only a purge does.
LEMMA EmitOne ==
  ASSUME CatalogTypeOK, NEW r \in Attempt, NEW t \in {"success", "refused"}, Emit(r, t)
  PROVE  /\ events' \in [Attempt -> Seq({"success", "refused"})]
         /\ \A m \in Attempt \ {r} : events'[m] = events[m]
         /\ r \in Play => events'[r] = events[r]
         /\ r \in Purge => /\ Len(events'[r]) = Len(events[r]) + 1
                           /\ events'[r] = Append(events[r], t)
<1> DEFINE D == {"success", "refused"}
<1>1. events \in [Attempt -> Seq(D)] /\ t \in D
  BY DEF CatalogTypeOK
<1> HIDE DEF D
<1>2. CASE r \in Purge
  <2>1. events' = [events EXCEPT ![r] = Append(@, t)]
    BY <1>2 DEF Emit
  <2>2. Append(events[r], t) \in Seq(D) /\ Len(Append(events[r], t)) = Len(events[r]) + 1
    BY <1>1
  <2>3. QED
    BY <1>1, <1>2, <2>1, <2>2 DEF D
<1>3. CASE r \notin Purge
  BY <1>1, <1>3 DEF Emit, D
<1>4. QED
  BY <1>2, <1>3

\* Failing.
LEMMA RaiseWalks ==
  ASSUME CatalogTypeOK, NEW r \in Attempt, Raise(r)
  PROVE  Walks(r) /\ pc'[r] \in {"rescue", "done", "always"}
<1>1. events' \in [Attempt -> Seq({"success", "refused"})]
      /\ \A m \in Attempt \ {r} : events'[m] = events[m]
  BY EmitOne DEF Raise, CatalogTypeOK
<1>2. PICK l \in {"rescue", "done", "always"} : Goto(r, l)
  BY DEF Raise
<1>3. l \in CatalogLabel
  BY DEF CatalogLabel
<1>4. QED
  BY <1>1, <1>2, <1>3, GotoWalks DEF Walks, WalkType

\* Going on, or failing because the answer was lost.
LEMMA AnsweredWalks ==
  ASSUME CatalogTypeOK, NEW r \in Attempt, NEW l \in CatalogLabel, Answered(r, l)
  PROVE  Walks(r) /\ hurt' \subseteq Attempt
<1>1. CASE Goto(r, l) /\ UNCHANGED <<events, hurt>>
  BY <1>1, SilentWalks DEF CatalogTypeOK
<1>2. CASE Raise(r) /\ hurt' = hurt \cup {r}
  BY <1>2, RaiseWalks DEF CatalogTypeOK
<1>3. QED
  BY <1>1, <1>2 DEF Answered

\* The release.
LEMMA ReleaseWalks ==
  ASSUME CatalogTypeOK, NEW r \in Attempt, NEW l \in CatalogLabel, ReleaseLock(r, l)
  PROVE  Walks(r) /\ hurt' \subseteq Attempt /\ owner' \in Attempt \cup {NoOne} /\ aged' = aged
<1>1. CASE Release(r) /\ Answered(r, l)
  BY <1>1, AnsweredWalks DEF Release, CatalogTypeOK, LeaseTypeOK
<1>2. CASE UNCHANGED leaseCatalogVars /\ Goto(r, l) /\ UNCHANGED <<events, hurt>>
  BY <1>2, SilentWalks DEF leaseCatalogVars, CatalogTypeOK, LeaseTypeOK
<1>3. CASE UNCHANGED leaseCatalogVars /\ Raise(r) /\ UNCHANGED hurt
  BY <1>3, RaiseWalks DEF leaseCatalogVars, CatalogTypeOK, LeaseTypeOK
<1>4. QED
  BY <1>1, <1>2, <1>3 DEF ReleaseLock

\* The facts stay; the records stay.
LEMMA FactsStay == ASSUME CatalogTypeOK, NEW r, UNCHANGED <<facts, purgeFacts>> PROVE Learns(r)
  BY TypeParts DEF Learns, SameFacts, FactType, facts, purgeFacts

LEMMA RecordsStay ==
  ASSUME CatalogTypeOK, NEW r, UNCHANGED <<netbox, moved>>
  PROVE  Writes(r) /\ \A m \in Attempt : Undisturbed(m)
  BY TypeParts DEF Writes, Undisturbed, NetType, netbox

\* Another record among those others have changed.
LEMMA MovesAdds ==
  ASSUME CatalogTypeOK, NEW r \in Attempt, NEW X \in SUBSET Service, Moves(r, X)
  PROVE  /\ moved' \in [Attempt -> SUBSET Service] /\ moved'[r] = moved[r]
         /\ \A m \in Attempt \ {r} : moved'[m] = moved[m] \cup X
  BY DEF Moves, CatalogTypeOK

\* What a run reads, it knows.
LEMMA FreshForgets ==
  ASSUME CatalogTypeOK, NEW r \in Attempt, NEW X \in SUBSET Service, Fresh(r, X), UNCHANGED netbox
  PROVE  Writes(r) /\ moved'[r] = moved[r] \ X
  BY TypeParts DEF Fresh, Writes, NetType, Undisturbed, netbox

\* A step of one run keeps every type, and concerns that run only.
LEMMA ActType ==
  ASSUME CatalogTypeOK, NEW r \in Attempt, Act(r)
  PROVE  CatalogTypeOK' /\ Frame(r)
<1> USE DEF Frame
<1> DEFINE Rest == /\ owner' \in Attempt \cup {NoOne} /\ aged' \subseteq Attempt
                   /\ baseline' \in BOOLEAN /\ edits' \in 0..MaxEdits /\ hurt' \subseteq Attempt
<1>1. ASSUME Walks(r), Learns(r), Writes(r), Rest PROVE CatalogTypeOK' /\ Frame(r)
  <2>1. NetType' /\ FactType' /\ WalkType' /\ RestType'
    BY <1>1 DEF Walks, Learns, Writes, RestType
  <2>2. QED
    BY <1>1, <2>1 DEF CatalogTypeOK, LeaseTypeOK, NetType, FactType, WalkType, RestType
<1>2. ASSUME UNCHANGED <<leaseCatalogVars, baseline, edits>>, hurt' \subseteq Attempt PROVE Rest
  BY <1>2, TypeParts DEF RestType, leaseCatalogVars
<1>3. UNCHANGED hurt => hurt' \subseteq Attempt
  BY TypeParts DEF RestType
<1> HIDE DEF Rest
<1>4. ASSUME Walks(r), UNCHANGED <<netbox, moved, facts, purgeFacts>>, Rest
      PROVE  CatalogTypeOK' /\ Frame(r)
  BY <1>1, <1>4, FactsStay, RecordsStay
<1>5. ASSUME NEW l \in CatalogLabel, Goto(r, l), UNCHANGED events PROVE Walks(r)
  BY <1>5, SilentWalks
<1>6. ASSUME Raise(r) PROVE Walks(r)
  BY <1>6, RaiseWalks
<1>7. ASSUME NEW l \in CatalogLabel, Answered(r, l) PROVE Walks(r) /\ hurt' \subseteq Attempt
  BY <1>7, AnsweredWalks
<1>8. ASSUME NEW t \in {"success", "refused"}, NEW l \in CatalogLabel, Goto(r, l), Emit(r, t)
      PROVE  Walks(r)
  <2>1. /\ pc' \in [Attempt -> CatalogLabel] /\ believers' \subseteq Attempt
        /\ \A m \in Attempt \ {r} : pc'[m] = pc[m] /\ (m \in believers' <=> m \in believers)
    BY <1>8, GotoWalks
  <2>2. /\ events' \in [Attempt -> Seq({"success", "refused"})]
        /\ \A m \in Attempt \ {r} : events'[m] = events[m]
    BY <1>8, EmitOne
  <2>3. QED
    BY <2>1, <2>2 DEF Walks, WalkType
<1>9. {"members", "sweep", "ensure", "lookup", "guard", "tag-guard", "delete", "missing",
       "readback", "final-services", "tag-lookup", "tag-delete", "final-tag", "release", "always",
       "done", "lock", "ensure-create", "ensure-recheck", "patch", "create", "confirm", "killed",
       "verify", "contract", "rescue"} \subseteq CatalogLabel
  BY DEF CatalogLabel, Body, Purging, Staging
<1>10. CASE Start(r)
  <2>1. Walks(r)
    BY <1>10, <1>5, <1>8, <1>9 DEF Start
  <2>2. Learns(r)
    <3>1. /\ expected' \in [Attempt -> SUBSET Service]
          /\ \A m \in Attempt \ {r} : expected'[m] = expected[m]
      <4>1. CASE \E X \in SUBSET (Service \ unborn) : expected' = [expected EXCEPT ![r] = X]
        BY <4>1, TypeParts DEF FactType
      <4>2. CASE UNCHANGED expected
        BY <4>2, TypeParts DEF FactType
      <4>3. QED
        BY <1>10, <4>1, <4>2 DEF Start
    <3>2. /\ stage' \in [Attempt -> {"provision", "configure", "finalise"}]
          /\ \A m \in Attempt \ {r} : stage'[m] = stage[m]
      <4>1. CASE stage' = [stage EXCEPT ![r] = "finalise"]
        BY <4>1, TypeParts DEF FactType
      <4>2. CASE UNCHANGED stage
        BY <4>2, TypeParts DEF FactType
      <4>3. QED
        BY <1>10, <4>1, <4>2 DEF Start
    <3>3. /\ slug' \in [Attempt -> Group \cup {"none"}]
          /\ \A m \in Attempt \ {r} : slug'[m] = slug[m]
      <4>1. CASE \E g \in Group \cup {"none"} : slug' = [slug EXCEPT ![r] = g]
        BY <4>1, TypeParts DEF FactType
      <4>2. CASE UNCHANGED slug
        BY <4>2, TypeParts DEF FactType
      <4>3. QED
        BY <1>10, <4>1, <4>2 DEF Start
    <3>4. UNCHANGED <<id, read, found, todo, amiss, dirty, tagSeen>>
      BY <1>10 DEF Start
    <3>5. QED
      BY <3>1, <3>2, <3>3, <3>4, TypeParts DEF Learns, FactType, SameFacts
  <2>3. Writes(r)
    BY <1>10, RecordsStay DEF Start
  <2>4. Rest
    BY <1>10, <1>2, <1>3 DEF Start
  <2>5. QED
    BY <1>1, <2>1, <2>2, <2>3, <2>4
<1>11. CASE Acquire(r)
  <2>1. CASE Grant(r) /\ pc' = [pc EXCEPT ![r] = "verify"] /\ UNCHANGED events
    <3>1. Walks(r) /\ Rest
      BY <1>9, <1>11, <2>1, TypeParts DEF Acquire, Grant, Walks, WalkType, RestType, Rest
    <3>2. QED
      BY <1>4, <1>11, <3>1 DEF Acquire
  <2>2. CASE Evict /\ UNCHANGED <<pc, events>>
    <3>1. Walks(r) /\ Rest
      BY <1>11, <2>2, TypeParts DEF Acquire, Evict, Walks, WalkType, RestType, Rest
    <3>2. QED
      BY <1>4, <1>11, <3>1 DEF Acquire
  <2>3. CASE Raise(r) /\ UNCHANGED leaseCatalogVars
    BY <1>2, <1>3, <1>4, <1>6, <1>11, <2>3 DEF Acquire
  <2>4. QED
    BY <1>11, <2>1, <2>2, <2>3 DEF Acquire
<1>12. CASE Verify(r)
  <2>1. CASE Confirm(r) /\ pc' = [pc EXCEPT ![r] = IF r \in Purge THEN "contract" ELSE "guard"]
             /\ UNCHANGED events
    <3>1. pc' \in [Attempt -> CatalogLabel] /\ \A m \in Attempt \ {r} : pc'[m] = pc[m]
      <4>1. PICK l \in {"contract", "guard"} : pc' = [pc EXCEPT ![r] = l]
        BY <2>1
      <4>2. QED
        BY <1>9, <4>1, TypeParts DEF WalkType
    <3>2. Walks(r) /\ Rest
      BY <1>12, <2>1, <3>1, TypeParts DEF Verify, Confirm, Walks, WalkType, RestType, Rest
    <3>3. QED
      BY <1>4, <1>12, <3>2 DEF Verify
  <2>2. CASE Raise(r) /\ UNCHANGED leaseCatalogVars
    BY <1>2, <1>3, <1>4, <1>6, <1>12, <2>2 DEF Verify
  <2>3. QED
    BY <1>12, <2>1, <2>2 DEF Verify
<1>13. ASSUME NEW l \in CatalogLabel, Checkpoint(r, l) PROVE CatalogTypeOK' /\ Frame(r)
  BY <1>2, <1>3, <1>4, <1>5, <1>6, <1>13 DEF Checkpoint
<1>14. CASE Guard(r) \/ TagGuard(r)
  <2>1. PICK l \in {"sweep", "ensure", "lookup", "tag-lookup"} : Checkpoint(r, l)
    BY <1>14 DEF Guard, TagGuard
  <2>2. QED
    BY <1>9, <1>13, <2>1
<1>15. CASE Contract(r)
  BY <1>2, <1>3, <1>4, <1>5, <1>6, <1>9, <1>15 DEF Contract
<1>16. CASE Sweep(r)
  <2>1. Walks(r) /\ Rest
    BY <1>7, <1>9, <1>16, TypeParts DEF Sweep, Rest, RestType, leaseCatalogVars
  <2>2. QED
    BY <1>4, <1>16, <2>1 DEF Sweep
<1>17. ASSUME NEW bad \in BOOLEAN, NEW M \in SUBSET Service, AfterChecks(r, bad, M)
       PROVE  /\ Walks(r)
              /\ todo' \in [Attempt -> SUBSET Service]
              /\ \A m \in Attempt \ {r} : todo'[m] = todo[m]
  <2>1. CASE Raise(r) /\ UNCHANGED todo
    BY <2>1, <1>6, TypeParts DEF FactType
  <2>2. CASE /\ todo' = [todo EXCEPT ![r] = M] /\ UNCHANGED events
             /\ Goto(r, IF M = {} THEN "tag-guard" ELSE "delete")
    <3>1. Walks(r)
      BY <2>2, <1>5, <1>9
    <3>2. QED
      BY <2>2, <3>1, TypeParts DEF FactType
  <2>3. QED
    BY <1>17, <2>1, <2>2 DEF AfterChecks
<1>18. Members \in SUBSET Service
  BY TypeParts DEF Members, NetType
<1>19. CASE ReadMembers(r)
  <2> DEFINE bad == Violations(r) # {}
             missing == expected[r] \ Members
  <2>1. /\ Walks(r) /\ todo' \in [Attempt -> SUBSET Service]
        /\ \A m \in Attempt \ {r} : todo'[m] = todo[m]
    <3>1. CASE missing = {}
      BY <1>17, <1>18, <1>19, <3>1 DEF ReadMembers
    <3>2. CASE missing # {}
      <4>1. todo' = [todo EXCEPT ![r] = missing] /\ Goto(r, "missing") /\ UNCHANGED events
        BY <1>19, <3>2 DEF ReadMembers
      <4>2. missing \in SUBSET Service
        BY TypeParts DEF FactType
      <4>3. QED
        BY <1>5, <1>9, <4>1, <4>2, TypeParts DEF FactType
    <3>3. QED
      BY <3>1, <3>2
  <2>2. /\ found' \in [Attempt -> SUBSET Service] /\ \A m \in Attempt \ {r} : found'[m] = found[m]
        /\ amiss' \in [Attempt -> BOOLEAN] /\ \A m \in Attempt \ {r} : amiss'[m] = amiss[m]
    <3>1. found' = [found EXCEPT ![r] = Members] /\ amiss' = [amiss EXCEPT ![r] = bad]
      BY <1>19 DEF ReadMembers
    <3>2. QED
      BY <1>18, <3>1, TypeParts DEF FactType
  <2>3. Learns(r)
    BY <1>19, <2>1, <2>2, TypeParts DEF ReadMembers, Learns, FactType, SameFacts, facts
  <2>4. Writes(r)
    BY <1>19, FreshForgets DEF ReadMembers
  <2>5. QED
    BY <1>1, <1>2, <1>3, <1>19, <2>1, <2>3, <2>4 DEF ReadMembers
<1>20. CASE CheckMissing(r)
  <2>1. PICK x \in todo[r], live \in BOOLEAN :
          /\ amiss' = [amiss EXCEPT ![r] = @ \/ live]
          /\ hurt' \in {hurt, hurt \cup {r}}
          /\ \/ todo[r] = {x} /\ AfterChecks(r, amiss[r] \/ live, found[r])
             \/ todo' = [todo EXCEPT ![r] = @ \ {x}] /\ UNCHANGED <<pc, believers, events>>
    BY <1>20 DEF CheckMissing, StillLive
  <2>2. /\ Walks(r) /\ todo' \in [Attempt -> SUBSET Service]
        /\ \A m \in Attempt \ {r} : todo'[m] = todo[m]
    <3>1. CASE AfterChecks(r, amiss[r] \/ live, found[r])
      <4>1. (amiss[r] \/ live) \in BOOLEAN /\ found[r] \in SUBSET Service
        BY TypeParts DEF FactType
      <4>2. QED
        BY <1>17, <3>1, <4>1
    <3>2. CASE todo' = [todo EXCEPT ![r] = @ \ {x}] /\ UNCHANGED <<pc, believers, events>>
      BY <3>2, TypeParts DEF FactType, Walks, WalkType
    <3>3. QED
      BY <2>1, <3>1, <3>2
  <2>3. amiss' \in [Attempt -> BOOLEAN] /\ \A m \in Attempt \ {r} : amiss'[m] = amiss[m]
    BY <2>1, TypeParts DEF FactType
  <2>4. Learns(r)
    BY <1>20, <2>2, <2>3, TypeParts DEF CheckMissing, Learns, FactType, SameFacts, facts
  <2>5. Writes(r)
    BY <1>20, RecordsStay DEF CheckMissing
  <2>6. hurt' \subseteq Attempt
    BY <2>1, TypeParts DEF RestType
  <2>7. QED
    BY <1>1, <1>2, <1>20, <2>2, <2>4, <2>5, <2>6 DEF CheckMissing
<1>21. ASSUME NEW x \in Service, id' = [id EXCEPT ![r] = x],
              UNCHANGED <<stage, slug, read, purgeFacts>>
       PROVE  Learns(r)
  BY <1>21, TypeParts DEF Learns, FactType, SameFacts, purgeFacts
<1>22. CASE Delete(r)
  <2>1. PICK x \in todo[r] :
          /\ id' = [id EXCEPT ![r] = x]
          /\ \/ /\ exist' = exist \ {x} /\ tags' = [tags EXCEPT ![x] = {}]
                /\ Moves(r, {x} \cap exist) /\ UNCHANGED hurt
             \/ hurt' = hurt \cup {r} /\ UNCHANGED <<exist, tags, moved>>
    BY <1>22 DEF Delete
  <2>2. x \in Service
    BY TypeParts DEF FactType
  <2>3. Writes(r) /\ hurt' \subseteq Attempt
    <3>1. CASE UNCHANGED <<exist, tags, moved>> /\ hurt' = hurt \cup {r}
      BY <1>22, <3>1, RecordsStay, TypeParts DEF Delete, RestType, netbox
    <3>2. CASE /\ exist' = exist \ {x} /\ tags' = [tags EXCEPT ![x] = {}]
               /\ Moves(r, {x} \cap exist) /\ UNCHANGED hurt
      <4>1. /\ moved' \in [Attempt -> SUBSET Service]
            /\ \A m \in Attempt \ {r} : moved'[m] = moved[m] \cup ({x} \cap exist)
        <5>1. {x} \cap exist \in SUBSET Service
          BY <2>2
        <5>2. QED
          BY <3>2, <5>1, MovesAdds
      <4>2. tags' \in [Service -> SUBSET Tag] /\ \A y \in Service \ {x} : tags'[y] = tags[y]
        BY <2>2, <3>2, TypeParts DEF NetType
      <4>3. UNCHANGED <<unborn, tagObj, nextTag>>
        BY <1>22 DEF Delete
      <4>4. NetType'
        BY <3>2, <4>1, <4>2, <4>3, TypeParts DEF NetType
      <4>5. \A m \in Attempt \ {r} : Undisturbed(m)
        BY <3>2, <4>1, <4>2 DEF Undisturbed
      <4>6. QED
        BY <3>2, <4>4, <4>5, <1>3 DEF Writes
    <3>3. QED
      BY <2>1, <3>1, <3>2
  <2>4. Learns(r)
    BY <1>21, <1>22, <2>1, <2>2 DEF Delete
  <2>5. Walks(r)
    BY <1>5, <1>9, <1>22 DEF Delete
  <2>6. QED
    BY <1>1, <1>2, <1>22, <2>3, <2>4, <2>5 DEF Delete
<1>23. CASE Readback(r)
  <2>1. PICK there \in BOOLEAN :
          /\ dirty' = [dirty EXCEPT ![r] = @ \/ there]
          /\ hurt' \in {hurt, hurt \cup {r}}
          /\ todo' = [todo EXCEPT ![r] = @ \ {id[r]}]
          /\ \E l \in {"final-services", "tag-guard", "delete"} : Goto(r, l)
    BY <1>23 DEF Readback, AfterMembers
  <2>2. Learns(r)
    BY <1>23, <2>1, TypeParts DEF Readback, Learns, FactType, SameFacts, facts
  <2>3. Walks(r) /\ hurt' \subseteq Attempt
    BY <1>5, <1>9, <1>23, <2>1, TypeParts DEF Readback, RestType
  <2>4. QED
    BY <1>1, <1>2, <1>23, <2>2, <2>3, RecordsStay DEF Readback
<1>24. CASE TagLookup(r)
  <2>1. Learns(r)
    BY <1>24, TypeParts DEF TagLookup, Learns, FactType, NetType, SameFacts, facts
  <2>2. QED
    BY <1>1, <1>2, <1>3, <1>5, <1>9, <1>24, <2>1, RecordsStay DEF TagLookup
<1>25. CASE FinalServices(r)
  <2>1. amiss' \in [Attempt -> BOOLEAN] /\ \A m \in Attempt \ {r} : amiss'[m] = amiss[m]
    BY <1>25, TypeParts DEF FinalServices, FactType
  <2>2. Learns(r)
    BY <1>25, <2>1, TypeParts DEF FinalServices, Learns, FactType, SameFacts, facts
  <2>3. QED
    BY <1>1, <1>2, <1>3, <1>5, <1>9, <1>25, <2>2, RecordsStay DEF FinalServices
<1>26. CASE TagDelete(r)
  <2>1. Writes(r) /\ hurt' \subseteq Attempt
    <3>1. CASE UNCHANGED <<tagObj, tags, moved>> /\ hurt' \in {hurt, hurt \cup {r}}
      BY <1>26, <3>1, RecordsStay, TypeParts DEF TagDelete, RestType, netbox
    <3>2. CASE /\ tagObj' = 0 /\ tags' = [x \in Service |-> tags[x] \ {"workload"}] /\ tagObj # 0
               /\ Moves(r, Members) /\ UNCHANGED hurt
      <4>1. /\ moved' \in [Attempt -> SUBSET Service]
            /\ \A m \in Attempt \ {r} : moved'[m] = moved[m] \cup Members
        BY <1>18, <3>2, MovesAdds
      <4>2. tags' \in [Service -> SUBSET Tag]
            /\ \A y \in Service : "workload" \notin tags[y] => tags'[y] = tags[y]
        BY <3>2, TypeParts DEF NetType
      <4>3. UNCHANGED <<exist, unborn, nextTag>>
        BY <1>26 DEF TagDelete
      <4>4. NetType'
        BY <3>2, <4>1, <4>2, <4>3, TypeParts DEF NetType
      <4>5. \A m \in Attempt \ {r} : Undisturbed(m)
        BY <4>1, <4>2, <4>3 DEF Undisturbed, Members
      <4>6. QED
        BY <3>2, <4>4, <4>5, <1>3 DEF Writes
    <3>3. QED
      BY <1>26, <3>1, <3>2 DEF TagDelete
  <2>2. QED
    BY <1>1, <1>2, <1>5, <1>9, <1>26, <2>1, FactsStay DEF TagDelete
<1>27. CASE FinalTag(r) \/ Ensure(r) \/ EnsureRecheck(r)
  BY <1>2, <1>3, <1>4, <1>5, <1>6, <1>9, <1>27 DEF FinalTag, Ensure, EnsureRecheck
<1>28. CASE Succeed(r)
  <2>1. CASE /\ Release(r) \/ (owner # r /\ UNCHANGED leaseCatalogVars)
             /\ Goto(r, "always") /\ Emit(r, "success") /\ UNCHANGED hurt
    <3>1. Walks(r) /\ Rest
      BY <1>8, <1>9, <1>28, <2>1, TypeParts DEF Succeed, Release, Rest, RestType, leaseCatalogVars
    <3>2. QED
      BY <1>4, <1>28, <3>1 DEF Succeed
  <2>2. CASE /\ Release(r) \/ UNCHANGED leaseCatalogVars
             /\ Raise(r) /\ hurt' \in {hurt, hurt \cup {r}}
    <3>1. Walks(r) /\ Rest
      BY <1>6, <1>28, <2>2, TypeParts DEF Succeed, Release, Rest, RestType, leaseCatalogVars
    <3>2. QED
      BY <1>4, <1>28, <3>1 DEF Succeed
  <2>3. QED
    BY <1>28, <2>1, <2>2 DEF Succeed
<1>29. CASE Rescue(r) \/ Always(r)
  <2>1. PICK l \in {"always", "done"} : ReleaseLock(r, l)
    BY <1>29 DEF Rescue, Always
  <2>2. Walks(r) /\ hurt' \subseteq Attempt /\ owner' \in Attempt \cup {NoOne} /\ aged' = aged
    BY <1>9, <2>1, ReleaseWalks
  <2>3. Rest
    BY <2>1, <2>2, TypeParts DEF ReleaseLock, Rest, RestType
  <2>4. QED
    BY <1>4, <2>1, <2>2, <2>3 DEF ReleaseLock
<1>30. CASE EnsureCreate(r)
  <2>1. Walks(r) /\ hurt' \subseteq Attempt
    BY <1>3, <1>5, <1>7, <1>9, <1>30 DEF EnsureCreate
  <2>2. Writes(r)
    BY <1>30, TypeParts DEF EnsureCreate, Writes, NetType, Undisturbed
  <2>3. QED
    BY <1>1, <1>2, <1>30, <2>1, <2>2, FactsStay DEF EnsureCreate
<1>31. CASE Lookup(r)
  <2>1. CASE /\ Own \cap exist = {} /\ read' = [read EXCEPT ![r] = {}] /\ UNCHANGED <<id, moved>>
             /\ (Goto(r, "create") /\ UNCHANGED events) \/ Raise(r)
    <3>1. Walks(r)
      BY <1>5, <1>6, <1>9, <2>1
    <3>2. Learns(r)
      BY <1>31, <2>1, TypeParts DEF Lookup, Learns, FactType, SameFacts, purgeFacts
    <3>3. QED
      BY <1>1, <1>2, <1>3, <1>31, <2>1, <3>1, <3>2, RecordsStay DEF Lookup
  <2>2. ASSUME NEW x \in Own \cap exist, id' = [id EXCEPT ![r] = x],
               read' = [read EXCEPT ![r] = tags[x]],
               UNCHANGED moved \/ Fresh(r, {x}), Goto(r, "patch"), UNCHANGED events
        PROVE  CatalogTypeOK' /\ Frame(r)
    <3>1. tags[x] \in SUBSET Tag /\ x \in Service
      BY TypeParts DEF NetType
    <3>2. Learns(r)
      BY <1>31, <2>2, <3>1, TypeParts DEF Lookup, Learns, FactType, SameFacts, purgeFacts
    <3>3. Writes(r)
      BY <1>31, <2>2, <3>1, FreshForgets, RecordsStay DEF Lookup
    <3>4. QED
      BY <1>1, <1>2, <1>3, <1>5, <1>9, <1>31, <2>2, <3>2, <3>3 DEF Lookup
  <2>3. QED
    BY <1>31, <2>1, <2>2 DEF Lookup
<1>32. {"bootstrapped"} \cup WorkloadTags(r) \in SUBSET Tag
  BY TypeParts DEF WorkloadTags, FactType, Tag, Lifecycle, Group
<1>33. ASSUME NEW x \in Service, NEW T \in SUBSET Tag, tags' = [tags EXCEPT ![x] = T],
              Moves(r, {x}), UNCHANGED <<tagObj, nextTag>>,
              \/ UNCHANGED <<exist, unborn>>
              \/ exist' = exist \cup {x} /\ unborn' = unborn \ {x}
       PROVE  Writes(r)
  <2>1. /\ moved' \in [Attempt -> SUBSET Service]
        /\ \A m \in Attempt \ {r} : moved'[m] = moved[m] \cup {x}
    <3>1. {x} \in SUBSET Service
      OBVIOUS
    <3>2. QED
      BY <1>33, <3>1, MovesAdds
  <2>2. tags' \in [Service -> SUBSET Tag] /\ \A y \in Service \ {x} : tags'[y] = tags[y]
    BY <1>33, TypeParts DEF NetType
  <2>3. NetType'
    BY <1>33, <2>1, <2>2, TypeParts DEF NetType
  <2>4. \A m \in Attempt \ {r} : Undisturbed(m)
    BY <1>33, <2>1, <2>2 DEF Undisturbed
  <2>5. QED
    BY <2>3, <2>4 DEF Writes
<1>34. CASE Create(r)
  <2> DEFINE T == {"bootstrapped"} \cup WorkloadTags(r)
  <2>1. CASE Raise(r) /\ UNCHANGED <<exist, unborn, tags, id, moved, hurt>>
    <3>1. UNCHANGED <<netbox, moved, facts, purgeFacts>>
      BY <1>34, <2>1 DEF Create, netbox, facts
    <3>2. QED
      BY <1>2, <1>3, <1>4, <1>6, <1>34, <2>1, <3>1 DEF Create
  <2>2. ASSUME NEW x \in Own \cap unborn, exist' = exist \cup {x}, unborn' = unborn \ {x},
               tags' = [tags EXCEPT ![x] = T], id' = [id EXCEPT ![r] = x], Moves(r, {x}),
               Answered(r, "patch")
        PROVE  CatalogTypeOK' /\ Frame(r)
    <3>1. Writes(r)
      BY <1>32, <1>33, <1>34, <2>2 DEF Create
    <3>2. Learns(r)
      BY <1>21, <1>34, <2>2 DEF Create
    <3>3. QED
      BY <1>1, <1>2, <1>7, <1>9, <1>34, <2>2, <3>1, <3>2 DEF Create
  <2>3. QED
    BY <1>34, <2>1, <2>2 DEF Create
<1>35. Merged(r, Desired(r)) \in SUBSET Tag
  <2>1. Desired(r) \in SUBSET Tag
    BY <1>32, TypeParts DEF Desired, FactType, Tag, Lifecycle
  <2>2. read[r] \in SUBSET Tag
    BY TypeParts DEF FactType
  <2>3. QED
    BY <2>1, <2>2 DEF Merged
<1>36. CASE Patch(r)
  <2> DEFINE T == Merged(r, Desired(r))
  <2>1. CASE Raise(r) /\ UNCHANGED <<tags, moved, hurt>>
    BY <1>2, <1>3, <1>4, <1>6, <1>36, <2>1 DEF Patch, netbox
  <2>2. CASE id[r] \in exist /\ tags' = [tags EXCEPT ![id[r]] = T] /\ Moves(r, {id[r]})
             /\ Answered(r, "confirm")
    <3>1. id[r] \in Service
      BY TypeParts DEF FactType
    <3>2. Writes(r)
      BY <1>33, <1>35, <1>36, <2>2, <3>1 DEF Patch
    <3>3. QED
      BY <1>1, <1>2, <1>7, <1>9, <1>36, <2>2, <3>2, FactsStay DEF Patch
  <2>3. QED
    BY <1>36, <2>1, <2>2 DEF Patch
<1>37. CASE ConfirmPatch(r)
  <2>1. Walks(r)
    BY <1>5, <1>6, <1>9, <1>37 DEF ConfirmPatch
  <2>2. stage' \in {stage, [stage EXCEPT ![r] = "configure"]}
    BY <1>37 DEF ConfirmPatch
  <2>3. Learns(r)
    BY <1>37, <2>2, TypeParts DEF ConfirmPatch, Learns, FactType, SameFacts, purgeFacts
  <2>4. QED
    BY <1>1, <1>2, <1>3, <1>37, <2>1, <2>3, RecordsStay DEF ConfirmPatch
<1>38. CASE CallFails(r)
  <2>1. hurt' \subseteq Attempt
    BY <1>38, TypeParts DEF CallFails, RestType
  <2>2. QED
    BY <1>2, <1>4, <1>6, <1>38, <2>1 DEF CallFails
<1>39. CASE Kill(r)
  BY <1>2, <1>3, <1>4, <1>5, <1>9, <1>39 DEF Kill
<1>40. QED
  BY <1>10, <1>11, <1>12, <1>14, <1>15, <1>16, <1>19, <1>20, <1>22, <1>23, <1>24, <1>25, <1>26,
     <1>27, <1>28, <1>29, <1>30, <1>31, <1>34, <1>36, <1>37, <1>38, <1>39 DEF Act, Run

-----------------------------------------------------------------------------
(***************************************************************************)
(* Where a run is, and what it has emitted.                                *)
(***************************************************************************)

\* The first event.
LEMMA FirstEvent ==
  ASSUME CatalogTypeOK, NEW r \in Attempt, NEW t \in {"success", "refused"}, Emit(r, t),
         events[r] = <<>>
  PROVE  /\ r \in Play => events'[r] = <<>>
         /\ r \in Purge => events'[r] = <<t>> /\ Len(events'[r]) = 1
<1>1. CASE r \in Purge
  <2>1. events'[r] = Append(<<>>, t)
    BY <1>1, EmitOne
  <2>2. Append(<<>>, t) = <<t>> /\ Len(<<t>>) = 1
    OBVIOUS
  <2>3. r \notin Play
    BY <1>1
  <2>4. QED
    BY <2>1, <2>2, <2>3
<1>2. CASE r \notin Purge
  BY <1>2, EmitOne
<1>3. QED
  BY <1>1, <1>2

LEMMA OneIsFew == \A n : n = 1 => n <= 1
  OBVIOUS

\* A run that fails says so, and only once.
LEMMA RaiseLocal ==
  ASSUME CatalogTypeOK, NEW r \in Attempt, Local(r), Raise(r), UNCHANGED stage,
         pc[r] \in Silent \cup {"rescue", "always"}
  PROVE  Local(r)' /\ (Said(r, "success")' => Said(r, "success"))
<1>1. pc'[r] \in {"rescue", "done", "always"}
  BY RaiseWalks
<1>2. CASE pc[r] \in Silent
  <2>1. Emit(r, "refused") /\ pc'[r] \in {"rescue", "done"}
    BY <1>2, GotoWalks DEF Raise, Silent, Body, Purging, Staging, CatalogLabel
  <2>2. events[r] = <<>>
    BY <1>2 DEF Local, EventsOK
  <2>3. /\ r \in Play => events'[r] = <<>>
        /\ r \in Purge => events'[r] = <<"refused">> /\ Len(events'[r]) = 1
    BY <2>1, <2>2, FirstEvent
  <2>4. EventsOK(r)'
    <3>1. (pc[r] \notin Silent)'
      BY <2>1 DEF Silent, Body, Purging, Staging
    <3>2. r \in Purge => Len(events'[r]) = 1
      BY <2>3
    <3>3. QED
      BY <2>3, <3>1, <3>2, OneIsFew DEF EventsOK
  <2>5. ~Said(r, "success")'
    <3>1. CASE r \in Purge
      BY <2>3, <3>1 DEF Said
    <3>2. CASE r \in Play
      BY <2>3, <3>2 DEF Said
    <3>3. QED
      BY <3>1, <3>2
  <2>6. QED
    BY <2>1, <2>4, <2>5 DEF Local, Ensuring, Body, Purging, Staging
<1>3. CASE pc[r] \in {"rescue", "always"}
  <2>1. UNCHANGED events /\ pc'[r] \in {"done", "always"}
    BY <1>3, GotoWalks DEF Raise, CatalogLabel
  <2>2. QED
    BY <1>3, <2>1 DEF Local, EventsOK, Said, Silent, Spoken, Ensuring, Body, Purging, Staging
<1>4. QED
  BY <1>2, <1>3

\* A run that goes on, says nothing.
LEMMA SilentLocal ==
  ASSUME CatalogTypeOK, NEW r \in Attempt, Local(r), pc[r] \in Silent, NEW l \in Silent,
         Goto(r, l), UNCHANGED events,
         l \in Purging => r \in Purge, l \in Staging => r \in Play,
         l \in Body => pc[r] \in Body,
         l \in Ensuring \cup {"idle", "lock", "verify", "create"} => stage'[r] # "configure",
         l = "create" => stage'[r] = "provision"
  PROVE  Local(r)'
<1>1. l \in CatalogLabel
  BY DEF Silent, CatalogLabel
<1>2. pc'[r] = l /\ events'[r] = <<>>
  BY <1>1, SilentWalks DEF Local, EventsOK
<1>3. l \in Body => r \in believers'
  BY <1>1, GotoWalks DEF Local
<1>4. EventsOK(r)'
  <2>1. l \notin Spoken
    BY DEF Silent, Spoken, Body, Purging, Staging
  <2>2. QED
    BY <1>2, <2>1 DEF EventsOK
<1>5. QED
  BY <1>2, <1>3, <1>4 DEF Local

\* A run that says nothing more: it is over, or killed.
LEMMA MuteLocal ==
  ASSUME CatalogTypeOK, NEW r \in Attempt, Local(r), UNCHANGED events,
         \/ Goto(r, "killed")
         \/ pc[r] \in {"rescue", "always"} /\ \E l \in {"always", "done"} : Goto(r, l)
  PROVE  Local(r)'
<1>1. PICK l \in {"killed", "always", "done"} :
        Goto(r, l) /\ (l # "killed" => pc[r] \in {"rescue", "always"})
  OBVIOUS
<1>2. pc'[r] = l /\ events'[r] = events[r]
  BY <1>1, SilentWalks DEF CatalogLabel
<1>3. QED
  BY <1>1, <1>2 DEF Local, EventsOK, Silent, Spoken, Ensuring, Body, Purging, Staging

\* A run that ends with its event.
LEMMA SpokenLocal ==
  ASSUME CatalogTypeOK, NEW r \in Attempt, Local(r), pc[r] \in Silent,
         NEW t \in {"success", "refused"}, Emit(r, t), NEW l \in Spoken, Goto(r, l)
  PROVE  Local(r)'
<1>1. pc'[r] = l
  BY GotoWalks DEF Spoken, CatalogLabel
<1>2. events[r] = <<>>
  BY DEF Local, EventsOK
<1>3. /\ r \in Play => events'[r] = <<>>
      /\ r \in Purge => Len(events'[r]) = 1
  BY <1>2, FirstEvent
<1>4. (pc[r] \notin Silent)'
  BY <1>1 DEF Spoken, Silent, Body, Purging, Staging
<1>5. EventsOK(r)'
  BY <1>1, <1>3, <1>4, OneIsFew DEF EventsOK
<1>6. QED
  BY <1>1, <1>5 DEF Local, Spoken, Ensuring, Body, Purging, Staging

LEMMA AnsweredLocal ==
  ASSUME CatalogTypeOK, NEW r \in Attempt, Local(r), pc[r] \in Body, NEW l \in Silent,
         Answered(r, l), UNCHANGED stage,
         l \in Purging => r \in Purge, l \in Staging => r \in Play,
         l \in Ensuring \cup {"idle", "lock", "verify", "create"} => stage[r] # "configure",
         l = "create" => stage[r] = "provision"
  PROVE  Local(r)'
<1>1. CASE Goto(r, l) /\ UNCHANGED events
  BY <1>1, SilentLocal DEF Silent
<1>2. CASE Raise(r)
  BY <1>2, RaiseLocal DEF Silent
<1>3. QED
  BY <1>1, <1>2 DEF Answered

\* The others stay where they are.
LEMMA FrameLocal ==
  ASSUME NEW r \in Attempt, Walks(r), Learns(r), NEW m \in Attempt \ {r}, Local(m)
  PROVE  Local(m)'
  BY DEF Walks, Learns, SameFacts, Local, EventsOK

\* A step of a run keeps its own part of the invariant.
LEMMA LocalStep ==
  ASSUME CatalogTypeOK, NEW r \in Attempt, Local(r), Act(r)
  PROVE  Local(r)' /\ (Said(r, "success")' => Said(r, "success") \/ pc[r] = "release")
<1> DEFINE Out == Local(r)' /\ (Said(r, "success")' => Said(r, "success") \/ pc[r] = "release")
<1> USE DEF Silent, Ensuring, Body, Purging, Staging
<1>1. UNCHANGED events /\ Local(r)' => Out
  BY DEF Said
<1>2. ASSUME Raise(r), UNCHANGED stage, pc[r] \in Silent \cup {"rescue", "always"} PROVE Out
  BY <1>2, RaiseLocal
<1> DEFINE Fits(l) == /\ l \in Purging => r \in Purge
                      /\ l \in Staging => r \in Play
                      /\ l \in Body => pc[r] \in Body
                      /\ l \in Ensuring \cup {"idle", "lock", "verify", "create"}
                           => stage'[r] # "configure"
                      /\ l = "create" => stage'[r] = "provision"
<1>3. ASSUME NEW l \in Silent, Goto(r, l), UNCHANGED events, pc[r] \in Silent, Fits(l) PROVE Out
  BY <1>1, <1>3, SilentLocal
<1>4. ASSUME NEW l \in Silent, Answered(r, l), pc[r] \in Silent, UNCHANGED stage, Fits(l)
      PROVE  Out
  <2>1. CASE Goto(r, l) /\ UNCHANGED events
    BY <1>3, <1>4, <2>1
  <2>2. CASE Raise(r)
    BY <1>2, <1>4, <2>2
  <2>3. QED
    BY <1>4, <2>1, <2>2 DEF Answered
<1>5. ASSUME UNCHANGED events,
             \/ Goto(r, "killed")
             \/ pc[r] \in {"rescue", "always"} /\ \E l \in {"always", "done"} : Goto(r, l)
      PROVE  Out
  BY <1>1, <1>5, MuteLocal
<1>6. CASE Start(r)
  <2>1. CASE Goto(r, "done") /\ Emit(r, "refused")
    <3>1. Local(r)'
      BY <1>6, <2>1, SpokenLocal DEF Start, Spoken
    <3>2. events[r] = <<>>
      BY <1>6 DEF Start, Local, EventsOK
    <3>3. ~Said(r, "success")'
      <4>1. CASE r \in Purge
        BY <2>1, <3>2, <4>1, FirstEvent DEF Said
      <4>2. CASE r \in Play
        BY <2>1, <3>2, <4>2, FirstEvent DEF Said
      <4>3. QED
        BY <4>1, <4>2
    <3>4. QED
      BY <3>1, <3>3
  <2>2. CASE Goto(r, "lock") /\ UNCHANGED events
    <3>1. stage'[r] # "configure"
      <4>1. CASE UNCHANGED stage
        BY <1>6, <4>1 DEF Start, Local
      <4>2. CASE stage' = [stage EXCEPT ![r] = "finalise"]
        BY <4>2 DEF CatalogTypeOK
      <4>3. QED
        BY <1>6, <4>1, <4>2 DEF Start
    <3>2. QED
      BY <1>3, <1>6, <2>2, <3>1 DEF Start
  <2>3. QED
    BY <1>6, <2>1, <2>2 DEF Start
<1>7. CASE Acquire(r)
  <2>1. CASE Grant(r) /\ pc' = [pc EXCEPT ![r] = "verify"] /\ UNCHANGED events
    <3>1. pc'[r] = "verify" /\ UNCHANGED <<events, stage>>
      BY <1>7, <2>1 DEF Acquire, facts, CatalogTypeOK
    <3>2. QED
      BY <1>1, <1>7, <3>1 DEF Acquire, Local, EventsOK, Spoken
  <2>2. CASE Evict /\ UNCHANGED <<pc, events>>
    BY <1>1, <1>7, <2>2 DEF Acquire, Evict, facts, Local, EventsOK, Spoken
  <2>3. CASE Raise(r)
    BY <1>2, <1>7, <2>3 DEF Acquire, facts
  <2>4. QED
    BY <1>7, <2>1, <2>2, <2>3 DEF Acquire
<1>8. CASE Verify(r)
  <2>1. CASE Confirm(r) /\ UNCHANGED events
             /\ pc' = [pc EXCEPT ![r] = IF r \in Purge THEN "contract" ELSE "guard"]
    <3>1. /\ pc'[r] \in {"contract", "guard"} /\ (pc'[r] = "contract" => r \in Purge)
          /\ r \in believers' /\ UNCHANGED <<events, stage>>
      BY <1>8, <2>1 DEF Verify, Confirm, facts, CatalogTypeOK
    <3>2. QED
      BY <1>1, <1>8, <3>1 DEF Verify, Local, EventsOK, Spoken
  <2>2. CASE Raise(r)
    BY <1>2, <1>8, <2>2 DEF Verify, facts
  <2>3. QED
    BY <1>8, <2>1, <2>2 DEF Verify
<1>9. ASSUME NEW l \in Body, Checkpoint(r, l), pc[r] \in Body, Fits(l) PROVE Out
  BY <1>2, <1>3, <1>9 DEF Checkpoint, facts
<1>10. CASE Guard(r)
  <2>1. PICK l \in {"sweep", "ensure", "lookup"} :
          /\ Checkpoint(r, l)
          /\ l = "sweep" => r \in Purge
          /\ l # "sweep" => r \in Play
          /\ l = "ensure" => stage[r] = "provision"
    BY <1>10 DEF Guard
  <2>2. UNCHANGED stage
    BY <2>1 DEF Checkpoint, facts
  <2>3. Fits(l)
    BY <1>10, <2>1, <2>2 DEF Guard
  <2>4. QED
    BY <1>9, <1>10, <2>1, <2>3 DEF Guard
<1>11. CASE TagGuard(r)
  BY <1>9, <1>11 DEF TagGuard, Local
<1>12. CASE Contract(r)
  BY <1>2, <1>3, <1>12 DEF Contract, Local, facts
<1>13. CASE Sweep(r)
  BY <1>4, <1>13 DEF Sweep, Local, facts
<1>14. ASSUME NEW bad, NEW M, AfterChecks(r, bad, M), pc[r] \in Purging, UNCHANGED stage PROVE Out
  <2>1. CASE Raise(r)
    BY <1>2, <1>14, <2>1
  <2>2. CASE \E l \in {"tag-guard", "delete"} : Goto(r, l) /\ UNCHANGED events
    BY <1>3, <1>14, <2>2 DEF Local
  <2>3. QED
    BY <1>14, <2>1, <2>2 DEF AfterChecks
<1>15. CASE ReadMembers(r)
  <2>1. CASE expected[r] \ Members = {}
    BY <1>14, <1>15, <2>1 DEF ReadMembers, facts
  <2>2. CASE expected[r] \ Members # {}
    BY <1>3, <1>15, <2>2 DEF ReadMembers, Local, facts
  <2>3. QED
    BY <2>1, <2>2
<1>16. CASE CheckMissing(r)
  <2>1. PICK x \in todo[r], live \in BOOLEAN :
          \/ AfterChecks(r, amiss[r] \/ live, found[r])
          \/ UNCHANGED <<pc, believers, events>>
    BY <1>16 DEF CheckMissing, StillLive
  <2>2. CASE AfterChecks(r, amiss[r] \/ live, found[r])
    BY <1>14, <1>16, <2>2 DEF CheckMissing, facts
  <2>3. CASE UNCHANGED <<pc, believers, events>>
    BY <1>1, <1>16, <2>3 DEF CheckMissing, facts, Local, EventsOK, Spoken
  <2>4. QED
    BY <2>1, <2>2, <2>3
<1>17. CASE Delete(r)
  BY <1>3, <1>17 DEF Delete, Local
<1>18. CASE Readback(r)
  <2>1. \E l \in {"final-services", "tag-guard", "delete"} : Goto(r, l)
    BY <1>18 DEF Readback, AfterMembers
  <2>2. QED
    BY <1>3, <1>18, <2>1 DEF Readback, Local
<1>19. CASE TagLookup(r) \/ FinalServices(r) \/ TagDelete(r)
  <2>1. PICK l \in {"tag-delete", "final-services", "final-tag"} : Goto(r, l) /\ UNCHANGED events
    BY <1>19 DEF TagLookup, FinalServices, TagDelete
  <2>2. QED
    BY <1>3, <1>19, <2>1 DEF TagLookup, FinalServices, TagDelete, Local
<1>20. CASE FinalTag(r)
  BY <1>2, <1>3, <1>20 DEF FinalTag, Local, facts
<1>21. CASE Succeed(r)
  <2>1. CASE Raise(r)
    BY <1>2, <1>21, <2>1 DEF Succeed, facts
  <2>2. CASE Goto(r, "always") /\ Emit(r, "success")
    BY <1>21, <2>2, SpokenLocal DEF Succeed, Spoken
  <2>3. QED
    BY <1>21, <2>1, <2>2 DEF Succeed
<1>22. CASE Rescue(r) \/ Always(r)
  <2>1. PICK l \in {"always", "done"} : ReleaseLock(r, l) /\ pc[r] \in {"rescue", "always"}
    BY <1>22 DEF Rescue, Always
  <2>2. UNCHANGED stage
    BY <2>1 DEF ReleaseLock, facts
  <2>3. CASE Raise(r)
    BY <1>2, <2>1, <2>2, <2>3
  <2>4. CASE Goto(r, l) /\ UNCHANGED events
    BY <1>5, <2>1, <2>4
  <2>5. QED
    BY <2>1, <2>3, <2>4 DEF ReleaseLock, Answered
<1>23. CASE Ensure(r)
  <2>1. PICK l \in {"ensure-create", "lookup"} : Goto(r, l) /\ UNCHANGED <<events, stage>>
    BY <1>23 DEF Ensure, facts
  <2>2. QED
    BY <1>3, <1>23, <2>1 DEF Ensure, Local
<1>24. CASE EnsureCreate(r)
  <2>1. UNCHANGED stage
    BY <1>24 DEF EnsureCreate, facts
  <2>2. QED
    BY <1>3, <1>4, <1>24, <2>1 DEF EnsureCreate, Local
<1>25. CASE EnsureRecheck(r)
  BY <1>2, <1>3, <1>25 DEF EnsureRecheck, Local, facts
<1>26. CASE Lookup(r)
  <2>1. UNCHANGED stage
    BY <1>26 DEF Lookup
  <2>2. CASE Goto(r, "patch") /\ UNCHANGED events
    BY <1>3, <1>26, <2>2 DEF Lookup, Local
  <2>3. CASE stage[r] = "provision" /\ Goto(r, "create") /\ UNCHANGED events
    BY <1>3, <1>26, <2>1, <2>3 DEF Lookup, Local
  <2>4. CASE Raise(r)
    BY <1>2, <1>26, <2>1, <2>4 DEF Lookup
  <2>5. QED
    BY <1>26, <2>2, <2>3, <2>4 DEF Lookup
<1>27. CASE Create(r)
  BY <1>2, <1>4, <1>27 DEF Create, Local
<1>28. CASE Patch(r)
  BY <1>2, <1>4, <1>28 DEF Patch, Local, facts
<1>29. CASE ConfirmPatch(r)
  <2>1. CASE Raise(r) /\ UNCHANGED stage
    BY <1>2, <1>29, <2>1 DEF ConfirmPatch
  <2>2. CASE \E l \in {"guard", "release"} : Goto(r, l) /\ UNCHANGED events
    BY <1>3, <1>29, <2>2 DEF ConfirmPatch, Local
  <2>3. QED
    BY <1>29, <2>1, <2>2 DEF ConfirmPatch
<1>30. CASE CallFails(r)
  <2>1. pc[r] \in Silent \cup {"rescue", "always"}
    BY <1>30 DEF CallFails, CatalogTypeOK, CatalogLabel
  <2>2. QED
    BY <1>2, <1>30, <2>1 DEF CallFails, facts
<1>31. CASE Kill(r)
  BY <1>5, <1>31 DEF Kill
<1>32. QED
  BY <1>6, <1>7, <1>8, <1>10, <1>11, <1>12, <1>13, <1>15, <1>16, <1>17, <1>18, <1>19, <1>20, <1>21,
     <1>22, <1>23, <1>24, <1>25, <1>26, <1>27, <1>28, <1>29, <1>30, <1>31 DEF Act, Run

-----------------------------------------------------------------------------
(***************************************************************************)
(* What a purge knows of the records.                                      *)
(***************************************************************************)

\* Others change nothing of what a run knows.
LEMMA FramePurge ==
  ASSUME CatalogTypeOK, NEW m \in Attempt, pc'[m] = pc[m], events'[m] = events[m], SameFacts(m),
         Undisturbed(m), NetType', PurgeOK(m)
  PROVE  PurgeOK(m)'
<1>1. \A x \in Service \ moved'[m] :
        (x \in exist' <=> x \in exist) /\ (x \in exist' => tags'[x] = tags[x])
  BY DEF Undisturbed
<1>2. moved[m] \subseteq moved'[m] /\ exist' \subseteq Service
  BY DEF Undisturbed, NetType
<1>3. Kept(m)' \subseteq Kept(m) /\ AsRead(m)' \subseteq AsRead(m)
  BY <1>1, <1>2 DEF Kept, AsRead, SameFacts
<1>4. Members' \subseteq Members \cup moved'[m]
  BY <1>1, <1>2 DEF Members
<1>5. Sound(m) => Sound(m)'
  <2>1. \A x \in AsRead(m)' : tags'[x] = tags[x]
    BY <1>1, <1>2 DEF AsRead
  <2>2. QED
    BY <1>2, <1>3, <1>4, <2>1 DEF Sound, Residue, SameFacts
<1>6. Said(m, "success")' => Said(m, "success")
  BY DEF Said
<1>7. Kept(m) \subseteq Members => Kept(m)' \subseteq Members'
  BY <1>1, <1>2, <1>3 DEF Kept, Members
<1>8. /\ (pc[m] = "missing" /\ ~amiss[m] => Sound(m) /\ Kept(m) \subseteq found[m] \cup todo[m])'
      /\ (pc[m] \in {"delete", "readback"} =>
            /\ Sound(m) /\ Kept(m) \subseteq found[m] /\ todo[m] \subseteq found[m]
            /\ ~dirty[m] => AsRead(m) \subseteq todo[m])'
  BY <1>3, <1>5 DEF PurgeOK, SameFacts
<1>9. (pc[m] \in {"tag-guard", "tag-lookup", "tag-delete"} =>
         Kept(m) = {} /\ Members \subseteq moved[m])'
  BY <1>2, <1>3, <1>4 DEF PurgeOK
<1>10. /\ (pc[m] = "final-services" => Kept(m) \subseteq Members)'
       /\ (pc[m] = "final-tag" /\ ~amiss[m] => Kept(m) = {})'
       /\ (pc[m] = "release" => Kept(m) = {})'
       /\ (Said(m, "success") => Kept(m) = {})'
  BY <1>3, <1>6, <1>7 DEF PurgeOK, SameFacts
<1>11. QED
  BY <1>8, <1>9, <1>10 DEF PurgeOK

\* Where a purge knows nothing yet, or nothing more.
PurgePlain == {"idle", "lock", "verify", "contract", "guard", "sweep", "members",
               "rescue", "always", "done", "killed"}

LEMMA PlainPurge ==
  ASSUME NEW r \in Attempt, pc'[r] \in PurgePlain, Said(r, "success")' => Kept(r)' = {}
  PROVE  PurgeOK(r)'
  BY DEF PurgePlain, PurgeOK

LEMMA PurgeStep ==
  ASSUME CatalogTypeOK, NEW r \in Purge, Local(r), PurgeOK(r), Act(r)
  PROVE  PurgeOK(r)'
<1>1. r \in Attempt /\ r \notin Play
  OBVIOUS
<1>2. Said(r, "success")' => Said(r, "success") \/ pc[r] = "release"
  BY <1>1, LocalStep
<1>3. ASSUME pc[r] \in Silent, pc[r] # "release" PROVE ~Said(r, "success")'
  <2>1. events[r] = <<>>
    BY <1>3 DEF Local, EventsOK
  <2>2. QED
    BY <1>2, <1>3, <2>1 DEF Said
<1>4. CatalogTypeOK' /\ Frame(r)
  BY <1>1, ActType
<1>5. ASSUME UNCHANGED <<exist, moved, expected>> PROVE Kept(r)' = Kept(r)
  BY <1>5 DEF Kept
<1>6. ASSUME UNCHANGED <<exist, moved, expected>>, pc'[r] \in PurgePlain PROVE PurgeOK(r)'
  BY <1>1, <1>2, <1>5, <1>6, PlainPurge DEF PurgeOK
<1>7. ASSUME UNCHANGED <<exist, moved, expected>>, Raise(r) PROVE PurgeOK(r)'
  BY <1>1, <1>6, <1>7, RaiseWalks DEF PurgePlain
<1>8. ASSUME NEW l \in CatalogLabel, Goto(r, l) PROVE pc'[r] = l
  BY <1>1, <1>8, GotoWalks
<1>9. ASSUME NEW l \in PurgePlain, Goto(r, l), UNCHANGED <<exist, moved, expected>>
      PROVE PurgeOK(r)'
  <2>1. l \in CatalogLabel
    BY DEF PurgePlain, CatalogLabel, Body, Purging
  <2>2. QED
    BY <1>6, <1>8, <1>9, <2>1
<1>10. {"tag-guard", "delete", "missing", "readback", "final-services", "tag-lookup", "tag-delete",
        "final-tag", "release"} \subseteq CatalogLabel \cap Silent
  BY DEF CatalogLabel, Silent, Body, Purging
<1>11. CASE Start(r)
  <2>1. ~Said(r, "success")'
    BY <1>3, <1>11 DEF Start, Silent
  <2>2. pc'[r] \in PurgePlain
    <3>1. \E l \in {"lock", "done"} : Goto(r, l)
      BY <1>11 DEF Start
    <3>2. QED
      BY <1>8, <3>1 DEF PurgePlain, CatalogLabel
  <2>3. QED
    BY <1>1, <2>1, <2>2, PlainPurge
<1>12. CASE Acquire(r) \/ Verify(r)
  <2>1. UNCHANGED <<exist, moved, expected>>
    BY <1>12 DEF Acquire, Verify, netbox, purgeFacts
  <2>2. pc'[r] \in PurgePlain
    <3>1. CASE Raise(r)
      BY <1>1, <3>1, RaiseWalks DEF PurgePlain
    <3>2. CASE ~Raise(r)
      BY <1>1, <1>12, <3>2 DEF Acquire, Verify, PurgePlain, CatalogTypeOK
    <3>3. QED
      BY <3>1, <3>2
  <2>3. QED
    BY <1>6, <2>1, <2>2
<1>13. CASE Guard(r) \/ Contract(r) \/ Sweep(r)
  <2>1. UNCHANGED <<exist, moved, expected>>
    BY <1>13 DEF Guard, Checkpoint, Contract, Sweep, netbox, purgeFacts
  <2>2. Raise(r) \/ \E l \in {"sweep", "guard", "members"} : Goto(r, l)
    BY <1>13 DEF Guard, Checkpoint, Contract, Sweep, Answered
  <2>3. QED
    BY <1>7, <1>9, <2>1, <2>2 DEF PurgePlain
<1>14. CASE ReadMembers(r)
  <2> DEFINE bad == Violations(r) # {}
             missing == expected[r] \ Members
  <2>1. ~Said(r, "success")'
    BY <1>3, <1>14 DEF ReadMembers, Silent, Body, Purging
  <2>2. moved'[r] = {}
    BY <1>1, <1>14 DEF ReadMembers, Fresh, CatalogTypeOK
  <2>3. found'[r] = Members /\ amiss'[r] = bad
    BY <1>1, <1>14 DEF ReadMembers, CatalogTypeOK
  <2>4. UNCHANGED <<exist, tags, expected>>
    BY <1>14 DEF ReadMembers, netbox
  <2>5. Members' = Members
    BY <2>4 DEF Members
  <2>6. Kept(r)' = expected[r] \cap exist /\ AsRead(r)' = Members
    BY <2>2, <2>3, <2>4 DEF Kept, AsRead, Members
  <2>7. ~bad => Sound(r)'
    <3>1. ASSUME ~bad, NEW x \in Members PROVE x \in expected[r] /\ Residue(x)'
      <4>1. x \in expected[r] /\ tags[x] \cap Lifecycle = {"bootstrapped"} /\ "workload" \in tags[x]
        BY <3>1 DEF Violations, Members
      <4>2. QED
        BY <2>4, <4>1 DEF Residue
    <3>2. QED
      BY <2>3, <2>4, <2>5, <2>6, <3>1 DEF Sound
  <2>8. CASE Raise(r)
    BY <1>1, <2>1, <2>8, PlainPurge, RaiseWalks DEF PurgePlain
  <2>9. CASE missing = {} /\ ~Raise(r)
    <3>1. /\ ~bad /\ todo' = [todo EXCEPT ![r] = Members]
          /\ Goto(r, IF Members = {} THEN "tag-guard" ELSE "delete")
      BY <1>14, <2>9 DEF ReadMembers, AfterChecks
    <3>2. todo'[r] = Members
      BY <1>1, <3>1 DEF CatalogTypeOK
    <3>3. Sound(r)' /\ expected[r] \subseteq Members
      BY <2>7, <2>9, <3>1
    <3>4. CASE Members = {}
      <4>1. pc'[r] = "tag-guard"
        BY <1>8, <1>10, <3>1, <3>4
      <4>2. QED
        BY <2>1, <2>5, <2>6, <3>3, <3>4, <4>1 DEF PurgeOK
    <3>5. CASE Members # {}
      <4>1. pc'[r] = "delete"
        BY <1>8, <1>10, <3>1, <3>5
      <4>2. QED
        BY <2>1, <2>3, <2>6, <3>2, <3>3, <4>1 DEF PurgeOK
    <3>6. QED
      BY <3>4, <3>5
  <2>10. CASE missing # {}
    <3>1. todo'[r] = missing /\ pc'[r] = "missing"
      BY <1>1, <1>8, <1>10, <1>14, <2>10 DEF ReadMembers, CatalogTypeOK
    <3>2. Kept(r)' \subseteq found'[r] \cup todo'[r]
      BY <2>3, <2>6, <3>1
    <3>3. QED
      BY <2>1, <2>3, <2>7, <3>1, <3>2 DEF PurgeOK
  <2>11. QED
    BY <2>8, <2>9, <2>10
<1>15. CASE CheckMissing(r)
  <2>1. PICK x \in todo[r], live \in BOOLEAN :
          /\ x \in exist => live
          /\ amiss' = [amiss EXCEPT ![r] = @ \/ live]
          /\ \/ todo[r] = {x} /\ AfterChecks(r, amiss[r] \/ live, found[r])
             \/ todo' = [todo EXCEPT ![r] = @ \ {x}] /\ UNCHANGED <<pc, believers, events>>
    BY <1>15 DEF CheckMissing, StillLive
  <2>2. UNCHANGED <<exist, tags, moved, expected, found>>
    BY <1>15 DEF CheckMissing, netbox
  <2>3. ~Said(r, "success")'
    BY <1>3, <1>15 DEF CheckMissing, Silent, Body, Purging
  <2>4. /\ Kept(r)' = Kept(r) /\ AsRead(r)' = AsRead(r) /\ Members' = Members
        /\ Sound(r)' <=> Sound(r)
    BY <2>2 DEF Kept, AsRead, Members, Sound, Residue
  <2>5. amiss'[r] <=> amiss[r] \/ live
    BY <1>1, <2>1 DEF CatalogTypeOK
  <2>6. ASSUME ~(amiss[r] \/ live)
        PROVE  Sound(r) /\ Kept(r) \subseteq found[r] \cup (todo[r] \ {x})
    BY <1>15, <2>1, <2>6 DEF CheckMissing, PurgeOK, Kept
  <2>7. CASE Raise(r)
    BY <1>1, <2>3, <2>7, PlainPurge, RaiseWalks DEF PurgePlain
  <2>8. CASE todo[r] = {x} /\ AfterChecks(r, amiss[r] \/ live, found[r]) /\ ~Raise(r)
    <3>1. /\ ~(amiss[r] \/ live) /\ todo' = [todo EXCEPT ![r] = found[r]]
          /\ Goto(r, IF found[r] = {} THEN "tag-guard" ELSE "delete")
      BY <2>8 DEF AfterChecks
    <3>2. todo'[r] = found[r]
      BY <1>1, <3>1 DEF CatalogTypeOK
    <3>3. Sound(r) /\ Kept(r) \subseteq found[r]
      BY <2>6, <2>8, <3>1
    <3>4. CASE found[r] = {}
      <4>1. pc'[r] = "tag-guard"
        BY <1>8, <1>10, <3>1, <3>4
      <4>2. Kept(r) = {} /\ Members \subseteq moved[r]
        BY <3>3, <3>4 DEF Sound
      <4>3. QED
        BY <2>2, <2>3, <2>4, <4>1, <4>2 DEF PurgeOK
    <3>5. CASE found[r] # {}
      <4>1. pc'[r] = "delete"
        BY <1>8, <1>10, <3>1, <3>5
      <4>2. AsRead(r) \subseteq found[r]
        BY DEF AsRead
      <4>3. QED
        BY <2>2, <2>3, <2>4, <3>2, <3>3, <4>1, <4>2 DEF PurgeOK
    <3>6. QED
      BY <3>4, <3>5
  <2>9. CASE todo' = [todo EXCEPT ![r] = @ \ {x}] /\ UNCHANGED <<pc, believers, events>>
    <3>1. todo'[r] = todo[r] \ {x} /\ pc'[r] = "missing"
      BY <1>1, <1>15, <2>9 DEF CheckMissing, CatalogTypeOK
    <3>2. ~amiss'[r] => Sound(r) /\ Kept(r) \subseteq found[r] \cup todo'[r]
      BY <2>5, <2>6, <3>1
    <3>3. QED
      BY <2>2, <2>3, <2>4, <3>1, <3>2 DEF PurgeOK
  <2>10. QED
    BY <2>1, <2>7, <2>8, <2>9
<1>16. CASE Delete(r)
  <2>1. PICK x \in todo[r] :
          \/ exist' = exist \ {x} /\ tags' = [tags EXCEPT ![x] = {}] /\ Moves(r, {x} \cap exist)
          \/ UNCHANGED <<exist, tags, moved>>
    BY <1>16 DEF Delete
  <2>2. UNCHANGED <<expected, found, todo, dirty>>
    BY <1>16 DEF Delete, purgeFacts
  <2>3. x \in Service
    BY <1>1 DEF CatalogTypeOK
  <2>4. /\ moved'[r] = moved[r] /\ exist' \subseteq exist
        /\ \A y \in exist' : tags'[y] = tags[y]
    <3>1. moved'[r] = moved[r]
      <4>1. {x} \cap exist \in SUBSET Service
        BY <2>3
      <4>2. QED
        BY <1>1, <2>1, <4>1, MovesAdds
    <3>2. QED
      BY <2>1, <2>3, <3>1 DEF CatalogTypeOK
  <2>5. /\ Kept(r)' \subseteq Kept(r) /\ AsRead(r)' \subseteq AsRead(r)
        /\ Members' \subseteq Members
    BY <2>2, <2>4 DEF Kept, AsRead, Members
  <2>6. /\ Sound(r) /\ Kept(r) \subseteq found[r] /\ todo[r] \subseteq found[r]
        /\ ~dirty[r] => AsRead(r) \subseteq todo[r]
    BY <1>16 DEF Delete, PurgeOK
  <2>7. Sound(r)'
    <3>1. \A y \in AsRead(r)' : tags'[y] = tags[y]
      BY <2>4 DEF AsRead
    <3>2. QED
      BY <2>2, <2>4, <2>5, <2>6, <3>1 DEF Sound, Residue
  <2>8. pc'[r] = "readback"
    BY <1>8, <1>10, <1>16 DEF Delete
  <2>9. ~Said(r, "success")'
    BY <1>3, <1>10, <1>16 DEF Delete
  <2>10. QED
    BY <2>2, <2>5, <2>6, <2>7, <2>8, <2>9 DEF PurgeOK
<1>17. CASE Readback(r)
  <2>1. PICK there \in BOOLEAN :
          /\ id[r] \in exist => there
          /\ dirty' = [dirty EXCEPT ![r] = @ \/ there]
          /\ todo' = [todo EXCEPT ![r] = @ \ {id[r]}]
          /\ Goto(r, IF todo[r] = {id[r]} THEN AfterMembers(dirty[r] \/ there) ELSE "delete")
    BY <1>17 DEF Readback
  <2>2. UNCHANGED <<exist, tags, moved, expected, found>>
    BY <1>17 DEF Readback, netbox
  <2>3. ~Said(r, "success")'
    BY <1>3, <1>10, <1>17 DEF Readback
  <2>4. /\ Kept(r)' = Kept(r) /\ AsRead(r)' = AsRead(r) /\ Members' = Members
        /\ Sound(r)' <=> Sound(r)
    BY <2>2 DEF Kept, AsRead, Members, Sound, Residue
  <2>5. (dirty'[r] <=> dirty[r] \/ there) /\ todo'[r] = todo[r] \ {id[r]}
    BY <1>1, <2>1 DEF CatalogTypeOK
  <2>6. /\ Sound(r) /\ Kept(r) \subseteq found[r] /\ todo[r] \subseteq found[r]
        /\ ~dirty[r] => AsRead(r) \subseteq todo[r]
    BY <1>17 DEF Readback, PurgeOK
  <2>7. Kept(r) \subseteq AsRead(r)
    BY <2>6 DEF Kept, AsRead
  <2>8. ~(dirty[r] \/ there) => AsRead(r) \subseteq todo[r] \ {id[r]}
    BY <2>1, <2>6 DEF AsRead
  <2>9. CASE todo[r] # {id[r]}
    <3>1. pc'[r] = "delete"
      BY <1>8, <1>10, <2>1, <2>9
    <3>2. QED
      BY <2>2, <2>3, <2>4, <2>5, <2>6, <2>8, <3>1 DEF PurgeOK
  <2>10. CASE todo[r] = {id[r]} /\ (dirty[r] \/ there)
    <3>1. CASE todo[r] = {id[r]}
      <4>1. CASE dirty[r] \/ there
        <5>1. pc'[r] = "final-services"
          BY <1>8, <1>10, <2>1, <3>1, <4>1 DEF AfterMembers
        <5>2. Kept(r) \subseteq Members
          BY <2>6, <2>7 DEF Sound, Residue, Members, AsRead
        <5>3. QED
          BY <2>3, <2>4, <5>1, <5>2 DEF PurgeOK
      <4>2. CASE ~(dirty[r] \/ there)
        BY <2>10, <4>2
      <4>3. QED
        BY <4>1, <4>2
    <3>2. QED
      BY <2>9, <3>1
  <2>11. CASE todo[r] = {id[r]} /\ ~(dirty[r] \/ there)
    <3>1. pc'[r] = "tag-guard"
      BY <1>8, <1>10, <2>1, <2>11 DEF AfterMembers
    <3>2. AsRead(r) = {}
      BY <2>8, <2>11
    <3>3. Members \subseteq moved[r]
      BY <2>6, <3>2 DEF Sound, AsRead, Members
    <3>4. Kept(r) = {}
      BY <2>7, <3>2
    <3>5. QED
      BY <2>2, <2>3, <2>4, <3>1, <3>3, <3>4 DEF PurgeOK
  <2>12. QED
    BY <2>9, <2>10, <2>11
<1>18. CASE TagGuard(r) \/ TagLookup(r)
  <2>1. UNCHANGED <<exist, tags, moved, expected>>
    BY <1>18 DEF TagGuard, Checkpoint, TagLookup, netbox, purgeFacts
  <2>2. Kept(r) = {} /\ Members \subseteq moved[r]
    BY <1>18 DEF TagGuard, TagLookup, PurgeOK
  <2>3. Kept(r)' = Kept(r) /\ Members' = Members
    BY <2>1 DEF Kept, Members
  <2>4. CASE Raise(r)
    BY <1>7, <2>1, <2>4
  <2>5. CASE pc'[r] \in {"tag-lookup", "tag-delete"}
    BY <2>1, <2>2, <2>3, <2>5 DEF PurgeOK
  <2>6. QED
    BY <1>8, <1>10, <1>18, <2>4, <2>5 DEF TagGuard, Checkpoint, TagLookup
<1>19. CASE TagDelete(r)
  <2>1. moved'[r] = moved[r] /\ UNCHANGED <<exist, expected>>
    <3>1. Members \in SUBSET Service
      BY DEF Members, CatalogTypeOK
    <3>2. QED
      BY <1>1, <1>19, <3>1, MovesAdds DEF TagDelete, purgeFacts
  <2>2. Kept(r)' = {}
    BY <1>19, <2>1 DEF TagDelete, PurgeOK, Kept
  <2>3. pc'[r] = "final-services"
    BY <1>8, <1>10, <1>19 DEF TagDelete
  <2>4. QED
    BY <2>2, <2>3 DEF PurgeOK
<1>20. CASE FinalServices(r)
  <2>1. UNCHANGED <<exist, tags, moved, expected>> /\ amiss'[r] = (Members # {})
    BY <1>1, <1>20 DEF FinalServices, netbox, CatalogTypeOK
  <2>2. Kept(r)' = Kept(r) /\ Kept(r) \subseteq Members
    BY <1>20, <2>1 DEF FinalServices, PurgeOK, Kept
  <2>3. pc'[r] = "final-tag"
    BY <1>8, <1>10, <1>20 DEF FinalServices
  <2>4. ~Said(r, "success")'
    BY <1>3, <1>10, <1>20 DEF FinalServices
  <2>5. QED
    BY <2>1, <2>2, <2>3, <2>4 DEF PurgeOK
<1>21. CASE FinalTag(r)
  <2>1. UNCHANGED <<exist, moved, expected>>
    BY <1>21 DEF FinalTag, netbox, purgeFacts
  <2>2. CASE Raise(r)
    BY <1>7, <2>1, <2>2
  <2>3. CASE ~amiss[r] /\ Goto(r, "release")
    <3>1. Kept(r)' = {}
      BY <1>5, <1>21, <2>1, <2>3 DEF FinalTag, PurgeOK
    <3>2. pc'[r] = "release"
      BY <1>8, <1>10, <2>3
    <3>3. QED
      BY <3>1, <3>2 DEF PurgeOK
  <2>4. QED
    BY <1>21, <2>2, <2>3 DEF FinalTag
<1>22. CASE Succeed(r) \/ Rescue(r) \/ Always(r) \/ CallFails(r) \/ Kill(r)
  <2>1. UNCHANGED <<exist, moved, expected>>
    BY <1>22 DEF Succeed, Rescue, Always, ReleaseLock, CallFails, Kill, netbox, purgeFacts
  <2>2. Raise(r) \/ \E l \in {"always", "done", "killed"} : Goto(r, l)
    BY <1>22 DEF Succeed, Rescue, Always, ReleaseLock, Answered, CallFails, Kill
  <2>3. QED
    BY <1>7, <1>9, <2>1, <2>2 DEF PurgePlain
<1>23. pc[r] \notin Staging
  BY <1>1 DEF Local
<1>24. QED
  BY <1>11, <1>12, <1>13, <1>14, <1>15, <1>16, <1>17, <1>18, <1>19, <1>20, <1>21, <1>22, <1>23
  DEF Act, Run, Ensure, EnsureCreate, EnsureRecheck, Lookup, Create, Patch, ConfirmPatch, Staging

-----------------------------------------------------------------------------
(***************************************************************************)
(* What a launch or teardown knows of its record.                          *)
(***************************************************************************)

\* What a patch writes.
LEMMA MergedGroups ==
  ASSUME CatalogTypeOK, NEW l \in Attempt
  PROVE  LET T == Merged(l, Desired(l))
         IN  /\ "note" \in T => "note" \in read[l]
             /\ stage[l] = "provision" /\ slug[l] # "none" => T \cap Group = {slug[l]}
             /\ stage[l] = "configure" => T \cap Group = read[l] \cap Group
             /\ stage[l] = "configure" => T \cap Lifecycle = {"active"}
<1> DEFINE T == Merged(l, Desired(l))
<1>1. stage[l] \in {"provision", "configure", "finalise"} /\ slug[l] \in Group \cup {"none"}
  BY DEF CatalogTypeOK
<1>2. CASE stage[l] = "provision"
  <2>1. Desired(l) = {"bootstrapped"} \cup ({slug[l]} \ {"none"})
    BY <1>2 DEF Desired, WorkloadTags
  <2>2. slug[l] # "none" => Owned(l) = Lifecycle \cup Group
    BY <1>2 DEF Owned
  <2>3. slug[l] # "none" => T \cap Group = {slug[l]}
    BY <1>1, <2>1, <2>2 DEF Merged, Group
  <2>4. "note" \in T => "note" \in read[l]
    BY <1>1, <2>1 DEF Merged, Group
  <2>5. QED
    BY <1>2, <2>3, <2>4
<1>3. CASE stage[l] = "configure"
  <2>1. T = (read[l] \ Lifecycle) \cup {"active"}
    BY <1>3 DEF Merged, Desired, Owned
  <2>2. QED
    BY <1>3, <2>1 DEF Lifecycle, Group
<1>4. CASE stage[l] = "finalise"
  BY <1>4 DEF Merged, Desired
<1>5. QED
  BY <1>1, <1>2, <1>3, <1>4

\* Others change nothing of what a run knows.
LEMMA FramePlay ==
  ASSUME CatalogTypeOK, NEW m \in Attempt, pc'[m] = pc[m], SameFacts(m), Undisturbed(m), NetType',
         PlayOK(m), NamedOK(m)
  PROVE  PlayOK(m)' /\ NamedOK(m)'
<1>1. \A x \in Service \ moved'[m] :
        (x \in exist' <=> x \in exist) /\ (x \in exist' => tags'[x] = tags[x])
  BY DEF Undisturbed
<1>2. moved[m] \subseteq moved'[m] /\ exist' \subseteq Service
  BY DEF Undisturbed, NetType
<1>3. UNCHANGED <<stage[m], slug[m], id[m], read[m]>>
  BY DEF SameFacts
<1>4. id[m] \in Service
  BY DEF CatalogTypeOK
<1>5. Merged(m, Desired(m))' = Merged(m, Desired(m)) /\ (Grouped(m)' <=> Grouped(m))
  <2>1. Desired(m)' = Desired(m) /\ Owned(m)' = Owned(m)
    BY <1>3 DEF Desired, Owned, WorkloadTags
  <2>2. QED
    BY <1>3, <2>1 DEF Merged, Grouped
<1>6. ASSUME id'[m] \notin moved'[m]
      PROVE  /\ id[m] \notin moved[m] /\ (id'[m] \in exist' <=> id[m] \in exist)
             /\ id[m] \in exist => tags'[id'[m]] = tags[id[m]]
  BY <1>1, <1>2, <1>3, <1>4, <1>6
<1>7. PlayOK(m)'
  <2>1. SUFFICES ASSUME id'[m] \notin moved'[m]
          PROVE  /\ (pc[m] = "patch" /\ id[m] \in exist /\ "note" \in tags[id[m]] =>
                       "note" \in read[m])'
                 /\ (pc[m] \in {"patch", "confirm"} /\ Grouped(m) => read[m] \cap Group = {slug[m]})'
                 /\ (pc[m] = "confirm" => id[m] \in exist /\ tags[id[m]] = Merged(m, Desired(m)))'
                 /\ (pc[m] \in {"guard", "lookup"} /\ Grouped(m) /\ id[m] \in exist =>
                       tags[id[m]] \cap Group = {slug[m]})'
                 /\ (pc[m] = "release" /\ stage[m] = "configure" =>
                       /\ id[m] \in exist
                       /\ tags[id[m]] \cap Lifecycle = {"active"}
                       /\ slug[m] # "none" => tags[id[m]] \cap Group = {slug[m]})'
    BY DEF PlayOK
  <2>2. QED
    BY <1>3, <1>5, <1>6, <2>1 DEF PlayOK, Group, Lifecycle
<1>8. NamedOK(m)'
  <2>1. Own \cap exist' \subseteq (Own \cap exist) \cup moved'[m]
    BY <1>1, <1>2
  <2>2. (Before(m)' <=> Before(m)) /\ (With(m)' <=> With(m))
    BY <1>3 DEF Before, With, Ensuring
  <2>3. QED
    BY <1>2, <1>3, <2>1, <2>2 DEF NamedOK, Born
<1>9. QED
  BY <1>7, <1>8

\* Where a play knows nothing more.
LEMMA PlainPlay ==
  ASSUME NEW l \in Attempt, pc'[l] \in {"rescue", "always", "done", "killed"}
  PROVE  PlayOK(l)' /\ NamedOK(l)'
<1>1. PlayOK(l)'
  BY DEF PlayOK
<1>2. ~Before(l)' /\ ~With(l)'
  BY DEF Before, With, Ensuring
<1>3. QED
  BY <1>1, <1>2 DEF NamedOK

LEMMA PlayStep ==
  ASSUME CatalogTypeOK, RecordsOK, NEW r \in Play, Local(r), PlayOK(r), NamedOK(r), Act(r)
  PROVE  PlayOK(r)' /\ NamedOK(r)'
<1> DEFINE Out == PlayOK(r)' /\ NamedOK(r)'
<1>1. r \in Attempt /\ r \notin Purge
  OBVIOUS
<1>2. Raise(r) => Out
  BY <1>1, PlainPlay, RaiseWalks
<1>3. ASSUME NEW l \in CatalogLabel, Goto(r, l) PROVE pc'[r] = l
  BY <1>1, <1>3, GotoWalks
<1>4. ASSUME NEW l \in {"rescue", "always", "done", "killed"}, Goto(r, l) PROVE Out
  BY <1>1, <1>3, <1>4, PlainPlay DEF CatalogLabel
<1>5. ASSUME Before(r), UNCHANGED <<exist, moved>>, stage'[r] # "configure",
             pc'[r] \in Ensuring \cup {"lock", "verify", "guard", "lookup", "create"}
      PROVE  Out
  <2>1. PlayOK(r)'
    BY <1>5 DEF PlayOK, Grouped, Ensuring
  <2>2. ~With(r)' /\ (Own \cap exist \subseteq Born \cup moved[r])'
    BY <1>5 DEF NamedOK, With, Ensuring, Born
  <2>3. QED
    BY <2>1, <2>2 DEF NamedOK
<1>6. {"lock", "verify", "guard", "ensure", "ensure-create", "ensure-recheck", "lookup", "create",
       "patch", "confirm", "release"} \subseteq CatalogLabel
  BY DEF CatalogLabel, Body, Staging
<1>7. CASE Start(r)
  <2>1. CASE Goto(r, "done")
    BY <1>4, <2>1
  <2>2. CASE Goto(r, "lock")
    <3>1. stage'[r] # "configure" /\ Before(r)
      <4>1. CASE UNCHANGED stage
        BY <1>7, <4>1 DEF Start, Local, Before
      <4>2. CASE stage' = [stage EXCEPT ![r] = "finalise"]
        BY <1>1, <1>7, <4>2 DEF CatalogTypeOK, Start, Local, Before
      <4>3. QED
        BY <1>7, <4>1, <4>2 DEF Start
    <3>2. QED
      BY <1>3, <1>5, <1>6, <1>7, <2>2, <3>1 DEF Start, netbox
  <2>3. QED
    BY <1>7, <2>1, <2>2 DEF Start
<1>8. CASE Acquire(r) \/ Verify(r)
  <2>1. CASE Raise(r)
    BY <1>2, <2>1
  <2>2. CASE ~Raise(r)
    <3>1. pc'[r] \in {"lock", "verify", "guard"}
      BY <1>1, <1>8, <2>2 DEF Acquire, Verify, CatalogTypeOK
    <3>2. UNCHANGED <<exist, moved, stage>> /\ stage[r] # "configure" /\ Before(r)
      BY <1>8 DEF Acquire, Verify, netbox, facts, Local, Before
    <3>3. QED
      BY <1>5, <3>1, <3>2
  <2>3. QED
    BY <2>1, <2>2
<1>9. CASE Guard(r)
  <2>1. UNCHANGED <<exist, tags, moved, stage, slug, id, read>>
    BY <1>9 DEF Guard, Checkpoint, netbox, facts
  <2>2. CASE Raise(r)
    BY <1>2, <2>2
  <2>3. CASE stage[r] # "configure" /\ ~Raise(r)
    <3>1. pc'[r] \in {"ensure", "lookup"}
      BY <1>1, <1>3, <1>6, <1>9, <2>3 DEF Guard, Checkpoint
    <3>2. QED
      BY <1>5, <1>9, <2>1, <2>3, <3>1 DEF Guard, Before, Ensuring
  <2>4. CASE stage[r] = "configure" /\ ~Raise(r)
    <3>1. pc'[r] = "lookup" /\ pc[r] = "guard"
      BY <1>1, <1>3, <1>6, <1>9, <2>4 DEF Guard, Checkpoint
    <3>2. PlayOK(r)'
      BY <2>1, <3>1 DEF PlayOK, Grouped
    <3>3. NamedOK(r)'
      BY <2>1, <2>4, <3>1 DEF NamedOK, Before, With
    <3>4. QED
      BY <3>2, <3>3
  <2>5. QED
    BY <2>2, <2>3, <2>4
<1>10. CASE Ensure(r) \/ EnsureCreate(r) \/ EnsureRecheck(r)
  <2>1. UNCHANGED <<exist, moved, stage>> /\ stage[r] # "configure" /\ Before(r)
    BY <1>10 DEF Ensure, EnsureCreate, EnsureRecheck, netbox, facts, Local, Before, Ensuring
  <2>2. Raise(r) \/ \E l \in {"ensure-create", "ensure-recheck", "lookup"} : Goto(r, l)
    BY <1>10 DEF Ensure, EnsureCreate, EnsureRecheck, Answered
  <2>3. QED
    BY <1>2, <1>3, <1>5, <1>6, <2>1, <2>2 DEF Ensuring
<1>11. CASE Lookup(r)
  <2>1. UNCHANGED <<exist, tags, stage, slug>>
    BY <1>11 DEF Lookup, netbox
  <2>2. CASE Raise(r)
    BY <1>2, <2>2
  <2>3. CASE /\ stage[r] = "provision" /\ Goto(r, "create") /\ UNCHANGED moved
    BY <1>3, <1>5, <1>6, <1>11, <2>1, <2>3 DEF Lookup, Before
  <2>4. ASSUME NEW x \in Own \cap exist, id' = [id EXCEPT ![r] = x],
               read' = [read EXCEPT ![r] = tags[x]], Goto(r, "patch"),
               IF stage[r] = "configure" THEN UNCHANGED moved ELSE Fresh(r, {x})
        PROVE  Out
    <3>1. id'[r] = x /\ read'[r] = tags[x] /\ pc'[r] = "patch"
      BY <1>1, <1>3, <1>6, <2>4 DEF CatalogTypeOK
    <3>2. CASE stage[r] = "configure"
      <4>1. moved' = moved /\ With(r)
        BY <1>11, <2>4, <3>2 DEF Lookup, With
      <4>2. x = id[r] \/ x \in moved[r]
        BY <2>4, <4>1 DEF NamedOK
      <4>3. PlayOK(r)'
        BY <1>11, <2>1, <2>4, <3>1, <4>1, <4>2 DEF Lookup, PlayOK, Grouped
      <4>4. ~Before(r)' /\ ~With(r)'
        BY <2>1, <3>1, <3>2 DEF Before, With, Ensuring
      <4>5. QED
        BY <4>3, <4>4 DEF NamedOK
    <3>3. CASE stage[r] # "configure"
      <4>1. moved'[r] = moved[r] \ {x}
        BY <1>1, <2>4, <3>3 DEF Fresh, CatalogTypeOK
      <4>2. Own \cap exist \subseteq Born \cup moved[r]
        BY <1>11, <3>3 DEF Lookup, Before, NamedOK
      <4>3. PlayOK(r)'
        BY <2>1, <3>1, <3>3 DEF PlayOK, Grouped
      <4>4. ASSUME NEW y \in Own \cap exist, y # x PROVE y \in moved'[r]
        <5>1. CASE y \in moved[r]
          BY <4>1, <4>4, <5>1
        <5>2. CASE y \in Born
          <6>1. x \in Born
            BY <2>4, <4>4, <5>2 DEF RecordsOK
          <6>2. x = y
            BY <5>2, <6>1, OneRecordAssumption DEF Born
          <6>3. QED
            BY <4>4, <6>2
        <5>3. QED
          BY <4>2, <4>4, <5>1, <5>2
      <4>5. (Own \cap exist \subseteq {id[r]} \cup moved[r])'
        BY <2>1, <3>1, <4>4
      <4>6. ~Before(r)'
        BY <3>1 DEF Before, Ensuring
      <4>7. QED
        BY <4>3, <4>5, <4>6 DEF NamedOK
    <3>4. QED
      BY <3>2, <3>3
  <2>5. QED
    BY <1>11, <2>2, <2>3, <2>4 DEF Lookup
<1>12. CASE Create(r)
  <2> DEFINE T == {"bootstrapped"} \cup WorkloadTags(r)
  <2>1. CASE Raise(r)
    BY <1>2, <2>1
  <2>2. ASSUME NEW x \in Own \cap unborn, exist' = exist \cup {x}, tags' = [tags EXCEPT ![x] = T],
               id' = [id EXCEPT ![r] = x], Moves(r, {x}), Goto(r, "patch")
        PROVE  Out
    <3>1. UNCHANGED <<stage, slug, read>> /\ stage[r] = "provision"
      BY <1>12 DEF Create, Local
    <3>2. id'[r] = x /\ pc'[r] = "patch" /\ moved'[r] = moved[r]
      <4>1. {x} \in SUBSET Service
        OBVIOUS
      <4>2. QED
        BY <1>1, <1>3, <1>6, <2>2, <4>1, MovesAdds DEF CatalogTypeOK
    <3>3. tags'[x] = T /\ "note" \notin T
      <4>1. "note" \notin T
        BY <1>1 DEF WorkloadTags, CatalogTypeOK, Group
      <4>2. QED
        BY <2>2, <4>1 DEF CatalogTypeOK
    <3>4. PlayOK(r)'
      BY <3>1, <3>2, <3>3 DEF PlayOK, Grouped
    <3>5. Own \cap exist \subseteq moved[r]
      <4>1. Own \cap exist \subseteq Born \cup moved[r]
        BY <1>12, <3>1 DEF Create, NamedOK, Before
      <4>2. Born \cap exist = {}
        BY <1>1, <1>12 DEF Create, RecordsOK
      <4>3. QED
        BY <4>1, <4>2
    <3>6. (Own \cap exist \subseteq {id[r]} \cup moved[r])'
      BY <2>2, <3>2, <3>5
    <3>7. ~Before(r)'
      BY <3>2 DEF Before, Ensuring
    <3>8. QED
      BY <3>4, <3>6, <3>7 DEF NamedOK
  <2>3. QED
    BY <1>12, <2>1, <2>2 DEF Create, Answered
<1>13. CASE Patch(r)
  <2> DEFINE T == Merged(r, Desired(r))
  <2>1. CASE Raise(r)
    BY <1>2, <2>1
  <2>2. CASE id[r] \in exist /\ tags' = [tags EXCEPT ![id[r]] = T] /\ Moves(r, {id[r]})
             /\ Goto(r, "confirm")
    <3>1. UNCHANGED <<exist, stage, slug, id, read>>
      BY <1>13 DEF Patch, facts
    <3>2. pc'[r] = "confirm" /\ moved'[r] = moved[r] /\ tags'[id[r]] = T
      <4>1. {id[r]} \in SUBSET Service
        BY <1>1 DEF CatalogTypeOK
      <4>2. QED
        BY <1>1, <1>3, <1>6, <2>2, <4>1, MovesAdds DEF CatalogTypeOK
    <3>3. Merged(r, Desired(r))' = T
      <4>1. Desired(r)' = Desired(r) /\ Owned(r)' = Owned(r)
        BY <3>1 DEF Desired, Owned, WorkloadTags
      <4>2. QED
        BY <3>1, <4>1 DEF Merged
    <3>4. PlayOK(r)'
      BY <1>13, <2>2, <3>1, <3>2, <3>3 DEF Patch, PlayOK, Grouped, Group
    <3>5. NamedOK(r)'
      BY <1>13, <3>1, <3>2 DEF Patch, NamedOK, Before, With, Ensuring
    <3>6. QED
      BY <3>4, <3>5
  <2>3. QED
    BY <1>13, <2>1, <2>2 DEF Patch, Answered
<1>14. CASE ConfirmPatch(r)
  <2>1. UNCHANGED <<exist, tags, moved, slug, id, read>> /\ pc[r] = "confirm"
    BY <1>14 DEF ConfirmPatch, netbox
  <2>2. id[r] \notin moved[r] => id[r] \in exist /\ tags[id[r]] = Merged(r, Desired(r))
    BY <2>1 DEF PlayOK
  <2>3. CASE Raise(r)
    BY <1>2, <2>3
  <2>4. CASE /\ stage[r] = "provision" /\ stage' = [stage EXCEPT ![r] = "configure"]
             /\ Goto(r, "guard")
    <3>1. stage'[r] = "configure" /\ pc'[r] = "guard"
      BY <1>1, <1>3, <1>6, <2>4 DEF CatalogTypeOK
    <3>2. id[r] \notin moved[r] /\ slug[r] # "none" => tags[id[r]] \cap Group = {slug[r]}
      BY <1>1, <2>2, <2>4, MergedGroups
    <3>3. PlayOK(r)'
      BY <2>1, <3>1, <3>2 DEF PlayOK, Grouped
    <3>4. NamedOK(r)'
      BY <2>1, <2>4, <3>1 DEF NamedOK, Before, With
    <3>5. QED
      BY <3>3, <3>4
  <2>5. CASE stage[r] # "provision" /\ UNCHANGED stage /\ Goto(r, "release")
    <3>1. pc'[r] = "release"
      BY <1>3, <1>6, <2>5
    <3>2. ASSUME id[r] \notin moved[r], stage[r] = "configure"
          PROVE  /\ id[r] \in exist /\ tags[id[r]] \cap Lifecycle = {"active"}
                 /\ slug[r] # "none" => tags[id[r]] \cap Group = {slug[r]}
      <4>1. /\ tags[id[r]] \cap Lifecycle = {"active"}
            /\ tags[id[r]] \cap Group = read[r] \cap Group
        BY <1>1, <2>2, <3>2, MergedGroups
      <4>2. slug[r] # "none" => read[r] \cap Group = {slug[r]}
        BY <2>1, <3>2 DEF PlayOK, Grouped
      <4>3. QED
        BY <2>2, <3>2, <4>1, <4>2
    <3>3. PlayOK(r)'
      BY <2>1, <2>5, <3>1, <3>2 DEF PlayOK
    <3>4. ~Before(r)' /\ ~With(r)'
      BY <3>1 DEF Before, With, Ensuring
    <3>5. QED
      BY <3>3, <3>4 DEF NamedOK
  <2>6. QED
    BY <1>14, <2>3, <2>4, <2>5 DEF ConfirmPatch
<1>15. CASE Succeed(r) \/ Rescue(r) \/ Always(r) \/ CallFails(r) \/ Kill(r)
  <2>1. Raise(r) \/ \E l \in {"always", "done", "killed"} : Goto(r, l)
    BY <1>15 DEF Succeed, Rescue, Always, ReleaseLock, Answered, CallFails, Kill
  <2>2. QED
    BY <1>2, <1>4, <2>1
<1>16. pc[r] \notin Purging
  BY <1>1 DEF Local
<1>17. QED
  BY <1>7, <1>8, <1>9, <1>10, <1>11, <1>12, <1>13, <1>14, <1>15, <1>16
  DEF Act, Run, Contract, Sweep, ReadMembers, CheckMissing, Delete, Readback, TagGuard, TagLookup,
      TagDelete, FinalServices, FinalTag, Purging

-----------------------------------------------------------------------------
(***************************************************************************)
(* The invariant.                                                          *)
(***************************************************************************)

\* Only a lookup that finds no record leads to a create.
LEMMA OnlyLookupCreates ==
  ASSUME CatalogTypeOK, NEW r \in Attempt, Act(r), pc'[r] = "create"
  PROVE  Lookup(r) /\ Own \cap exist = {}
<1>1. ~Raise(r)
  BY RaiseWalks
<1>2. \A l \in CatalogLabel \ {"create"} : ~Goto(r, l)
  BY GotoWalks
<1>3. {"members", "sweep", "ensure", "lookup", "guard", "tag-guard", "delete", "missing",
       "readback", "final-services", "tag-lookup", "tag-delete", "final-tag", "release", "always",
       "done", "lock", "ensure-create", "ensure-recheck", "patch", "confirm", "killed"}
      \subseteq CatalogLabel \ {"create"}
  BY DEF CatalogLabel, Body, Purging, Staging
<1>4. CASE Acquire(r) \/ Verify(r)
  BY <1>1, <1>4 DEF Acquire, Verify, CatalogTypeOK
<1>5. CASE Start(r) \/ Contract(r) \/ Guard(r) \/ Sweep(r) \/ ReadMembers(r)
  BY <1>1, <1>2, <1>3, <1>5 DEF Start, Contract, Guard, Checkpoint, Sweep, Answered, ReadMembers,
     AfterChecks
<1>6. CASE CheckMissing(r)
  BY <1>1, <1>2, <1>3, <1>6 DEF CheckMissing, AfterChecks
<1>7. CASE Delete(r) \/ Readback(r) \/ TagGuard(r) \/ TagLookup(r) \/ TagDelete(r)
  BY <1>1, <1>2, <1>3, <1>7 DEF Delete, Readback, AfterMembers, TagGuard, Checkpoint, TagLookup,
     TagDelete
<1>8. CASE FinalServices(r) \/ FinalTag(r) \/ Succeed(r) \/ Rescue(r) \/ Always(r)
  BY <1>1, <1>2, <1>3, <1>8 DEF FinalServices, FinalTag, Succeed, Rescue, Always, ReleaseLock,
     Answered
<1>9. CASE Ensure(r) \/ EnsureCreate(r) \/ EnsureRecheck(r)
  BY <1>1, <1>2, <1>3, <1>9 DEF Ensure, EnsureCreate, EnsureRecheck, Answered
<1>10. CASE Create(r) \/ Patch(r) \/ ConfirmPatch(r) \/ CallFails(r) \/ Kill(r)
  BY <1>1, <1>2, <1>3, <1>10 DEF Create, Patch, ConfirmPatch, Answered, CallFails, Kill
<1>11. CASE Lookup(r)
  BY <1>1, <1>2, <1>3, <1>11 DEF Lookup
<1>12. QED
  BY <1>4, <1>5, <1>6, <1>7, <1>8, <1>9, <1>10, <1>11 DEF Act, Run

\* What a step does to the set of records.
LEMMA RecordsMoves ==
  ASSUME NEW r \in Attempt, Act(r)
  PROVE  \/ exist' \subseteq exist /\ unborn' = unborn
         \/ /\ pc[r] = "create"
            /\ \E x \in Own \cap unborn : exist' = exist \cup {x} /\ unborn' = unborn \ {x}
<1>1. CASE Delete(r)
  BY <1>1 DEF Delete
<1>2. CASE Create(r)
  BY <1>2 DEF Create
<1>3. CASE ~Delete(r) /\ ~Create(r)
  BY <1>3
  DEF Act, Run, Start, Acquire, Verify, Contract, Guard, Checkpoint, Sweep, ReadMembers,
      CheckMissing, Readback, TagGuard, TagLookup, TagDelete, FinalServices, FinalTag, Succeed,
      Rescue, Always, ReleaseLock, Ensure, EnsureCreate, EnsureRecheck, Lookup, Patch,
      ConfirmPatch, CallFails, Kill, netbox
<1>4. QED
  BY <1>1, <1>2, <1>3

LEMMA RecordsStep ==
  ASSUME CatalogTypeOK, RecordsOK, NEW r \in Attempt, Act(r)
  PROVE  RecordsOK'
<1>1. \A m \in Attempt \ {r} : pc'[m] = pc[m]
  BY ActType DEF Frame, Walks
<1>2. CASE exist' \subseteq exist /\ unborn' = unborn
  <2>1. (\E m \in Attempt : pc'[m] = "create") => Born \cap exist = {}
    <3>1. CASE pc'[r] = "create"
      BY <3>1, OnlyLookupCreates DEF Born
    <3>2. CASE pc'[r] # "create"
      BY <1>1, <3>2 DEF RecordsOK
    <3>3. QED
      BY <3>1, <3>2
  <2>2. QED
    BY <1>2, <2>1 DEF RecordsOK, Born
<1>3. ASSUME pc[r] = "create", NEW x \in Own \cap unborn, exist' = exist \cup {x},
             unborn' = unborn \ {x}
      PROVE  RecordsOK'
  <2>1. Born \cap exist = {} /\ x \notin Born
    BY <1>3 DEF RecordsOK, Born
  <2>2. (Born \cap exist = {})'
    BY <1>3, <2>1 DEF Born
  <2>3. QED
    BY <1>3, <2>2 DEF RecordsOK
<1>4. QED
  BY <1>2, <1>3, RecordsMoves

\* An operator's edit, and time, leave every run where it is.
LEMMA OutsideStep ==
  ASSUME CatalogTypeOK, Edit \/ Expire \/ UNCHANGED catalogVars
  PROVE  /\ CatalogTypeOK' /\ UNCHANGED <<pc, events, believers, exist, unborn>>
         /\ \A m \in Attempt : SameFacts(m) /\ Undisturbed(m)
<1>1. UNCHANGED <<pc, events, believers, exist, unborn, facts, purgeFacts>>
  BY DEF Edit, Expire, Age, catalogVars, leaseVars, netbox
<1>2. FactType' /\ WalkType' /\ \A m \in Attempt : SameFacts(m)
  BY <1>1, TypeParts DEF FactType, WalkType, SameFacts, facts, purgeFacts
<1>3. CASE Edit
  <2>1. ASSUME NEW x \in exist, NEW T \in SUBSET Tag, tags' = [tags EXCEPT ![x] = T],
               moved' = [m \in Attempt |-> moved[m] \cup {x}], UNCHANGED <<tagObj, nextTag>>
        PROVE  CatalogTypeOK' /\ \A m \in Attempt : Undisturbed(m)
    <3>1. x \in Service
      BY TypeParts DEF NetType
    <3>2. /\ moved' \in [Attempt -> SUBSET Service]
          /\ \A m \in Attempt : moved'[m] = moved[m] \cup {x}
      BY <2>1, <3>1, TypeParts DEF NetType
    <3>3. tags' \in [Service -> SUBSET Tag] /\ \A y \in Service \ {x} : tags'[y] = tags[y]
      BY <2>1, TypeParts DEF NetType
    <3>4. NetType'
      BY <1>1, <2>1, <3>2, <3>3, TypeParts DEF NetType
    <3>5. RestType'
      BY <1>3, TypeParts DEF Edit, RestType, leaseVars
    <3>6. \A m \in Attempt : Undisturbed(m)
      BY <1>1, <3>2, <3>3 DEF Undisturbed
    <3>7. CatalogTypeOK'
      BY <1>2, <3>4, <3>5
      DEF CatalogTypeOK, LeaseTypeOK, NetType, FactType, WalkType, RestType
    <3>8. QED
      BY <3>6, <3>7
  <2>2. CASE UNCHANGED <<tagObj, nextTag>>
             /\ \E x \in exist :
                  /\ \/ tags' = [tags EXCEPT ![x] = @ \cup {"note"}]
                     \/ tags' = [tags EXCEPT ![x] = (@ \ Group) \cup {"other"}]
                  /\ moved' = [m \in Attempt |-> moved[m] \cup {x}]
    <3>1. PICK x \in exist :
            /\ \/ tags' = [tags EXCEPT ![x] = tags[x] \cup {"note"}]
               \/ tags' = [tags EXCEPT ![x] = (tags[x] \ Group) \cup {"other"}]
            /\ moved' = [m \in Attempt |-> moved[m] \cup {x}]
      BY <2>2
    <3>2. tags[x] \in SUBSET Tag
      BY TypeParts DEF NetType
    <3>3. tags[x] \cup {"note"} \in SUBSET Tag /\ (tags[x] \ Group) \cup {"other"} \in SUBSET Tag
      BY <3>2 DEF Tag, Group
    <3>4. QED
      BY <1>1, <1>2, <2>1, <2>2, <3>1, <3>3
  <2>3. NetType' /\ RestType' /\ (\A m \in Attempt : Undisturbed(m)) => CatalogTypeOK'
    BY <1>2 DEF CatalogTypeOK, LeaseTypeOK, NetType, FactType, WalkType, RestType
  <2>4. CASE UNCHANGED <<tags, moved>> /\ tagObj' = nextTag /\ nextTag' = nextTag + 1
    <3>1. NetType' /\ RestType' /\ \A m \in Attempt : Undisturbed(m)
      BY <1>1, <1>3, <2>4, TypeParts DEF Edit, NetType, RestType, leaseVars, Undisturbed
    <3>2. QED
      BY <1>1, <1>2, <2>3, <3>1
  <2>5. QED
    BY <1>1, <1>2, <1>3, <2>2, <2>4 DEF Edit
<1>4. CASE Expire
  <2>1. RestType' /\ UNCHANGED <<netbox, moved>>
    BY <1>4, TypeParts DEF Expire, Age, RestType
  <2>2. CatalogTypeOK'
    BY <1>2, <2>1, TypeParts
    DEF CatalogTypeOK, LeaseTypeOK, NetType, FactType, WalkType, RestType, netbox
  <2>3. QED
    BY <1>1, <1>2, <2>1, <2>2, RecordsStay
<1>5. CASE UNCHANGED catalogVars
  <2>1. RestType' /\ UNCHANGED <<netbox, moved>>
    BY <1>5, TypeParts DEF catalogVars, leaseVars, RestType
  <2>2. CatalogTypeOK'
    BY <1>2, <2>1, TypeParts
    DEF CatalogTypeOK, LeaseTypeOK, NetType, FactType, WalkType, RestType, netbox
  <2>3. QED
    BY <1>1, <1>2, <2>1, <2>2, RecordsStay
<1>6. QED
  BY <1>3, <1>4, <1>5

\* Every step is one of a run, or comes from outside.
LEMMA NextCases ==
  ASSUME [CatalogNext]_catalogVars
  PROVE  (\E r \in Attempt : Act(r)) \/ Edit \/ Expire \/ UNCHANGED catalogVars
  BY DEF CatalogNext, Act, Finished

LEMMA FrameKnows ==
  ASSUME CatalogTypeOK, NEW m \in Attempt, pc'[m] = pc[m], events'[m] = events[m], SameFacts(m),
         Undisturbed(m), NetType', Knows(m)
  PROVE  Knows(m)'
  BY FramePurge, FramePlay DEF Knows

LEMMA InvStep == CatalogInv /\ [CatalogNext]_catalogVars => CatalogInv'
<1> SUFFICES ASSUME CatalogInv, [CatalogNext]_catalogVars PROVE CatalogInv'
  OBVIOUS
<1>1. CatalogTypeOK /\ RecordsOK /\ \A m \in Attempt : Local(m) /\ Knows(m)
  BY DEF CatalogInv
<1>2. ASSUME NEW r \in Attempt, Act(r) PROVE CatalogInv'
  <2>1. CatalogTypeOK' /\ Walks(r) /\ Learns(r) /\ Writes(r)
    BY <1>1, <1>2, ActType DEF Frame
  <2>2. RecordsOK'
    BY <1>1, <1>2, RecordsStep
  <2>3. Local(r)'
    BY <1>1, <1>2, LocalStep
  <2>4. Knows(r)'
    <3>1. r \in Purge => PurgeOK(r)'
      BY <1>1, <1>2, PurgeStep DEF Knows
    <3>2. r \in Play => PlayOK(r)' /\ NamedOK(r)'
      BY <1>1, <1>2, PlayStep DEF Knows
    <3>3. QED
      BY <3>1, <3>2 DEF Knows
  <2>5. ASSUME NEW m \in Attempt \ {r} PROVE Local(m)' /\ Knows(m)'
    <3>1. Local(m)'
      BY <1>1, <2>1, FrameLocal
    <3>2. Knows(m)'
      BY <1>1, <2>1, FrameKnows DEF Walks, Learns, Writes
    <3>3. QED
      BY <3>1, <3>2
  <2>6. QED
    BY <2>1, <2>2, <2>3, <2>4, <2>5 DEF CatalogInv
<1>3. CASE Edit \/ Expire \/ UNCHANGED catalogVars
  <2>1. /\ CatalogTypeOK' /\ UNCHANGED <<pc, events, believers, exist, unborn>>
        /\ \A m \in Attempt : SameFacts(m) /\ Undisturbed(m)
    BY <1>1, <1>3, OutsideStep
  <2>2. RecordsOK'
    BY <1>1, <2>1 DEF RecordsOK, Born
  <2>3. ASSUME NEW m \in Attempt PROVE Local(m)' /\ Knows(m)'
    <3>1. Local(m)'
      BY <1>1, <2>1 DEF Local, EventsOK, SameFacts
    <3>2. Knows(m)'
      BY <1>1, <2>1, FrameKnows DEF CatalogTypeOK, NetType
    <3>3. QED
      BY <3>1, <3>2
  <2>4. QED
    BY <2>1, <2>2, <2>3 DEF CatalogInv
<1>4. QED
  BY <1>2, <1>3, NextCases

LEMMA InvInit == CatalogInit => CatalogInv
<1> SUFFICES ASSUME CatalogInit PROVE CatalogInv
  OBVIOUS
<1>1. CatalogTypeOK
  <2>1. NetType
    BY DEF CatalogInit, NetType, Tag, Lifecycle, Group
  <2>2. FactType
    BY DEF CatalogInit, FactType, Group
  <2>3. WalkType /\ RestType
    BY DEF CatalogInit, LeaseInit, WalkType, RestType, CatalogLabel
  <2>4. QED
    BY <2>1, <2>2, <2>3, TypeParts
<1>2. RecordsOK
  BY DEF CatalogInit, RecordsOK, Born
<1>3. ASSUME NEW r \in Attempt PROVE Local(r) /\ Knows(r)
  <2>1. pc[r] = "idle" /\ events[r] = <<>> /\ stage[r] = "provision"
    BY DEF CatalogInit
  <2>2. Local(r)
    BY <2>1 DEF Local, EventsOK, Spoken, Body, Purging, Staging
  <2>3. PurgeOK(r)
    BY <2>1 DEF PurgeOK, Said
  <2>4. PlayOK(r)
    BY <2>1 DEF PlayOK
  <2>5. NamedOK(r)
    BY <2>1 DEF CatalogInit, NamedOK, With, Born
  <2>6. QED
    BY <2>2, <2>3, <2>4, <2>5 DEF Knows
<1>4. QED
  BY <1>1, <1>2, <1>3 DEF CatalogInv

LEMMA CatalogAlways == CatalogSpec => []CatalogInv
  BY InvInit, InvStep, PTL DEF CatalogSpec

(***************************************************************************)
(* The types of the model are preserved.                                   *)
(***************************************************************************)
THEOREM CatalogTypeCorrect == CatalogSpec => []CatalogTypeOK
<1>1. CatalogInv => CatalogTypeOK
  BY DEF CatalogInv
<1>2. QED
  BY <1>1, CatalogAlways, PTL

(***************************************************************************)
(* Every purge emits at most one event, and one when it is done            *)
(* (finalise-purge.yml: "on every terminal exit").                         *)
(***************************************************************************)
THEOREM PurgeEmitsOnce == CatalogSpec => []OnePurgeEvent
<1>1. CatalogInv => OnePurgeEvent
  BY DEF CatalogInv, OnePurgeEvent, Local, EventsOK, Spoken
<1>2. QED
  BY <1>1, CatalogAlways, PTL

(***************************************************************************)
(* A purge that reports success leaves none of the records it was asked to *)
(* delete, unless somebody else changed one after it had read the          *)
(* workload.                                                               *)
(***************************************************************************)
THEOREM SuccessTellsTheTruth == CatalogSpec => []SuccessMeansGone
<1>1. CatalogInv => SuccessMeansGone
  BY DEF CatalogInv, SuccessMeansGone, Knows, PurgeOK, Kept
<1>2. QED
  BY <1>1, CatalogAlways, PTL

(***************************************************************************)
(* A launch that reaches its end leaves its record active and in its       *)
(* workload, unless somebody else changed it.                              *)
(***************************************************************************)
THEOREM LaunchKeepsItsGroup == CatalogSpec => []LaunchedIsGrouped
<1>1. CatalogInv => LaunchedIsGrouped
  BY DEF CatalogInv, LaunchedIsGrouped, Knows, PlayOK
<1>2. QED
  BY <1>1, CatalogAlways, PTL

-----------------------------------------------------------------------------
(***************************************************************************)
(* Action properties.                                                      *)
(***************************************************************************)

\* A run moves by itself.
LEMMA MovesItself ==
  ASSUME CatalogTypeOK, [CatalogNext]_catalogVars, NEW r \in Attempt, pc'[r] # pc[r]
  PROVE  Act(r)
<1>1. ASSUME NEW q \in Attempt \ {r}, Act(q) PROVE FALSE
  BY <1>1, ActType DEF Frame, Walks
<1>2. CASE Edit \/ Expire \/ UNCHANGED catalogVars
  BY <1>2, OutsideStep
<1>3. QED
  BY <1>1, <1>2, NextCases

(***************************************************************************)
(* What a purge deletes is an expected and finalised record of its         *)
(* workload, unless somebody else changed it after the read                *)
(* (purge_workload_records.yml).                                           *)
(***************************************************************************)
THEOREM PurgeDeletesOnlyResidue == CatalogSpec => DeletesOnlyResidue
<1>1. ASSUME CatalogInv, [CatalogNext]_catalogVars, NEW p \in Purge,
             pc[p] = "delete", pc'[p] = "readback", NEW x \in (exist \ exist') \ moved[p]
      PROVE  x \in expected[p] /\ Residue(x)
  <2>1. Act(p)
    BY <1>1, MovesItself DEF CatalogInv
  <2>2. Delete(p)
    <3>1. ~Kill(p)
      BY <1>1, GotoWalks DEF Kill, CatalogInv, CatalogLabel
    <3>2. QED
      BY <1>1, <2>1, <3>1
      DEF Act, Run, Start, Acquire, Verify, Contract, Guard, Sweep, ReadMembers, CheckMissing,
          Readback, TagGuard, TagLookup, TagDelete, FinalServices, FinalTag, Succeed, Rescue,
          Always, Ensure, EnsureCreate, EnsureRecheck, Lookup, Create, Patch, ConfirmPatch,
          CallFails
  <2>3. PurgeOK(p)
    BY <1>1 DEF CatalogInv, Knows
  <2>4. x \in todo[p]
    BY <1>1, <2>2 DEF Delete
  <2>5. x \in AsRead(p)
    BY <1>1, <2>3, <2>4 DEF PurgeOK, AsRead
  <2>6. QED
    BY <1>1, <2>3, <2>5 DEF PurgeOK, Sound
<1>2. CatalogInv /\ [CatalogNext]_catalogVars =>
        [\A p \in Purge :
           pc[p] = "delete" /\ pc'[p] = "readback" =>
             \A x \in (exist \ exist') \ moved[p] : x \in expected[p] /\ Residue(x)]_catalogVars
  BY <1>1
<1>3. QED
  BY <1>2, CatalogAlways, PTL DEF CatalogSpec, DeletesOnlyResidue

(***************************************************************************)
(* A purge does not delete the Tag while a record carries it, unless       *)
(* somebody else moved the record there after the read.                    *)
(***************************************************************************)
THEOREM TagGoesLast == CatalogSpec => TagOutlivesMembers
<1>1. CatalogInv =>
        [\A p \in Purge :
           pc[p] = "tag-delete" /\ pc'[p] = "final-services" /\ tagObj' # tagObj =>
             Members \subseteq moved[p]]_catalogVars
  BY DEF CatalogInv, Knows, PurgeOK
<1>2. QED
  BY <1>1, CatalogAlways, PTL DEF TagOutlivesMembers

(***************************************************************************)
(* A stage drops a tag outside its namespace only if somebody else set it  *)
(* after the stage's read (patch_service_tags_verified.yml).               *)
(***************************************************************************)
THEOREM ForeignTagsSurvive == CatalogSpec => NotesSurvive
<1>1. ASSUME CatalogInv, [CatalogNext]_catalogVars, NEW r \in Play,
             pc[r] = "patch", pc'[r] # "patch", "note" \in tags[id[r]] \ tags'[id[r]]
      PROVE  "note" \notin read[r] /\ id[r] \in moved[r]
  <2>1. Act(r)
    BY <1>1, MovesItself DEF CatalogInv
  <2>2. ~Patch(r) => UNCHANGED tags
    BY <1>1, <2>1
    DEF Act, Run, Start, Acquire, Verify, Contract, Guard, Sweep, ReadMembers, CheckMissing,
        Delete, Readback, TagGuard, TagLookup, TagDelete, FinalServices, FinalTag, Succeed, Rescue,
        Always, Ensure, EnsureCreate, EnsureRecheck, Lookup, Create, ConfirmPatch, CallFails, Kill,
        netbox
  <2>3. id[r] \in exist /\ tags' = [tags EXCEPT ![id[r]] = Merged(r, Desired(r))]
    BY <1>1, <2>2 DEF Patch
  <2>4. tags'[id[r]] = Merged(r, Desired(r))
    BY <1>1, <2>3 DEF CatalogInv, CatalogTypeOK
  <2>5. "note" \in read[r] => "note" \in Merged(r, Desired(r))
    BY DEF Merged, Owned, Lifecycle, Group
  <2>6. "note" \notin read[r]
    BY <1>1, <2>4, <2>5
  <2>7. QED
    BY <1>1, <2>3, <2>6 DEF CatalogInv, Knows, PlayOK
<1>2. CatalogInv /\ [CatalogNext]_catalogVars =>
        [\A r \in Play :
           pc[r] = "patch" /\ pc'[r] # "patch" /\ "note" \in tags[id[r]] \ tags'[id[r]]
             => "note" \notin read[r] /\ id[r] \in moved[r]]_catalogVars
  BY <1>1
<1>3. QED
  BY <1>2, CatalogAlways, PTL DEF CatalogSpec, NotesSurvive

-----------------------------------------------------------------------------
(***************************************************************************)
(* The lease.                                                              *)
(***************************************************************************)

\* Leaving the body is a step of the lease, or none.
LEMMA GotoLease ==
  ASSUME CatalogTypeOK, NEW r \in Attempt, NEW l, Goto(r, l), UNCHANGED leaseCatalogVars
  PROVE  [LeaseNext]_leaseVars
  BY DEF Goto, leaseCatalogVars, leaseVars, LeaseNext, Withdraw, CatalogTypeOK, LeaseTypeOK

LEMMA RaiseLease ==
  ASSUME CatalogTypeOK, NEW r \in Attempt, Raise(r), UNCHANGED leaseCatalogVars
  PROVE  [LeaseNext]_leaseVars
  BY GotoLease DEF Raise

LEMMA LeaseAct ==
  ASSUME CatalogTypeOK, NEW r \in Attempt, Act(r)
  PROVE  [LeaseNext]_leaseVars
<1>1. Grant(r) \/ Confirm(r) \/ Release(r) \/ Evict => [LeaseNext]_leaseVars
  BY DEF LeaseNext
<1>2. CASE Acquire(r)
  BY <1>1, <1>2, RaiseLease DEF Acquire
<1>3. CASE Verify(r)
  BY <1>1, <1>3, RaiseLease DEF Verify
<1>4. CASE Succeed(r)
  BY <1>1, <1>4, GotoLease, RaiseLease DEF Succeed
<1>5. CASE Rescue(r) \/ Always(r)
  BY <1>1, <1>5, GotoLease, RaiseLease DEF Rescue, Always, ReleaseLock
<1>6. CASE UNCHANGED leaseCatalogVars /\ (Raise(r) \/ \E l \in CatalogLabel : Goto(r, l))
  BY <1>6, GotoLease, RaiseLease
<1>7. {"members", "sweep", "ensure", "lookup", "guard", "tag-guard", "delete", "missing",
       "readback", "final-services", "tag-lookup", "tag-delete", "final-tag", "release", "always",
       "done", "lock", "ensure-create", "ensure-recheck", "patch", "create", "confirm", "killed"}
      \subseteq CatalogLabel
  BY DEF CatalogLabel, Body, Purging, Staging
<1>8. CASE Start(r) \/ Contract(r) \/ Guard(r) \/ Sweep(r) \/ ReadMembers(r)
  BY <1>6, <1>7, <1>8 DEF Start, Contract, Guard, Checkpoint, Sweep, Answered, ReadMembers,
     AfterChecks
<1>9. CASE CheckMissing(r)
  <2>1. CASE UNCHANGED <<pc, believers, events>>
    BY <1>9, <2>1 DEF CheckMissing, leaseCatalogVars, leaseVars
  <2>2. CASE ~UNCHANGED <<pc, believers, events>>
    BY <1>6, <1>7, <1>9, <2>2 DEF CheckMissing, AfterChecks
  <2>3. QED
    BY <2>1, <2>2
<1>10. CASE Delete(r) \/ Readback(r) \/ TagGuard(r) \/ TagLookup(r) \/ TagDelete(r)
  BY <1>6, <1>7, <1>10 DEF Delete, Readback, AfterMembers, TagGuard, Checkpoint, TagLookup,
     TagDelete
<1>11. CASE FinalServices(r) \/ FinalTag(r) \/ Ensure(r) \/ EnsureCreate(r) \/ EnsureRecheck(r)
  BY <1>6, <1>7, <1>11 DEF FinalServices, FinalTag, Ensure, EnsureCreate, EnsureRecheck, Answered
<1>12. CASE Lookup(r) \/ Create(r) \/ Patch(r) \/ ConfirmPatch(r) \/ CallFails(r) \/ Kill(r)
  BY <1>6, <1>7, <1>12 DEF Lookup, Create, Patch, ConfirmPatch, Answered, CallFails, Kill
<1>13. QED
  BY <1>2, <1>3, <1>4, <1>5, <1>8, <1>9, <1>10, <1>11, <1>12 DEF Act, Run

(***************************************************************************)
(* Purge, launch and teardown keep to the lease.                           *)
(***************************************************************************)
THEOREM CatalogKeepsTheLease == CatalogSpec => LeaseSpec
<1>1. CatalogInit => LeaseInit
  BY DEF CatalogInit
<1>2. CatalogInv /\ [CatalogNext]_catalogVars => [LeaseNext]_leaseVars
  <2> SUFFICES ASSUME CatalogInv, [CatalogNext]_catalogVars PROVE [LeaseNext]_leaseVars
    OBVIOUS
  <2>1. ASSUME NEW r \in Attempt, Act(r) PROVE [LeaseNext]_leaseVars
    BY <2>1, LeaseAct DEF CatalogInv
  <2>2. CASE Edit \/ UNCHANGED catalogVars
    BY <2>2 DEF Edit, catalogVars
  <2>3. CASE Expire
    BY <2>3 DEF Expire, LeaseNext
  <2>4. QED
    BY <2>1, <2>2, <2>3, NextCases
<1>3. QED
  BY <1>1, <1>2, CatalogAlways, PTL DEF CatalogSpec, LeaseSpec

(***************************************************************************)
(* So that a purge, launch or teardown that acts as the holder inside its  *)
(* term owns the facility.                                                 *)
(***************************************************************************)
THEOREM CatalogHonoursTerms == CatalogSpec => []TermHonoured
  BY CatalogKeepsTheLease, LeaseHonoursTerms, PTL

\* Only a run in its body changes records, and it counts no change as somebody else's.
LEMMA MovedByWhom ==
  ASSUME CatalogTypeOK, NEW q \in Attempt, Act(q)
  PROVE  /\ moved'[q] \subseteq moved[q]
         /\ (\E m \in Attempt \ {q} : moved'[m] # moved[m]) => pc[q] \in Body /\ pc'[q] # pc[q]
<1>1. ASSUME NEW l \in CatalogLabel, Goto(q, l) PROVE pc'[q] = l
  BY <1>1, GotoWalks
<1>2. ASSUME NEW X \in SUBSET Service, Fresh(q, X)
      PROVE  moved'[q] \subseteq moved[q] /\ \A m \in Attempt \ {q} : moved'[m] = moved[m]
  BY <1>2 DEF Fresh, CatalogTypeOK
<1>3. ASSUME NEW X \in SUBSET Service, Moves(q, X) PROVE moved'[q] = moved[q]
  BY <1>3, MovesAdds
<1>4. ASSUME NEW l \in CatalogLabel, Answered(q, l) PROVE pc'[q] \in {l, "rescue", "always", "done"}
  BY <1>1, <1>4, RaiseWalks DEF Answered
<1>5. {"readback", "final-services", "patch", "confirm"} \subseteq CatalogLabel
      /\ {"delete", "tag-delete", "create", "patch"} \subseteq Body
  BY DEF CatalogLabel, Body, Purging, Staging
<1>6. CASE UNCHANGED moved
  BY <1>6
<1>7. CASE ReadMembers(q)
  BY <1>2, <1>7 DEF ReadMembers
<1>8. CASE Lookup(q)
  <2>1. CASE UNCHANGED moved
    BY <2>1
  <2>2. CASE \E x \in Own \cap exist : Fresh(q, {x})
    <3>1. PICK X \in SUBSET Service : Fresh(q, X)
      BY <2>2
    <3>2. QED
      BY <1>2, <3>1
  <2>3. QED
    BY <1>8, <2>1, <2>2 DEF Lookup
<1>9. CASE Delete(q)
  <2>1. pc[q] = "delete" /\ pc'[q] = "readback"
    BY <1>1, <1>5, <1>9 DEF Delete
  <2>2. UNCHANGED moved \/ \E X \in SUBSET Service : Moves(q, X)
    <3>1. ASSUME NEW x, Moves(q, {x} \cap exist) PROVE \E X \in SUBSET Service : Moves(q, X)
      <4>1. {x} \cap exist \in SUBSET Service
        BY DEF CatalogTypeOK
      <4>2. QED
        BY <3>1, <4>1
    <3>2. QED
      BY <1>9, <3>1 DEF Delete
  <2>3. QED
    BY <1>3, <1>5, <2>1, <2>2
<1>10. CASE TagDelete(q)
  <2>1. pc[q] = "tag-delete" /\ pc'[q] = "final-services"
    BY <1>1, <1>5, <1>10 DEF TagDelete
  <2>2. UNCHANGED moved \/ Moves(q, Members)
    BY <1>10 DEF TagDelete
  <2>3. Members \in SUBSET Service
    BY DEF Members, CatalogTypeOK
  <2>4. QED
    BY <1>3, <1>5, <2>1, <2>2, <2>3
<1>11. CASE Create(q)
  <2>1. CASE UNCHANGED moved
    BY <2>1
  <2>2. ASSUME NEW x \in Own, Moves(q, {x}), Answered(q, "patch")
        PROVE  moved'[q] = moved[q] /\ pc[q] = "create" /\ pc'[q] # "create"
    <3>1. {x} \in SUBSET Service
      OBVIOUS
    <3>2. QED
      BY <1>3, <1>4, <1>5, <1>11, <2>2, <3>1 DEF Create
  <2>3. QED
    BY <1>5, <1>11, <2>1, <2>2 DEF Create
<1>12. CASE Patch(q)
  <2>1. CASE UNCHANGED moved
    BY <2>1
  <2>2. CASE Moves(q, {id[q]}) /\ Answered(q, "confirm")
    <3>1. {id[q]} \in SUBSET Service
      BY DEF CatalogTypeOK
    <3>2. moved'[q] = moved[q] /\ pc[q] = "patch" /\ pc'[q] # "patch"
      BY <1>3, <1>4, <1>5, <1>12, <2>2, <3>1 DEF Patch
    <3>3. QED
      BY <1>5, <3>2
  <2>3. QED
    BY <1>12, <2>1, <2>2 DEF Patch
<1>13. QED
  BY <1>6, <1>7, <1>8, <1>9, <1>10, <1>11, <1>12
  DEF Act, Run, Start, Acquire, Verify, Contract, Guard, Checkpoint, Sweep, CheckMissing, Readback,
      TagGuard, TagLookup, FinalServices, FinalTag, Succeed, Rescue, Always, ReleaseLock, Ensure,
      EnsureCreate, EnsureRecheck, ConfirmPatch, CallFails, Kill

(***************************************************************************)
(* While a run owns the facility, nobody changes a record it relies on but *)
(* an operator, or a run whose lease term is over.                         *)
(***************************************************************************)
THEOREM OwnersAreDisturbedOnlyByStrays == CatalogSpec => DisturbedOnlyByStrays
<1>1. ASSUME CatalogInv, TermHonoured, [CatalogNext]_catalogVars, NEW r \in Attempt,
             owner = r, ~(moved'[r] \subseteq moved[r])
      PROVE  edits' # edits \/ \E q \in aged \ {r} : pc'[q] # pc[q]
  <2>1. CASE Edit
    BY <1>1, <2>1 DEF Edit, CatalogInv, CatalogTypeOK
  <2>2. CASE Expire \/ UNCHANGED catalogVars
    BY <1>1, <2>2 DEF Expire, catalogVars
  <2>3. ASSUME NEW q \in Attempt, Act(q) PROVE \E p \in aged \ {r} : pc'[p] # pc[p]
    <3>1. q # r
      BY <1>1, <2>3, MovedByWhom DEF CatalogInv
    <3>2. pc[q] \in Body /\ pc'[q] # pc[q]
      BY <1>1, <2>3, <3>1, MovedByWhom DEF CatalogInv
    <3>3. q \in believers
      BY <1>1, <3>2 DEF CatalogInv, Local
    <3>4. QED
      BY <1>1, <3>1, <3>2, <3>3 DEF TermHonoured
  <2>4. QED
    BY <1>1, <2>1, <2>2, <2>3, NextCases
<1>2. CatalogInv /\ TermHonoured /\ [CatalogNext]_catalogVars =>
        [\A r \in Attempt :
           owner = r /\ ~(moved'[r] \subseteq moved[r]) =>
             edits' # edits \/ \E q \in aged \ {r} : pc'[q] # pc[q]]_catalogVars
  BY <1>1
<1>3. QED
  BY <1>2, CatalogAlways, CatalogHonoursTerms, PTL DEF CatalogSpec, DisturbedOnlyByStrays
=============================================================================
