------------------------- MODULE HelmRollbackProofs -------------------------
(***************************************************************************)
(* Proofs about HelmRollback, for any releases, contents, sources, number  *)
(* of changes and rollbacks, and any set of faults.                        *)
(***************************************************************************)
EXTENDS HelmRollback, TLAPS

-----------------------------------------------------------------------------
\* The inductive invariant.

AfterRead == {"cleanup", "cm-delete", "coordinator", "select", "deselect", "terminal"}
Looping == {"uninstall", "restore", "readback"}

\* A recorded release has a recorded revision.
BaselineOK == \A r \in PreRun : base[r].rev >= 1

\* The revision a release was recorded with deploys the recorded content.
Recoverable(r) ==
  base[r].rev <= Len(revs[r]) /\ revs[r][base[r].rev] = base[r].content

UnchangedAsRecorded ==
  stage \notin {"fresh", "refused"} =>
    \A r \in Release \ changed : /\ Current(r) = base[r].content
                                 /\ r \in PreRun => Recoverable(r)

\* Nothing the snapshot holds is removed, and nothing else restored.
LoopsFollowPlan ==
  /\ stage \in Looping \cup AfterRead \cup {"readback-fetch"} =>
       removals \subseteq Release \ PreRun /\ restores \subseteq PreRun
  /\ stage = "uninstall" => todo \subseteq removals
  /\ stage = "restore" => todo \subseteq restores

\* What a listing, and the plan made of it, missed was changed since.
ListingsAreComplete ==
  /\ stage = "fetch" => \A r \in Release \ moved : ident[r] = NoContent => revs[r] = <<>>
  /\ stage \in Looping \cup AfterRead \cup {"readback-fetch"} =>
       \A r \in Release \ (PreRun \cup removals \cup moved) : revs[r] = <<>>
  /\ stage = "readback-fetch" => \A r \in Release \ late : ident[r] = NoContent => revs[r] = <<>>
  /\ stage \in AfterRead \cup {"readback-fetch"} => late \subseteq moved

CleanSoFar ==
  stage \in AfterRead /\ ~dirty =>
    /\ \A r \in PreRun \ late : Current(r) = base[r].content
    /\ \A r \in removals \ late : revs[r] = <<>>

\* What a rollback nobody disturbs still has to do.
CalmSoFar ==
  calm /\ stage \in Rolling =>
    /\ ~dirty
    /\ \A r \in PreRun : Recoverable(r)
    /\ stage \in {"fetch", "readback-fetch"} =>
         \A r \in Release : ident[r] = NoContent <=> revs[r] = <<>>
    /\ stage \in Looping \cup {"readback-fetch"} =>
         \A r \in Release \ PreRun : revs[r] # <<>> => stage = "uninstall" /\ r \in todo
    /\ stage \in Looping \cup {"readback-fetch"} =>
         \A r \in PreRun : Current(r) # base[r].content =>
           \/ stage = "uninstall" /\ r \in restores
           \/ stage = "restore" /\ r \in todo

CoordinatorSoFar ==
  /\ stage = "cm-delete" => Installed \cap MxlRelease \subseteq moved
  /\ stage = "deselect" => baseActive = NoSource
  /\ stage = "terminal" /\ optedIn => active = baseActive

HelmInv ==
  /\ HelmTypeOK /\ BaselineOK /\ UnchangedAsRecorded /\ LoopsFollowPlan
  /\ ListingsAreComplete /\ CleanSoFar /\ CalmSoFar /\ CoordinatorSoFar

-----------------------------------------------------------------------------
\* Revisions.

LEMMA LastRevision ==
  ASSUME NEW s \in Seq(Content), s # <<>>
  PROVE  Len(s) \in Nat /\ Len(s) >= 1 /\ Last(s) = s[Len(s)] /\ Last(s) \in Content
  BY DEF Last

LEMMA NextRevision ==
  ASSUME NEW s \in Seq(Content), NEW c \in Content
  PROVE  /\ Append(s, c) \in Seq(Content) /\ Append(s, c) # <<>>
         /\ Len(Append(s, c)) = Len(s) + 1 /\ Last(Append(s, c)) = c
         /\ \A i \in 1..Len(s) : Append(s, c)[i] = s[i]
  BY DEF Last

\* A helm rollback to a revision there is deploys its content, and loses none.
LEMMA RolledBack ==
  ASSUME HelmTypeOK, BaselineOK, NEW r \in PreRun
  PROVE  /\ HelmRollbackTo(r) \in Seq(Content)
         /\ HelmRollbackTo(r) = <<>> => revs[r] = <<>>
         /\ Recoverable(r) =>
              /\ HelmRollbackTo(r) # <<>> /\ Last(HelmRollbackTo(r)) = base[r].content
              /\ base[r].rev <= Len(HelmRollbackTo(r))
              /\ HelmRollbackTo(r)[base[r].rev] = base[r].content
<1>1. /\ r \in Release /\ revs[r] \in Seq(Content)
      /\ base[r].rev \in Nat /\ base[r].rev >= 1
  BY DEF HelmTypeOK, BaselineOK, PreRun
<1>2. CASE base[r].rev <= Len(revs[r])
  <2>1. revs[r][base[r].rev] \in Content
    BY <1>1, <1>2
  <2>2. HelmRollbackTo(r) = Append(revs[r], revs[r][base[r].rev])
    BY <1>2 DEF HelmRollbackTo
  <2>3. QED
    BY <1>1, <1>2, <2>1, <2>2, NextRevision DEF Recoverable
<1>3. CASE ~(base[r].rev <= Len(revs[r]))
  BY <1>1, <1>3 DEF HelmRollbackTo, Recoverable
<1>4. QED
  BY <1>2, <1>3

LEMMA CurrentFacts ==
  ASSUME HelmTypeOK, NEW r \in Release
  PROVE  /\ revs[r] \in Seq(Content)
         /\ Current(r) = NoContent <=> revs[r] = <<>>
         /\ revs[r] # <<>> => Current(r) \in Content /\ Current(r) = Last(revs[r])
<1>1. revs[r] \in Seq(Content)
  BY DEF HelmTypeOK
<1>2. QED
  BY <1>1, LastRevision, HelmAssumption DEF Current

\* What a listing shows of a release.
LEMMA ListedFacts ==
  ASSUME HelmTypeOK, NEW names, NEW failed
  PROVE  /\ Listed(names, failed) \in [Release -> Content \cup {NoContent, Unknown}]
         /\ \A r \in Release :
              /\ Listed(names, failed)[r] = NoContent <=> r \notin names
              /\ Listed(names, failed)[r] \notin {NoContent, Unknown} =>
                   Listed(names, failed)[r] = Current(r)
              /\ r \in names /\ Listed(names, failed)[r] # Unknown => revs[r] # <<>>
  BY CurrentFacts, HelmAssumption DEF Listed
-----------------------------------------------------------------------------
LEMMA InitEstablishesInv == HelmInit => HelmInv
<1> SUFFICES ASSUME HelmInit PROVE HelmInv
  OBVIOUS
<1>1. stage = "fresh" /\ \A r \in Release : base[r] = [rev |-> 0, content |-> NoContent]
  BY DEF HelmInit, NothingRecorded
<1>2. HelmTypeOK
  <2>1. revs \in [Release -> Seq(Content)]
    <3>1. <<>> \in Seq(Content) /\ \A c \in Content : <<c>> \in Seq(Content)
      OBVIOUS
    <3>2. revs \in [Release -> {<<>>} \cup {<<c>> : c \in Content}]
      BY DEF HelmInit
    <3>3. QED
      BY <3>1, <3>2
  <2>2. /\ cm \in BOOLEAN /\ active \in Source \cup {NoSource} /\ optedIn \in BOOLEAN
        /\ 0 \in 0..MaxTries /\ 0 \in 0..MaxChanges
    BY HelmAssumption DEF HelmInit
  <2>3. QED
    BY <1>1, <2>1, <2>2 DEF HelmInit, HelmTypeOK, NothingRecorded, HelmStage
<1>3. BaselineOK
  BY <1>1 DEF BaselineOK, PreRun
<1>4. UnchangedAsRecorded /\ LoopsFollowPlan /\ ListingsAreComplete /\ CleanSoFar /\ CalmSoFar /\ CoordinatorSoFar
  BY <1>1 DEF UnchangedAsRecorded, LoopsFollowPlan, ListingsAreComplete, CleanSoFar, CalmSoFar,
     CoordinatorSoFar, Rolling, Loops, AfterRead, Looping
<1>5. QED
  BY <1>2, <1>3, <1>4 DEF HelmInv

LEMMA LaunchSelectKeeps == HelmInv /\ LaunchSelect => HelmInv'
  BY HelmAssumption
  DEF LaunchSelect, Current, PreRun, Recoverable, Installed, HelmInv, HelmTypeOK, BaselineOK, UnchangedAsRecorded, LoopsFollowPlan,
      ListingsAreComplete, CleanSoFar, CalmSoFar, CoordinatorSoFar, cluster, snapshot, plan, local, counters,
      helmHistory, HelmStage, Rolling, Loops, AfterRead, Looping

LEMMA LaunchFailsKeeps == HelmInv /\ LaunchFails => HelmInv'
  BY HelmAssumption
  DEF LaunchFails, Current, PreRun, Recoverable, Installed, HelmInv, HelmTypeOK, BaselineOK, UnchangedAsRecorded, LoopsFollowPlan,
      ListingsAreComplete, CleanSoFar, CalmSoFar, CoordinatorSoFar, cluster, snapshot, plan, local, counters,
      helmHistory, HelmStage, Rolling, Loops, AfterRead, Looping

LEMMA SwitchSelectsKeeps == HelmInv /\ SwitchSelects => HelmInv'
  BY HelmAssumption
  DEF SwitchSelects, Current, PreRun, Recoverable, Installed, HelmInv, HelmTypeOK, BaselineOK, UnchangedAsRecorded, LoopsFollowPlan,
      ListingsAreComplete, CleanSoFar, CalmSoFar, CoordinatorSoFar, cluster, snapshot, plan, local, counters,
      helmHistory, HelmStage, Rolling, Loops, AfterRead, Looping

LEMMA UninstallsDoneKeeps == HelmInv /\ UninstallsDone => HelmInv'
  BY HelmAssumption
  DEF UninstallsDone, Current, PreRun, Recoverable, Installed, HelmInv, HelmTypeOK, BaselineOK, UnchangedAsRecorded, LoopsFollowPlan,
      ListingsAreComplete, CleanSoFar, CalmSoFar, CoordinatorSoFar, cluster, snapshot, plan, local, counters,
      helmHistory, HelmStage, Rolling, Loops, AfterRead, Looping

LEMMA RestoresDoneKeeps == HelmInv /\ RestoresDone => HelmInv'
  BY HelmAssumption
  DEF RestoresDone, Current, PreRun, Recoverable, Installed, HelmInv, HelmTypeOK, BaselineOK, UnchangedAsRecorded, LoopsFollowPlan,
      ListingsAreComplete, CleanSoFar, CalmSoFar, CoordinatorSoFar, cluster, snapshot, plan, local, counters,
      helmHistory, HelmStage, Rolling, Loops, AfterRead, Looping

LEMMA CleanupKeeps == HelmInv /\ Cleanup => HelmInv'
  BY HelmAssumption
  DEF Cleanup, Remaining, Current, PreRun, Recoverable, Installed, HelmInv, HelmTypeOK, BaselineOK, UnchangedAsRecorded, LoopsFollowPlan,
      ListingsAreComplete, CleanSoFar, CalmSoFar, CoordinatorSoFar, cluster, snapshot, plan, local, counters,
      helmHistory, HelmStage, Rolling, Loops, AfterRead, Looping

LEMMA CmDeleteKeeps == HelmInv /\ CmDelete => HelmInv'
<1> SUFFICES ASSUME HelmInv, CmDelete PROVE HelmInv'
  OBVIOUS
<1> USE DEF cluster, snapshot, plan, local, counters, helmHistory, PreRun, Recoverable, Current
<1>1. HelmTypeOK'
  BY DEF HelmInv, CmDelete, HelmTypeOK, HelmStage, Rolling
<1>2. BaselineOK' /\ UnchangedAsRecorded'
  BY DEF HelmInv, CmDelete, BaselineOK, UnchangedAsRecorded
<1>3. LoopsFollowPlan' /\ ListingsAreComplete' /\ CleanSoFar'
  BY DEF HelmInv, CmDelete, LoopsFollowPlan, ListingsAreComplete, CleanSoFar, AfterRead, Looping
<1>4. CalmSoFar' /\ CoordinatorSoFar'
  BY DEF HelmInv, CmDelete, CalmSoFar, CoordinatorSoFar, Rolling, Looping, Loops
<1>5. QED
  BY <1>1, <1>2, <1>3, <1>4 DEF HelmInv

LEMMA CoordinatorKeeps == HelmInv /\ Coordinator => HelmInv'
  BY HelmAssumption
  DEF Coordinator, Current, PreRun, Recoverable, Installed, HelmInv, HelmTypeOK, BaselineOK, UnchangedAsRecorded, LoopsFollowPlan,
      ListingsAreComplete, CleanSoFar, CalmSoFar, CoordinatorSoFar, cluster, snapshot, plan, local, counters,
      helmHistory, HelmStage, Rolling, Loops, AfterRead, Looping

LEMMA PatchActiveKeeps == HelmInv /\ PatchActive => HelmInv'
  BY HelmAssumption
  DEF PatchActive, Current, PreRun, Recoverable, Installed, HelmInv, HelmTypeOK, BaselineOK, UnchangedAsRecorded, LoopsFollowPlan,
      ListingsAreComplete, CleanSoFar, CalmSoFar, CoordinatorSoFar, cluster, snapshot, plan, local, counters,
      helmHistory, HelmStage, Rolling, Loops, AfterRead, Looping

LEMMA TerminalKeeps == HelmInv /\ Terminal => HelmInv'
  BY HelmAssumption
  DEF Terminal, Current, PreRun, Recoverable, Installed, HelmInv, HelmTypeOK, BaselineOK, UnchangedAsRecorded, LoopsFollowPlan,
      ListingsAreComplete, CleanSoFar, CalmSoFar, CoordinatorSoFar, cluster, snapshot, plan, local, counters,
      helmHistory, HelmStage, Rolling, Loops, AfterRead, Looping

LEMMA CallFailsKeeps == HelmInv /\ CallFails => HelmInv'
  BY HelmAssumption
  DEF CallFails, Abort, Current, PreRun, Recoverable, Installed, HelmInv, HelmTypeOK, BaselineOK, UnchangedAsRecorded, LoopsFollowPlan,
      ListingsAreComplete, CleanSoFar, CalmSoFar, CoordinatorSoFar, cluster, snapshot, plan, local, counters,
      helmHistory, HelmStage, Rolling, Loops, AfterRead, Looping

LEMMA KillKeeps == HelmInv /\ Kill => HelmInv'
  BY HelmAssumption
  DEF Kill, Abort, Current, PreRun, Recoverable, Installed, HelmInv, HelmTypeOK, BaselineOK, UnchangedAsRecorded, LoopsFollowPlan,
      ListingsAreComplete, CleanSoFar, CalmSoFar, CoordinatorSoFar, cluster, snapshot, plan, local, counters,
      helmHistory, HelmStage, Rolling, Loops, AfterRead, Looping
\* A release changes, and joins `changed`: others are as they were.
LEMMA DeployKeeps == HelmInv /\ Deploy => HelmInv'
<1> SUFFICES ASSUME HelmInv, Deploy PROVE HelmInv'
  OBVIOUS
<1> USE DEF cluster, snapshot, plan, local, counters, helmHistory
<1>1. HelmTypeOK /\ stage = "launch"
  BY DEF HelmInv, Deploy
<1>2. PICK r \in Release, c \in Content :
        revs' = [revs EXCEPT ![r] = Append(revs[r], c)] /\ changed' = changed \cup {r}
  BY DEF Deploy
<1>3. revs' \in [Release -> Seq(Content)] /\ \A other \in Release \ {r} : revs'[other] = revs[other]
  BY <1>1, <1>2, NextRevision DEF HelmTypeOK
<1>4. changes' \in 0..MaxChanges
  BY <1>1, HelmAssumption DEF Deploy, HelmTypeOK
<1>5. HelmTypeOK'
  BY <1>1, <1>2, <1>3, <1>4 DEF Deploy, HelmTypeOK
<1>6. UnchangedAsRecorded'
  BY <1>2, <1>3 DEF HelmInv, Deploy, UnchangedAsRecorded, Current, Recoverable, PreRun
<1>7. BaselineOK' /\ LoopsFollowPlan' /\ ListingsAreComplete' /\ CleanSoFar' /\ CalmSoFar' /\ CoordinatorSoFar'
  BY <1>1 DEF HelmInv, Deploy, BaselineOK, PreRun, LoopsFollowPlan, ListingsAreComplete, CleanSoFar, CalmSoFar,
     CoordinatorSoFar, Rolling, Loops, AfterRead, Looping
<1>8. QED
  BY <1>5, <1>6, <1>7 DEF HelmInv

LEMMA DriftKeeps == HelmInv /\ Drift => HelmInv'
<1> SUFFICES ASSUME HelmInv, Drift PROVE HelmInv'
  OBVIOUS
<1> USE DEF cluster, snapshot, plan, local, counters, helmHistory
<1>1. HelmTypeOK
  BY DEF HelmInv
<1>2. PICK r \in Release :
        /\ \/ \E c \in Content : revs' = [revs EXCEPT ![r] = Append(revs[r], c)]
           \/ revs' = [revs EXCEPT ![r] = <<>>]
        /\ changed' = changed \cup {r} /\ moved' = moved \cup {r} /\ late' = late \cup {r}
  BY DEF Drift
<1>3. revs' \in [Release -> Seq(Content)] /\ \A other \in Release \ {r} : revs'[other] = revs[other]
  <2>1. revs[r] \in Seq(Content) /\ <<>> \in Seq(Content)
    BY <1>1 DEF HelmTypeOK
  <2>2. PICK after \in Seq(Content) : revs' = [revs EXCEPT ![r] = after]
    BY <1>2, <2>1, NextRevision
  <2>3. QED
    BY <1>1, <2>2 DEF HelmTypeOK
<1>4. changes' \in 0..MaxChanges
  BY <1>1, HelmAssumption DEF Drift, HelmTypeOK
<1>5. HelmTypeOK'
  BY <1>1, <1>2, <1>3, <1>4 DEF Drift, HelmTypeOK
<1>6. UnchangedAsRecorded'
  BY <1>2, <1>3 DEF HelmInv, Drift, UnchangedAsRecorded, Current, Recoverable, PreRun
<1>7. BaselineOK' /\ LoopsFollowPlan' /\ CalmSoFar'
  BY DEF HelmInv, Drift, BaselineOK, PreRun, LoopsFollowPlan, CalmSoFar
<1>8. ListingsAreComplete'
  BY <1>2, <1>3 DEF HelmInv, Drift, ListingsAreComplete, PreRun
<1>9. CleanSoFar' /\ CoordinatorSoFar'
  BY <1>2, <1>3 DEF HelmInv, Drift, CleanSoFar, CoordinatorSoFar, Current, PreRun, Installed,
     HelmTypeOK, LoopsFollowPlan, AfterRead
<1>10. QED
  BY <1>5, <1>6, <1>7, <1>8, <1>9 DEF HelmInv

-----------------------------------------------------------------------------
LEMMA CaptureKeeps == HelmInv /\ Capture => HelmInv'
<1> SUFFICES ASSUME HelmInv, Capture PROVE HelmInv'
  OBVIOUS
<1> USE DEF cluster, snapshot, plan, local, counters, helmHistory
<1>1. HelmTypeOK /\ stage' \in {"launch", "refused"} /\ active \in Source \cup {NoSource}
  BY DEF HelmInv, HelmTypeOK, Capture
<1>2. CASE stage' = "launch" /\ base' = [r \in Release |-> [rev |-> Len(revs[r]), content |-> Current(r)]]
                            /\ baseActive' = IF optedIn THEN active ELSE NoSource
  <2>1. ASSUME NEW r \in Release
        PROVE  /\ Len(revs[r]) \in Nat /\ Current(r) \in Content \cup {NoContent}
               /\ Current(r) # NoContent => Len(revs[r]) >= 1 /\ revs[r][Len(revs[r])] = Current(r)
    BY <1>1, CurrentFacts, LastRevision
  <2>2. HelmTypeOK'
    BY <1>1, <1>2, <2>1 DEF Capture, HelmTypeOK, HelmStage
  <2>3. BaselineOK' /\ UnchangedAsRecorded'
    BY <1>1, <1>2, <2>1 DEF Capture, BaselineOK, UnchangedAsRecorded, PreRun, Recoverable, Current
  <2>4. LoopsFollowPlan' /\ ListingsAreComplete' /\ CleanSoFar' /\ CalmSoFar' /\ CoordinatorSoFar'
    BY <1>2 DEF LoopsFollowPlan, ListingsAreComplete, CleanSoFar, CalmSoFar, CoordinatorSoFar, Rolling, Loops, AfterRead, Looping
  <2>5. QED
    BY <2>2, <2>3, <2>4 DEF HelmInv
<1>3. CASE stage' = "refused" /\ UNCHANGED <<base, baseActive>>
  BY <1>1, <1>3 DEF Capture, HelmInv, HelmTypeOK, HelmStage, BaselineOK, PreRun, UnchangedAsRecorded, LoopsFollowPlan,
     ListingsAreComplete, CleanSoFar, CalmSoFar, CoordinatorSoFar, Rolling, Loops, AfterRead, Looping
<1>4. QED
  BY <1>2, <1>3 DEF Capture

LEMMA BeginKeeps == HelmInv /\ Begin => HelmInv'
<1> SUFFICES ASSUME HelmInv, Begin PROVE HelmInv'
  OBVIOUS
<1> USE DEF cluster, snapshot, plan, local, counters, helmHistory
<1>1. HelmTypeOK /\ stage \in {"idle", "reported"} /\ stage' = "list"
  BY DEF HelmInv, Begin
<1>2. HelmTypeOK'
  <2>1. tries' \in 0..MaxTries
    BY <1>1, HelmAssumption DEF Begin, HelmTypeOK
  <2>2. calm' \in BOOLEAN
    BY Zenon DEF Begin, Restorable
  <2>3. QED
    BY <1>1, <2>1, <2>2 DEF Begin, HelmTypeOK, HelmStage, Rolling
<1>3. BaselineOK' /\ UnchangedAsRecorded'
  BY <1>1 DEF HelmInv, Begin, BaselineOK, UnchangedAsRecorded, PreRun, Recoverable, Current
<1>4. LoopsFollowPlan' /\ ListingsAreComplete' /\ CleanSoFar' /\ CoordinatorSoFar'
  BY <1>1 DEF LoopsFollowPlan, ListingsAreComplete, CleanSoFar, CoordinatorSoFar, AfterRead, Looping
<1>5. CalmSoFar'
  BY <1>1 DEF Begin, CalmSoFar, Restorable, Recoverable, PreRun, Looping
<1>6. QED
  BY <1>2, <1>3, <1>4, <1>5 DEF HelmInv

-----------------------------------------------------------------------------
\* The listings.
LEMMA ListCurrentKeeps == HelmInv /\ ListCurrent => HelmInv'
<1> SUFFICES ASSUME HelmInv, ListCurrent PROVE HelmInv'
  OBVIOUS
<1> USE DEF cluster, snapshot, plan, local, counters, helmHistory
<1>1. HelmTypeOK /\ stage = "list" /\ stage' = "fetch"
  BY DEF HelmInv, ListCurrent
<1>2. \A r \in Release : ident'[r] = NoContent <=> revs[r] = <<>>
  BY <1>1, ListedFacts DEF ListCurrent, Installed
<1>3. HelmTypeOK'
  BY <1>1, ListedFacts DEF ListCurrent, HelmTypeOK, HelmStage, Rolling
<1>4. BaselineOK' /\ UnchangedAsRecorded'
  BY <1>1 DEF HelmInv, ListCurrent, BaselineOK, UnchangedAsRecorded, PreRun, Recoverable, Current
<1>5. LoopsFollowPlan' /\ ListingsAreComplete' /\ CleanSoFar' /\ CoordinatorSoFar'
  BY <1>1, <1>2 DEF ListCurrent, LoopsFollowPlan, ListingsAreComplete, CleanSoFar, CoordinatorSoFar, AfterRead, Looping
<1>6. CalmSoFar'
  BY <1>1, <1>2 DEF HelmInv, ListCurrent, CalmSoFar, Recoverable, PreRun, Rolling, Looping
<1>7. QED
  BY <1>3, <1>4, <1>5, <1>6 DEF HelmInv

LEMMA FetchCurrentKeeps == HelmInv /\ FetchCurrent => HelmInv'
<1> SUFFICES ASSUME HelmInv, FetchCurrent PROVE HelmInv'
  OBVIOUS
<1> USE DEF cluster, snapshot, plan, local, counters, helmHistory
<1>1. HelmTypeOK /\ stage = "fetch" /\ stage' = "uninstall"
  BY DEF HelmInv, FetchCurrent
<1>2. PICK failed \in Unreadable :
        /\ ident' = Listed({r \in Release : ident[r] # NoContent}, failed)
        /\ removals' = ToRemove(ident') /\ todo' = ToRemove(ident')
        /\ restores' = ContentRestores(ident')
        /\ calm' = (calm /\ \A r \in Release : ident'[r] # Unknown)
  BY DEF FetchCurrent
<1>3. /\ ident' \in [Release -> Content \cup {NoContent, Unknown}]
      /\ \A r \in Release :
           /\ ident'[r] = NoContent <=> ident[r] = NoContent
           /\ ident'[r] \notin {NoContent, Unknown} => ident'[r] = Current(r)
           /\ ident'[r] \notin {NoContent, Unknown} => revs[r] # <<>>
  BY <1>1, <1>2, ListedFacts
<1>4. HelmTypeOK'
  <2>1. removals' \subseteq Release /\ restores' \subseteq Release /\ todo' \subseteq Release
    BY <1>2 DEF ToRemove, ContentRestores, PreRun
  <2>2. calm' \in BOOLEAN
    BY <1>1, <1>2, Zenon DEF HelmTypeOK
  <2>3. QED
    BY <1>1, <1>3, <2>1, <2>2 DEF FetchCurrent, HelmTypeOK, HelmStage, Rolling, Loops
<1>5. BaselineOK' /\ UnchangedAsRecorded'
  BY <1>1 DEF HelmInv, FetchCurrent, BaselineOK, UnchangedAsRecorded, PreRun, Recoverable, Current
<1>6. LoopsFollowPlan' /\ CleanSoFar' /\ CoordinatorSoFar'
  BY <1>1, <1>2 DEF FetchCurrent, LoopsFollowPlan, CleanSoFar, CoordinatorSoFar, ToRemove, ContentRestores, PreRun, AfterRead, Looping
<1>7. ListingsAreComplete'
  BY <1>1, <1>2, <1>3 DEF HelmInv, FetchCurrent, ListingsAreComplete, ToRemove, PreRun, AfterRead, Looping
<1>8. CalmSoFar'
  <2> SUFFICES ASSUME calm' PROVE CalmSoFar'
    BY DEF CalmSoFar
  <2>1. calm /\ \A r \in Release : ident'[r] # Unknown
    BY <1>2
  <2>2. ~dirty /\ (\A r \in PreRun : Recoverable(r)) /\ \A r \in Release : ident[r] = NoContent <=> revs[r] = <<>>
    BY <1>1, <2>1 DEF HelmInv, CalmSoFar, Rolling
  <2>3. \A r \in Release \ PreRun : revs[r] # <<>> => r \in todo'
    BY <1>2, <1>3, <2>2 DEF ToRemove
  <2>4. \A r \in PreRun : Current(r) # base[r].content => r \in restores'
    <3>1. \A r \in PreRun : r \in Release /\ base[r].content # NoContent /\ Recoverable(r)
      BY <2>2 DEF PreRun
    <3>2. \A r \in PreRun : revs[r] # <<>>
      BY <1>1, <3>1 DEF HelmInv, BaselineOK, PreRun, Recoverable, HelmTypeOK
    <3>3. \A r \in PreRun : ident'[r] = Current(r) /\ ident'[r] # NoContent
      BY <1>3, <2>1, <2>2, <3>1, <3>2
    <3>4. QED
      BY <1>2, <3>3 DEF ContentRestores
  <2>5. QED
    BY <1>1, <2>2, <2>3, <2>4 DEF FetchCurrent, CalmSoFar, PreRun, Recoverable, Current, Looping
<1>9. QED
  BY <1>4, <1>5, <1>6, <1>7, <1>8 DEF HelmInv
-----------------------------------------------------------------------------
\* The loops.

\* A call on one release, whose error is ignored.
LEMMA IgnoredFacts ==
  ASSUME HelmTypeOK, NEW r \in Release, NEW after \in Seq(Content), Ignored(r, after)
  PROVE  /\ revs' \in [Release -> Seq(Content)]
         /\ \A other \in Release \ {r} : revs'[other] = revs[other]
         /\ revs'[r] \in {revs[r], after}
         /\ calm' \in BOOLEAN /\ (calm' => calm /\ revs'[r] = after)
<1>1. \/ revs' = [revs EXCEPT ![r] = after] /\ calm' = calm
      \/ calm' = FALSE /\ revs' \in {revs, [revs EXCEPT ![r] = after]}
  BY Zenon DEF Ignored
<1>2. CASE revs' = [revs EXCEPT ![r] = after] /\ calm' = calm
  BY <1>2 DEF HelmTypeOK
<1>3. CASE calm' = FALSE /\ revs' \in {revs, [revs EXCEPT ![r] = after]}
  BY <1>3 DEF HelmTypeOK
<1>4. QED
  BY <1>1, <1>2, <1>3

LEMMA UninstallKeeps == HelmInv /\ Uninstall => HelmInv'
<1> SUFFICES ASSUME HelmInv, Uninstall PROVE HelmInv'
  OBVIOUS
<1> USE DEF cluster, snapshot, plan, local, counters, helmHistory
<1>1. HelmTypeOK /\ stage = "uninstall" /\ <<>> \in Seq(Content)
  BY DEF HelmInv, Uninstall
<1>2. PICK r \in todo : Ignored(r, <<>>)
  BY DEF Uninstall
<1>3. r \in Release /\ r \notin PreRun /\ r \in removals
  BY <1>1, <1>2 DEF HelmInv, LoopsFollowPlan, Looping
<1>4. /\ revs' \in [Release -> Seq(Content)]
      /\ \A other \in Release \ {r} : revs'[other] = revs[other]
      /\ revs'[r] \in {revs[r], <<>>}
      /\ calm' \in BOOLEAN /\ (calm' => calm /\ revs'[r] = <<>>)
  BY <1>1, <1>2, <1>3, IgnoredFacts
<1>5. /\ todo' = todo \ {r} /\ stage' = stage
      /\ UNCHANGED <<cm, active, snapshot, ident, plan, dirty, counters, changed, moved, late>>
  BY <1>2 DEF Ignored
<1>6. HelmTypeOK'
  BY <1>1, <1>4, <1>5 DEF HelmTypeOK
<1>7. BaselineOK' /\ LoopsFollowPlan'
  BY <1>1, <1>5 DEF HelmInv, BaselineOK, LoopsFollowPlan, PreRun
<1>8. UnchangedAsRecorded'
  BY <1>1, <1>3, <1>4, <1>5 DEF HelmInv, UnchangedAsRecorded, Current, Recoverable, PreRun
<1>9. ListingsAreComplete' /\ CleanSoFar' /\ CoordinatorSoFar'
  BY <1>1, <1>3, <1>4, <1>5 DEF HelmInv, ListingsAreComplete, CleanSoFar, CoordinatorSoFar, PreRun, AfterRead, Looping
<1>10. CalmSoFar'
  <2> SUFFICES ASSUME calm' PROVE CalmSoFar'
    BY DEF CalmSoFar
  <2>1. calm /\ revs'[r] = <<>>
    BY <1>4
  <2>2. QED
    BY <1>1, <1>3, <1>4, <1>5, <2>1 DEF HelmInv, CalmSoFar, Current, Recoverable, PreRun, Rolling, Loops, Looping
<1>11. QED
  BY <1>6, <1>7, <1>8, <1>9, <1>10 DEF HelmInv

LEMMA RestoreKeeps == HelmInv /\ Restore => HelmInv'
<1> SUFFICES ASSUME HelmInv, Restore PROVE HelmInv'
  OBVIOUS
<1> USE DEF cluster, snapshot, plan, local, counters, helmHistory
<1>1. HelmTypeOK /\ BaselineOK /\ stage = "restore"
  BY DEF HelmInv, Restore
<1>2. PICK r \in todo : Ignored(r, HelmRollbackTo(r))
  BY DEF Restore
<1>3. r \in Release /\ r \in PreRun
  BY <1>1, <1>2 DEF HelmInv, HelmTypeOK, LoopsFollowPlan, Looping
<1>4. /\ HelmRollbackTo(r) \in Seq(Content)
      /\ HelmRollbackTo(r) = <<>> => revs[r] = <<>>
      /\ Recoverable(r) =>
           /\ HelmRollbackTo(r) # <<>> /\ Last(HelmRollbackTo(r)) = base[r].content
           /\ base[r].rev <= Len(HelmRollbackTo(r))
           /\ HelmRollbackTo(r)[base[r].rev] = base[r].content
  BY <1>1, <1>3, RolledBack
<1>5. /\ revs' \in [Release -> Seq(Content)]
      /\ \A other \in Release \ {r} : revs'[other] = revs[other]
      /\ revs'[r] \in {revs[r], HelmRollbackTo(r)}
      /\ calm' \in BOOLEAN /\ (calm' => calm /\ revs'[r] = HelmRollbackTo(r))
  BY <1>1, <1>2, <1>3, <1>4, IgnoredFacts
<1>6. /\ todo' = todo \ {r} /\ stage' = stage
      /\ UNCHANGED <<cm, active, snapshot, ident, plan, dirty, counters, changed, moved, late>>
  BY <1>2 DEF Ignored
<1>7. HelmTypeOK'
  BY <1>1, <1>5, <1>6 DEF HelmTypeOK
<1>8. BaselineOK' /\ LoopsFollowPlan'
  BY <1>1, <1>6 DEF HelmInv, BaselineOK, LoopsFollowPlan, PreRun
<1>9. Recoverable(r) => Recoverable(r)' /\ (revs'[r] = HelmRollbackTo(r) => Current(r)' = base[r].content)
  BY <1>4, <1>5, <1>6 DEF Recoverable, Current
<1>10. UnchangedAsRecorded'
  <2>1. r \notin changed => Recoverable(r) /\ Current(r) = base[r].content
    BY <1>1, <1>3 DEF HelmInv, UnchangedAsRecorded
  <2>2. r \notin changed => Recoverable(r)' /\ Current(r)' = base[r].content
    BY <1>5, <1>9, <2>1 DEF Current
  <2>3. QED
    BY <1>1, <1>3, <1>5, <1>6, <2>2 DEF HelmInv, UnchangedAsRecorded, Current, Recoverable, PreRun
<1>11. ListingsAreComplete' /\ CleanSoFar' /\ CoordinatorSoFar'
  BY <1>1, <1>3, <1>5, <1>6 DEF HelmInv, ListingsAreComplete, CleanSoFar, CoordinatorSoFar, PreRun, AfterRead, Looping
<1>12. CalmSoFar'
  <2> SUFFICES ASSUME calm' PROVE CalmSoFar'
    BY DEF CalmSoFar
  <2>1. calm /\ Recoverable(r)' /\ Current(r)' = base[r].content
    BY <1>1, <1>3, <1>5, <1>9 DEF HelmInv, CalmSoFar, Rolling, Loops
  <2>2. \A other \in Release \ {r} : (Current(other)' = Current(other)) /\ (Recoverable(other)' <=> Recoverable(other))
    BY <1>5, <1>6 DEF Current, Recoverable
  <2>3. PreRun' = PreRun /\ PreRun \subseteq Release
    BY <1>6 DEF PreRun
  <2>4. ~dirty' /\ \A other \in PreRun' : Recoverable(other)'
    BY <1>1, <1>6, <2>1, <2>2, <2>3 DEF HelmInv, CalmSoFar, Rolling, Loops
  <2>5. \A other \in Release \ PreRun' : revs'[other] = <<>>
    BY <1>1, <1>3, <1>5, <2>1, <2>3 DEF HelmInv, CalmSoFar, Rolling, Loops, Looping
  <2>6. \A other \in PreRun' : Current(other)' # base'[other].content => other \in todo'
    BY <1>1, <1>6, <2>1, <2>2, <2>3 DEF HelmInv, CalmSoFar, Rolling, Loops, Looping
  <2>7. QED
    BY <1>1, <1>6, <2>4, <2>5, <2>6 DEF CalmSoFar
<1>13. QED
  BY <1>7, <1>8, <1>10, <1>11, <1>12 DEF HelmInv

-----------------------------------------------------------------------------
\* The readback.
LEMMA ReadbackKeeps == HelmInv /\ Readback => HelmInv'
<1> SUFFICES ASSUME HelmInv, Readback PROVE HelmInv'
  OBVIOUS
<1> USE DEF cluster, snapshot, plan, local, counters, helmHistory
<1>1. HelmTypeOK /\ stage = "readback"
  BY DEF HelmInv, Readback
<1>2. \/ stage' = "readback-fetch" /\ ident' = Listed(Installed, Release) /\ UNCHANGED <<dirty, calm>>
      \/ stage' = "cleanup" /\ dirty' = TRUE /\ calm' = FALSE /\ UNCHANGED ident
  BY DEF Readback
<1>3. stage' = "readback-fetch" => \A r \in Release : ident'[r] = NoContent <=> revs[r] = <<>>
  BY <1>1, <1>2, ListedFacts DEF Installed
<1>4. ident' \in [Release -> Content \cup {NoContent, Unknown}]
  BY <1>1, <1>2, ListedFacts DEF HelmTypeOK
<1>5. HelmTypeOK'
  BY <1>1, <1>2, <1>4 DEF Readback, HelmTypeOK, HelmStage, Rolling
<1>6. BaselineOK' /\ UnchangedAsRecorded'
  BY <1>1, <1>2 DEF HelmInv, Readback, BaselineOK, UnchangedAsRecorded, PreRun, Recoverable, Current
<1>7. LoopsFollowPlan' /\ ListingsAreComplete' /\ CleanSoFar' /\ CoordinatorSoFar'
  BY <1>1, <1>2, <1>3 DEF HelmInv, Readback, LoopsFollowPlan, ListingsAreComplete, CleanSoFar, CoordinatorSoFar,
     PreRun, AfterRead, Looping
<1>8. CalmSoFar'
  BY <1>1, <1>2, <1>3 DEF HelmInv, Readback, CalmSoFar, PreRun, Recoverable, Current, Rolling, Loops, Looping
<1>9. QED
  BY <1>5, <1>6, <1>7, <1>8 DEF HelmInv

LEMMA ReadbackFetchKeeps == HelmInv /\ ReadbackFetch => HelmInv'
<1> SUFFICES ASSUME HelmInv, ReadbackFetch PROVE HelmInv'
  OBVIOUS
<1> USE DEF cluster, snapshot, plan, local, counters, helmHistory
<1>1. HelmTypeOK /\ stage = "readback-fetch" /\ stage' = "cleanup"
  BY DEF HelmInv, ReadbackFetch
<1>2. PICK failed \in Unreadable :
        /\ ident' = Listed({r \in Release : ident[r] # NoContent}, failed)
        /\ dirty' = ReadbackDirty(ident')
        /\ calm' = (calm /\ \A r \in Release : ident'[r] # Unknown)
  BY DEF ReadbackFetch
<1>3. /\ ident' \in [Release -> Content \cup {NoContent, Unknown}]
      /\ \A r \in Release :
           /\ ident'[r] = NoContent <=> ident[r] = NoContent
           /\ ident'[r] \notin {NoContent, Unknown} => ident'[r] = Current(r)
           /\ ident'[r] \notin {NoContent, Unknown} => revs[r] # <<>>
  BY <1>1, <1>2, ListedFacts
<1>4. UNCHANGED <<cluster, snapshot, plan, todo, counters, changed, moved, late>>
  BY DEF ReadbackFetch
<1>5. removals \subseteq Release \ PreRun
  BY <1>1 DEF HelmInv, LoopsFollowPlan
<1>6. \A r \in PreRun : r \in Release /\ base[r].content \notin {NoContent, Unknown}
  BY <1>1, HelmAssumption DEF PreRun, HelmTypeOK
<1>7. HelmTypeOK'
  <2>1. dirty' \in BOOLEAN /\ calm' \in BOOLEAN
    BY <1>1, <1>2, Zenon DEF HelmTypeOK, ReadbackDirty
  <2>2. QED
    BY <1>1, <1>3, <1>4, <2>1 DEF HelmTypeOK, HelmStage, Rolling
<1>8. BaselineOK' /\ UnchangedAsRecorded'
  BY <1>1, <1>4 DEF HelmInv, BaselineOK, UnchangedAsRecorded, PreRun, Recoverable, Current
<1>9. LoopsFollowPlan' /\ ListingsAreComplete' /\ CoordinatorSoFar'
  BY <1>1, <1>4 DEF HelmInv, LoopsFollowPlan, ListingsAreComplete, CoordinatorSoFar, PreRun, AfterRead, Looping
<1>10. CleanSoFar'
  <2> SUFFICES ASSUME ~dirty' PROVE CleanSoFar'
    BY DEF CleanSoFar
  <2>1. \A r \in PreRun : ident'[r] = base[r].content
    BY <1>2, <1>5 DEF ReadbackDirty
  <2>2. \A r \in PreRun : Current(r) = base[r].content
    BY <1>3, <1>6, <2>1
  <2>3. \A r \in removals \ late : revs[r] = <<>>
    BY <1>1, <1>2, <1>3, <1>5 DEF ReadbackDirty, HelmInv, ListingsAreComplete
  <2>4. QED
    BY <1>1, <1>4, <2>2, <2>3 DEF CleanSoFar, Current, PreRun
<1>11. CalmSoFar'
  <2> SUFFICES ASSUME calm' PROVE CalmSoFar'
    BY DEF CalmSoFar
  <2>1. calm /\ \A r \in Release : ident'[r] # Unknown
    BY <1>2
  <2>2. \A r \in Release : ident[r] = NoContent <=> revs[r] = <<>>
    BY <1>1, <2>1 DEF HelmInv, CalmSoFar, Rolling
  <2>3. \A r \in Release \ PreRun : revs[r] = <<>>
    BY <1>1, <2>1 DEF HelmInv, CalmSoFar, Rolling
  <2>4. \A r \in PreRun : Current(r) = base[r].content
    BY <1>1, <2>1 DEF HelmInv, CalmSoFar, Rolling
  <2>5. \A r \in PreRun : ident'[r] = base[r].content
    BY <1>1, <1>3, <1>6, <2>1, <2>2, <2>4, CurrentFacts
  <2>6. \A r \in removals : ident'[r] = NoContent
    BY <1>3, <1>5, <2>2, <2>3
  <2>7. ~dirty'
    BY <1>2, <2>5, <2>6 DEF ReadbackDirty
  <2>8. QED
    BY <1>1, <1>4, <2>1, <2>7 DEF HelmInv, CalmSoFar, Rolling, Recoverable, PreRun, Looping
<1>12. QED
  BY <1>7, <1>8, <1>9, <1>10, <1>11 DEF HelmInv

-----------------------------------------------------------------------------
LEMMA StepKeepsInv == HelmInv /\ [HelmNext]_helmVars => HelmInv'
<1> SUFFICES ASSUME HelmInv, [HelmNext]_helmVars PROVE HelmInv'
  OBVIOUS
<1>1. CASE HelmNext
  BY <1>1, CaptureKeeps, DeployKeeps, LaunchSelectKeeps, LaunchFailsKeeps, DriftKeeps, SwitchSelectsKeeps,
     BeginKeeps, ListCurrentKeeps, FetchCurrentKeeps, UninstallKeeps, UninstallsDoneKeeps, RestoreKeeps,
     RestoresDoneKeeps, ReadbackKeeps, ReadbackFetchKeeps, CleanupKeeps, CmDeleteKeeps, CoordinatorKeeps,
     PatchActiveKeeps, TerminalKeeps, CallFailsKeeps, KillKeeps DEF HelmNext
<1>2. CASE UNCHANGED helmVars
  BY <1>2 DEF helmVars, cluster, snapshot, plan, local, counters, helmHistory, HelmInv, HelmTypeOK, BaselineOK,
     UnchangedAsRecorded, LoopsFollowPlan, ListingsAreComplete, CleanSoFar, CalmSoFar, CoordinatorSoFar,
     PreRun, Current, Recoverable, Installed
<1>3. QED
  BY <1>1, <1>2

LEMMA HelmInductive == HelmSpec => []HelmInv
  BY InitEstablishesInv, StepKeepsInv, PTL DEF HelmSpec

\* Histories, baselines, listings and plans have their types at every step.
THEOREM HelmTypeCorrect == HelmSpec => []HelmTypeOK
<1>1. HelmInv => HelmTypeOK
  BY DEF HelmInv
<1>2. QED
  BY <1>1, HelmInductive, PTL

(***************************************************************************)
(* Rollbacks and their retries leave a release nobody changed at the       *)
(* content the snapshot recorded, whatever calls fail and wherever they    *)
(* are killed: its recorded revision is still there and deploys it.        *)
(***************************************************************************)
THEOREM UnchangedStays == HelmSpec => []UnchangedIsUntouched
<1>1. HelmInv => UnchangedIsUntouched
  BY DEF HelmInv, UnchangedAsRecorded, UnchangedIsUntouched
<1>2. QED
  BY <1>1, HelmInductive, PTL

(***************************************************************************)
(* A clean report of the helm surface is true of every release that nobody *)
(* changed after the reads it rests on.                                    *)
(***************************************************************************)
THEOREM CleanReportIsTrue == HelmSpec => CleanMeansRestored
<1>1. HelmInv /\ [HelmNext]_helmVars =>
        [Reporting /\ ~dirty =>
          /\ \A r \in PreRun \ late : Current(r) = base[r].content
          /\ \A r \in Release \ (PreRun \cup moved) : r \notin Installed]_helmVars
  BY DEF HelmInv, CleanSoFar, ListingsAreComplete, Reporting, AfterRead, Installed
<1>2. QED
  BY <1>1, HelmInductive, PTL DEF HelmSpec, CleanMeansRestored

(***************************************************************************)
(* A rollback nobody disturbs converges: it ends clean from whatever state *)
(* earlier, broken rollbacks left, if the recorded revisions are there.    *)
(***************************************************************************)
THEOREM CalmConverges == HelmSpec => CalmRollbackIsClean
<1>1. HelmInv /\ [HelmNext]_helmVars => [Reporting /\ calm => ~dirty]_helmVars
  BY DEF HelmInv, CalmSoFar, Reporting, Rolling
<1>2. QED
  BY <1>1, HelmInductive, PTL DEF HelmSpec, CalmRollbackIsClean

(***************************************************************************)
(* The ConfigMap that mxl releases share outlives every one of them that   *)
(* no outsider installs, and a rollback reports only with the recorded     *)
(* selection back in place.                                                *)
(***************************************************************************)
THEOREM CoordinatorIsKept == HelmSpec => CoordinatorSurvives
<1>1. HelmInv /\ [HelmNext]_helmVars =>
        [/\ cm /\ ~cm' => Installed \cap MxlRelease \subseteq moved
         /\ Reporting /\ optedIn => active = baseActive]_helmVars
  <2> SUFFICES ASSUME HelmInv, HelmNext
               PROVE  /\ cm /\ ~cm' => Installed \cap MxlRelease \subseteq moved
                      /\ Reporting /\ optedIn => active = baseActive
    OBVIOUS
  <2> USE DEF cluster, snapshot, plan, local, counters, helmHistory
  <2>1. cm /\ ~cm' => stage = "cm-delete"
    BY DEF HelmNext, Capture, Deploy, LaunchSelect, LaunchFails, Drift, SwitchSelects, Begin, ListCurrent,
       FetchCurrent, Uninstall, UninstallsDone, Restore, RestoresDone, Ignored, Readback, ReadbackFetch, Cleanup,
       CmDelete, Coordinator, PatchActive, Terminal, CallFails, Kill, Abort
  <2>2. QED
    BY <2>1 DEF HelmInv, CoordinatorSoFar, Reporting
<1>2. QED
  BY <1>1, HelmInductive, PTL DEF HelmSpec, CoordinatorSurvives
=============================================================================
