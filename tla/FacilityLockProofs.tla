------------------------- MODULE FacilityLockProofs -------------------------
(***************************************************************************)
(* Theorems of FacilityLock, for every set of attempts, every TTL, every   *)
(* clock bound and every combination of faults.                            *)
(***************************************************************************)
EXTENDS FacilityLock, TLAPS

USE LockAssumption

-----------------------------------------------------------------------------
(***************************************************************************)
(* Type correctness.                                                       *)
(***************************************************************************)

\* Failing a task only moves the attempt on, to its release or to its end.
LEMMA RaiseType ==
  ASSUME TypeOK, NEW a \in Attempt, Raise(a)
  PROVE  /\ pc' \in [Attempt -> Label]
         /\ phase' \in [Attempt -> {"block", "rescue", "always"}]
         /\ \A b \in Attempt \ {a} : pc'[b] = pc[b] /\ phase'[b] = phase[b]
         /\ pc'[a] \in {"release-read", "done"}
         /\ pc'[a] = "release-read" => acquired[a]
         /\ acquired[a] /\ phase[a] = "block" => pc'[a] = "release-read"
  BY DEF TypeOK, Raise, Goto, Label

\* So does a release that did not fail.
LEMMA AfterReleaseType ==
  ASSUME TypeOK, NEW a \in Attempt, AfterRelease(a)
  PROVE  /\ pc' \in [Attempt -> Label]
         /\ phase' \in [Attempt -> {"block", "rescue", "always"}]
         /\ \A b \in Attempt \ {a} : pc'[b] = pc[b] /\ phase'[b] = phase[b]
         /\ pc'[a] \in {"release-read", "done"}
  BY DEF TypeOK, AfterRelease, Goto, Label

\* Moving an attempt to a label.
LEMMA GotoType ==
  ASSUME TypeOK, NEW a \in Attempt, NEW l \in Label, Goto(a, l)
  PROVE  /\ pc' \in [Attempt -> Label]
         /\ \A b \in Attempt \ {a} : pc'[b] = pc[b]
         /\ pc'[a] = l
  BY DEF TypeOK, Goto

\* What the three writing calls may make of the object.
LEMMA ServerType ==
  ASSUME TypeOK, NEW a \in Attempt, Post(a) \/ Delete(a) \/ Put(a) \/ NoEffect
  PROVE  lock' \in Object \cup {NoLock} /\ nextUid' \in Nat
  BY DEF TypeOK, Post, Delete, Put, NoEffect, Object

\* One step keeps every type.
LEMMA TypeStep == TypeOK /\ [Next]_vars => TypeOK'
<1> SUFFICES ASSUME TypeOK, [Next]_vars PROVE TypeOK'
  OBVIOUS
<1>1. ASSUME NEW a \in Attempt, Start(a) PROVE TypeOK'
  BY <1>1, GotoType DEF Start, TypeOK, Label
<1>2. ASSUME NEW a \in Attempt, Create(a) PROVE TypeOK'
  BY <1>2, GotoType, ServerType DEF Create, TypeOK, Label
<1>3. ASSUME NEW a \in Attempt, ReadHeld(a) PROVE TypeOK'
  BY <1>3, GotoType, RaiseType DEF ReadHeld, TypeOK, Label
<1>4. ASSUME NEW a \in Attempt, ReclaimDelete(a) PROVE TypeOK'
  BY <1>4, GotoType, RaiseType, ServerType DEF ReclaimDelete, TypeOK, Label
<1>5. ASSUME NEW a \in Attempt, ReclaimCreate(a) PROVE TypeOK'
  BY <1>5, GotoType, RaiseType, ServerType DEF ReclaimCreate, TypeOK, Label
<1>6. ASSUME NEW a \in Attempt, Verify(a) PROVE TypeOK'
  <2>1. acquired' \in [Attempt -> BOOLEAN]
    <3>1. CASE acquired' = [acquired EXCEPT ![a] = TRUE]
      BY <3>1 DEF TypeOK
    <3>2. CASE UNCHANGED acquired
      BY <3>2 DEF TypeOK
    <3>3. QED
      BY <1>6, <3>1, <3>2 DEF Verify
  <2>2. QED
    BY <1>6, <2>1, GotoType, RaiseType DEF Verify, TypeOK, Label
<1>7. ASSUME NEW a \in Attempt, CheckpointRead(a) PROVE TypeOK'
  BY <1>7, GotoType, RaiseType DEF CheckpointRead, TypeOK, Label
<1>8. ASSUME NEW a \in Attempt, Refresh(a) PROVE TypeOK'
  BY <1>8, GotoType, RaiseType, ServerType DEF Refresh, TypeOK, Label
<1>9. ASSUME NEW a \in Attempt, Stage(a) PROVE TypeOK'
  BY <1>9, GotoType, RaiseType DEF Stage, TypeOK, Label
<1>10. ASSUME NEW a \in Attempt, EndBody(a) PROVE TypeOK'
  BY <1>10, GotoType DEF EndBody, TypeOK, Label
<1>11. ASSUME NEW a \in Attempt, ReleaseRead(a) PROVE TypeOK'
  BY <1>11, GotoType, AfterReleaseType DEF ReleaseRead, TypeOK, Label
<1>12. ASSUME NEW a \in Attempt, ReleaseDelete(a) PROVE TypeOK'
  BY <1>12, AfterReleaseType, RaiseType, ServerType DEF ReleaseDelete, TypeOK
<1>13. ASSUME NEW a \in Attempt, ApiError(a) PROVE TypeOK'
  BY <1>13, RaiseType DEF ApiError, TypeOK
<1>14. ASSUME NEW a \in Attempt, AnswerLost(a) PROVE TypeOK'
  BY <1>14, RaiseType, ServerType DEF AnswerLost, TypeOK
<1>15. ASSUME NEW a \in Attempt, Kill(a) PROVE TypeOK'
  BY <1>15, GotoType DEF Kill, TypeOK, Label
<1>16. CASE Tick
  BY <1>16 DEF Tick, TypeOK
<1>17. CASE UNCHANGED vars
  BY <1>17 DEF vars, TypeOK
<1>18. QED
  BY <1>1, <1>2, <1>3, <1>4, <1>5, <1>6, <1>7, <1>8, <1>9, <1>10, <1>11, <1>12,
     <1>13, <1>14, <1>15, <1>16, <1>17 DEF Next, Run, Finished

\* The initial states satisfy the inductive invariant.
LEMMA InitIInv == Init => IInv
  BY DEF Init, IInv, TypeOK, Label, WillRelease, LockFromHolder, ReadStillMeans,
     HolderHasLockInTerm, LeftHeldOnlyAfterError, Holding, HolderLabel, ReadLabel

(***************************************************************************)
(* Every variable keeps its type in every behaviour of the protocol.       *)
(***************************************************************************)
THEOREM TypeCorrect == Spec => []TypeOK
<1>1. Init => TypeOK
  BY InitIInv DEF IInv
<1>2. QED
  BY <1>1, TypeStep, PTL DEF Spec

-----------------------------------------------------------------------------
(***************************************************************************)
(* The inductive invariant, one part at a time.                            *)
(***************************************************************************)

\* Only the verified readback enters the body, and only a holder releases.
LEMMA WillReleaseStep == IInv /\ [Next]_vars => WillRelease'
<1> SUFFICES ASSUME IInv, [Next]_vars PROVE WillRelease'
  OBVIOUS
<1>0. TypeOK /\ TypeOK'
  BY TypeStep DEF IInv
<1> USE DEF IInv, WillRelease, HolderLabel, BeforeCreate, TypeOK, Label
<1>1. ASSUME NEW a \in Attempt, Start(a) PROVE WillRelease'
  BY <1>0, <1>1, GotoType DEF Start
<1>2. ASSUME NEW a \in Attempt, Create(a) PROVE WillRelease'
  BY <1>0, <1>2, GotoType DEF Create, Post, NoEffect
<1>3. ASSUME NEW a \in Attempt, ReadHeld(a) PROVE WillRelease'
  BY <1>0, <1>3, GotoType, RaiseType DEF ReadHeld
<1>4. ASSUME NEW a \in Attempt, ReclaimDelete(a) PROVE WillRelease'
  BY <1>0, <1>4, GotoType, RaiseType DEF ReclaimDelete, Delete, NoEffect
<1>5. ASSUME NEW a \in Attempt, ReclaimCreate(a) PROVE WillRelease'
  BY <1>0, <1>5, GotoType, RaiseType DEF ReclaimCreate, Post, NoEffect
<1>6. ASSUME NEW a \in Attempt, Verify(a) PROVE WillRelease'
  BY <1>0, <1>6, GotoType, RaiseType DEF Verify
<1>7. ASSUME NEW a \in Attempt, CheckpointRead(a) PROVE WillRelease'
  BY <1>0, <1>7, GotoType, RaiseType DEF CheckpointRead
<1>8. ASSUME NEW a \in Attempt, Refresh(a) PROVE WillRelease'
  BY <1>0, <1>8, GotoType, RaiseType DEF Refresh, Put, NoEffect
<1>9. ASSUME NEW a \in Attempt, Stage(a) PROVE WillRelease'
  BY <1>0, <1>9, GotoType, RaiseType DEF Stage
<1>10. ASSUME NEW a \in Attempt, EndBody(a) PROVE WillRelease'
  BY <1>0, <1>10, GotoType DEF EndBody
<1>11. ASSUME NEW a \in Attempt, ReleaseRead(a) PROVE WillRelease'
  BY <1>0, <1>11, GotoType, AfterReleaseType DEF ReleaseRead
<1>12. ASSUME NEW a \in Attempt, ReleaseDelete(a) PROVE WillRelease'
  BY <1>0, <1>12, RaiseType, AfterReleaseType DEF ReleaseDelete, Delete,
     NoEffect
<1>13. ASSUME NEW a \in Attempt, ApiError(a) PROVE WillRelease'
  BY <1>0, <1>13, RaiseType DEF ApiError
<1>14. ASSUME NEW a \in Attempt, AnswerLost(a) PROVE WillRelease'
  BY <1>0, <1>14, RaiseType DEF AnswerLost, Post, Delete, Put
<1>15. ASSUME NEW a \in Attempt, Kill(a) PROVE WillRelease'
  BY <1>0, <1>15, GotoType DEF Kill
<1>16. CASE Tick
  BY <1>0, <1>16 DEF Tick
<1>17. CASE UNCHANGED vars
  BY <1>17 DEF vars
<1>18. QED
  BY <1>1, <1>2, <1>3, <1>4, <1>5, <1>6, <1>7, <1>8, <1>9, <1>10, <1>11,
     <1>12, <1>13, <1>14, <1>15, <1>16, <1>17 DEF Next, Run, Finished

\* A new object carries a fresh uid and the epoch of its creator.
LEMMA LockStep == IInv /\ [Next]_vars => LockFromHolder'
<1> SUFFICES ASSUME IInv, [Next]_vars PROVE LockFromHolder'
  OBVIOUS
<1>0. TypeOK /\ TypeOK'
  BY TypeStep DEF IInv
<1> USE DEF IInv, LockFromHolder, FromHolder, WillRelease, ReadStillMeans,
    ReadLabel, BeforeCreate, TypeOK, Label, Object
<1>1. ASSUME NEW a \in Attempt, Start(a) PROVE LockFromHolder'
  BY <1>0, <1>1, GotoType DEF Start
<1>2. ASSUME NEW a \in Attempt, Create(a) PROVE LockFromHolder'
  BY <1>0, <1>2, GotoType DEF Create, Post, NoEffect
<1>3. ASSUME NEW a \in Attempt, ReadHeld(a) PROVE LockFromHolder'
  BY <1>0, <1>3, GotoType, RaiseType DEF ReadHeld, Expired
<1>4. ASSUME NEW a \in Attempt, ReclaimDelete(a) PROVE LockFromHolder'
  BY <1>0, <1>4, GotoType, RaiseType DEF ReclaimDelete, Delete, NoEffect
<1>5. ASSUME NEW a \in Attempt, ReclaimCreate(a) PROVE LockFromHolder'
  BY <1>0, <1>5, GotoType, RaiseType DEF ReclaimCreate, Post, NoEffect
<1>6. ASSUME NEW a \in Attempt, Verify(a) PROVE LockFromHolder'
  BY <1>0, <1>6, GotoType, RaiseType DEF Verify, Mine
<1>7. ASSUME NEW a \in Attempt, CheckpointRead(a) PROVE LockFromHolder'
  BY <1>0, <1>7, GotoType, RaiseType DEF CheckpointRead, Mine
<1>8. ASSUME NEW a \in Attempt, Refresh(a) PROVE LockFromHolder'
  BY <1>0, <1>8, GotoType, RaiseType DEF Refresh, Put, NoEffect
<1>9. ASSUME NEW a \in Attempt, Stage(a) PROVE LockFromHolder'
  BY <1>0, <1>9, GotoType, RaiseType DEF Stage
<1>10. ASSUME NEW a \in Attempt, EndBody(a) PROVE LockFromHolder'
  BY <1>0, <1>10, GotoType DEF EndBody
<1>11. ASSUME NEW a \in Attempt, ReleaseRead(a) PROVE LockFromHolder'
  BY <1>0, <1>11, GotoType, AfterReleaseType DEF ReleaseRead, Mine
<1>12. ASSUME NEW a \in Attempt, ReleaseDelete(a) PROVE LockFromHolder'
  BY <1>0, <1>12, RaiseType, AfterReleaseType DEF ReleaseDelete, Delete,
     NoEffect
<1>13. ASSUME NEW a \in Attempt, ApiError(a) PROVE LockFromHolder'
  BY <1>0, <1>13, RaiseType DEF ApiError
<1>14. ASSUME NEW a \in Attempt, AnswerLost(a) PROVE LockFromHolder'
  BY <1>0, <1>14, RaiseType DEF AnswerLost, Post, Delete, Put
<1>15. ASSUME NEW a \in Attempt, Kill(a) PROVE LockFromHolder'
  BY <1>0, <1>15, GotoType DEF Kill
<1>16. CASE Tick
  BY <1>0, <1>16 DEF Tick
<1>17. CASE UNCHANGED vars
  BY <1>17 DEF vars
<1>18. QED
  BY <1>1, <1>2, <1>3, <1>4, <1>5, <1>6, <1>7, <1>8, <1>9, <1>10, <1>11,
     <1>12, <1>13, <1>14, <1>15, <1>16, <1>17 DEF Next, Run, Finished

\* A read keeps identifying its object: an attempt creates at most one.
LEMMA ReadStep == IInv /\ [Next]_vars => ReadStillMeans'
<1> SUFFICES ASSUME IInv, [Next]_vars PROVE ReadStillMeans'
  OBVIOUS
<1>0. TypeOK /\ TypeOK'
  BY TypeStep DEF IInv
<1> USE DEF IInv, LockFromHolder, FromHolder, WillRelease, ReadStillMeans,
    ReadLabel, BeforeCreate, TypeOK, Label, Object
<1>1. ASSUME NEW a \in Attempt, Start(a) PROVE ReadStillMeans'
  BY <1>0, <1>1, GotoType DEF Start
<1>2. ASSUME NEW a \in Attempt, Create(a) PROVE ReadStillMeans'
  BY <1>0, <1>2, GotoType DEF Create, Post, NoEffect
<1>3. ASSUME NEW a \in Attempt, ReadHeld(a) PROVE ReadStillMeans'
  BY <1>0, <1>3, GotoType, RaiseType DEF ReadHeld, Expired
<1>4. ASSUME NEW a \in Attempt, ReclaimDelete(a) PROVE ReadStillMeans'
  BY <1>0, <1>4, GotoType, RaiseType DEF ReclaimDelete, Delete, NoEffect
<1>5. ASSUME NEW a \in Attempt, ReclaimCreate(a) PROVE ReadStillMeans'
  BY <1>0, <1>5, GotoType, RaiseType DEF ReclaimCreate, Post, NoEffect
<1>6. ASSUME NEW a \in Attempt, Verify(a) PROVE ReadStillMeans'
  BY <1>0, <1>6, GotoType, RaiseType DEF Verify, Mine
<1>7. ASSUME NEW a \in Attempt, CheckpointRead(a) PROVE ReadStillMeans'
  BY <1>0, <1>7, GotoType, RaiseType DEF CheckpointRead, Mine
<1>8. ASSUME NEW a \in Attempt, Refresh(a) PROVE ReadStillMeans'
  BY <1>0, <1>8, GotoType, RaiseType DEF Refresh, Put, NoEffect
<1>9. ASSUME NEW a \in Attempt, Stage(a) PROVE ReadStillMeans'
  BY <1>0, <1>9, GotoType, RaiseType DEF Stage
<1>10. ASSUME NEW a \in Attempt, EndBody(a) PROVE ReadStillMeans'
  BY <1>0, <1>10, GotoType DEF EndBody
<1>11. ASSUME NEW a \in Attempt, ReleaseRead(a) PROVE ReadStillMeans'
  BY <1>0, <1>11, GotoType, AfterReleaseType DEF ReleaseRead, Mine
<1>12. ASSUME NEW a \in Attempt, ReleaseDelete(a) PROVE ReadStillMeans'
  BY <1>0, <1>12, RaiseType, AfterReleaseType DEF ReleaseDelete, Delete,
     NoEffect
<1>13. ASSUME NEW a \in Attempt, ApiError(a) PROVE ReadStillMeans'
  BY <1>0, <1>13, RaiseType DEF ApiError
<1>14. ASSUME NEW a \in Attempt, AnswerLost(a) PROVE ReadStillMeans'
  BY <1>0, <1>14, RaiseType DEF AnswerLost, Post, Delete, Put
<1>15. ASSUME NEW a \in Attempt, Kill(a) PROVE ReadStillMeans'
  BY <1>0, <1>15, GotoType DEF Kill
<1>16. CASE Tick
  BY <1>0, <1>16 DEF Tick
<1>17. CASE UNCHANGED vars
  BY <1>17 DEF vars
<1>18. QED
  BY <1>1, <1>2, <1>3, <1>4, <1>5, <1>6, <1>7, <1>8, <1>9, <1>10, <1>11,
     <1>12, <1>13, <1>14, <1>15, <1>16, <1>17 DEF Next, Run, Finished

\* A DELETE that takes a lock from a holder comes after its term.
LEMMA TermStep == IInv /\ [Next]_vars => HolderHasLockInTerm'
<1> SUFFICES ASSUME IInv, [Next]_vars PROVE HolderHasLockInTerm'
  OBVIOUS
<1>0. TypeOK /\ TypeOK'
  BY TypeStep DEF IInv
<1> USE DEF IInv, WillRelease, FromHolder, ReadStillMeans,
    HolderHasLockInTerm, Mine, Expired, Holding, HolderLabel, ReadLabel,
    TypeOK, Label, Object
<1>1. ASSUME NEW a \in Attempt, Start(a) PROVE HolderHasLockInTerm'
  BY <1>0, <1>1, GotoType DEF Start
<1>2. ASSUME NEW a \in Attempt, Create(a) PROVE HolderHasLockInTerm'
  BY <1>0, <1>2, GotoType DEF Create, Post, NoEffect
<1>3. ASSUME NEW a \in Attempt, ReadHeld(a) PROVE HolderHasLockInTerm'
  BY <1>0, <1>3, GotoType, RaiseType DEF ReadHeld
<1>4. ASSUME NEW a \in Attempt, ReclaimDelete(a) PROVE HolderHasLockInTerm'
  BY <1>0, <1>4, GotoType, RaiseType DEF ReclaimDelete, Delete, NoEffect
<1>5. ASSUME NEW a \in Attempt, ReclaimCreate(a) PROVE HolderHasLockInTerm'
  BY <1>0, <1>5, GotoType, RaiseType DEF ReclaimCreate, Post, NoEffect
<1>6. ASSUME NEW a \in Attempt, Verify(a) PROVE HolderHasLockInTerm'
  BY <1>0, <1>6, GotoType, RaiseType DEF Verify
<1>7. ASSUME NEW a \in Attempt, CheckpointRead(a) PROVE HolderHasLockInTerm'
  BY <1>0, <1>7, GotoType, RaiseType DEF CheckpointRead
<1>8. ASSUME NEW a \in Attempt, Refresh(a) PROVE HolderHasLockInTerm'
  BY <1>0, <1>8, GotoType, RaiseType DEF Refresh, Put, NoEffect
<1>9. ASSUME NEW a \in Attempt, Stage(a) PROVE HolderHasLockInTerm'
  BY <1>0, <1>9, GotoType, RaiseType DEF Stage
<1>10. ASSUME NEW a \in Attempt, EndBody(a) PROVE HolderHasLockInTerm'
  BY <1>0, <1>10, GotoType DEF EndBody
<1>11. ASSUME NEW a \in Attempt, ReleaseRead(a) PROVE HolderHasLockInTerm'
  BY <1>0, <1>11, GotoType, AfterReleaseType DEF ReleaseRead
<1>12. ASSUME NEW a \in Attempt, ReleaseDelete(a) PROVE HolderHasLockInTerm'
  BY <1>0, <1>12, RaiseType, AfterReleaseType DEF ReleaseDelete, Delete,
     NoEffect
<1>13. ASSUME NEW a \in Attempt, ApiError(a) PROVE HolderHasLockInTerm'
  BY <1>0, <1>13, RaiseType DEF ApiError
<1>14. ASSUME NEW a \in Attempt, AnswerLost(a) PROVE HolderHasLockInTerm'
  BY <1>0, <1>14, RaiseType DEF AnswerLost, Post, Delete, Put
<1>15. ASSUME NEW a \in Attempt, Kill(a) PROVE HolderHasLockInTerm'
  BY <1>0, <1>15, GotoType DEF Kill
<1>16. CASE Tick
  BY <1>0, <1>16 DEF Tick
<1>17. CASE UNCHANGED vars
  BY <1>17 DEF vars
<1>18. QED
  BY <1>1, <1>2, <1>3, <1>4, <1>5, <1>6, <1>7, <1>8, <1>9, <1>10, <1>11,
     <1>12, <1>13, <1>14, <1>15, <1>16, <1>17 DEF Next, Run, Finished

\* A holder reaches the end of its playbook only through a release.
LEMMA LeftHeldStep == IInv /\ [Next]_vars => LeftHeldOnlyAfterError'
<1> SUFFICES ASSUME IInv, [Next]_vars PROVE LeftHeldOnlyAfterError'
  OBVIOUS
<1>0. TypeOK /\ TypeOK'
  BY TypeStep DEF IInv
<1> USE DEF IInv, WillRelease, LockFromHolder, FromHolder, ReadStillMeans,
    LeftHeldOnlyAfterError, Mine, HolderLabel, BeforeCreate, ReadLabel,
    TypeOK, Label, Object
<1>1. ASSUME NEW a \in Attempt, Start(a) PROVE LeftHeldOnlyAfterError'
  BY <1>0, <1>1, GotoType DEF Start
<1>2. ASSUME NEW a \in Attempt, Create(a) PROVE LeftHeldOnlyAfterError'
  BY <1>0, <1>2, GotoType DEF Create, Post, NoEffect
<1>3. ASSUME NEW a \in Attempt, ReadHeld(a) PROVE LeftHeldOnlyAfterError'
  BY <1>0, <1>3, GotoType, RaiseType DEF ReadHeld, Expired
<1>4. ASSUME NEW a \in Attempt, ReclaimDelete(a) PROVE LeftHeldOnlyAfterError'
  BY <1>0, <1>4, GotoType, RaiseType DEF ReclaimDelete, Delete, NoEffect
<1>5. ASSUME NEW a \in Attempt, ReclaimCreate(a) PROVE LeftHeldOnlyAfterError'
  BY <1>0, <1>5, GotoType, RaiseType DEF ReclaimCreate, Post, NoEffect
<1>6. ASSUME NEW a \in Attempt, Verify(a) PROVE LeftHeldOnlyAfterError'
  BY <1>0, <1>6, GotoType, RaiseType DEF Verify
<1>7. ASSUME NEW a \in Attempt, CheckpointRead(a) PROVE LeftHeldOnlyAfterError'
  BY <1>0, <1>7, GotoType, RaiseType DEF CheckpointRead
<1>8. ASSUME NEW a \in Attempt, Refresh(a) PROVE LeftHeldOnlyAfterError'
  BY <1>0, <1>8, GotoType, RaiseType DEF Refresh, Put, NoEffect
<1>9. ASSUME NEW a \in Attempt, Stage(a) PROVE LeftHeldOnlyAfterError'
  BY <1>0, <1>9, GotoType, RaiseType DEF Stage
<1>10. ASSUME NEW a \in Attempt, EndBody(a) PROVE LeftHeldOnlyAfterError'
  BY <1>0, <1>10, GotoType DEF EndBody
<1>11. ASSUME NEW a \in Attempt, ReleaseRead(a) PROVE LeftHeldOnlyAfterError'
  BY <1>0, <1>11, GotoType, AfterReleaseType DEF ReleaseRead
<1>12. ASSUME NEW a \in Attempt, ReleaseDelete(a) PROVE LeftHeldOnlyAfterError'
  BY <1>0, <1>12, RaiseType, AfterReleaseType DEF ReleaseDelete, Delete,
     NoEffect
<1>13. ASSUME NEW a \in Attempt, ApiError(a) PROVE LeftHeldOnlyAfterError'
  BY <1>0, <1>13, RaiseType DEF ApiError
<1>14. ASSUME NEW a \in Attempt, AnswerLost(a) PROVE LeftHeldOnlyAfterError'
  BY <1>0, <1>14, RaiseType DEF AnswerLost, Post, Delete, Put
<1>15. ASSUME NEW a \in Attempt, Kill(a) PROVE LeftHeldOnlyAfterError'
  BY <1>0, <1>15, GotoType DEF Kill
<1>16. CASE Tick
  BY <1>0, <1>16 DEF Tick
<1>17. CASE UNCHANGED vars
  BY <1>17 DEF vars
<1>18. QED
  BY <1>1, <1>2, <1>3, <1>4, <1>5, <1>6, <1>7, <1>8, <1>9, <1>10, <1>11,
     <1>12, <1>13, <1>14, <1>15, <1>16, <1>17 DEF Next, Run, Finished

\* The parts together.
LEMMA IInvStep == IInv /\ [Next]_vars => IInv'
  BY TypeStep, WillReleaseStep, LockStep, ReadStep, TermStep, LeftHeldStep DEF IInv

(***************************************************************************)
(* The inductive invariant holds in every reachable state.                 *)
(***************************************************************************)
THEOREM Inductive == Spec => []IInv
  BY InitIInv, IInvStep, PTL DEF Spec

(***************************************************************************)
(* Two attempts never act as the holder at once while both are inside      *)
(* their lease terms.                                                      *)
(***************************************************************************)
THEOREM MutualExclusionInTerm == Spec => []OneHolderInTerm
<1>1. IInv => OneHolderInTerm
  <2> SUFFICES ASSUME IInv,
                      NEW a \in Attempt, Holding(a), InTerm(a),
                      NEW b \in Attempt, Holding(b), InTerm(b)
               PROVE  a = b
    BY DEF OneHolderInTerm
  <2>1. ~(clock > now[a] + TTL) /\ ~(clock > now[b] + TTL)
    BY DEF InTerm, IInv, TypeOK
  <2>2. Mine(a) /\ Mine(b)
    BY <2>1 DEF IInv, HolderHasLockInTerm
  <2>3. QED
    BY <2>2 DEF Mine
<1>2. QED
  BY <1>1, Inductive, PTL

(***************************************************************************)
(* A playbook that ended without an API error does not leave the lock held *)
(* (refusals, lost races, aborted reclaims and fencing included).          *)
(***************************************************************************)
THEOREM NoLeakWithoutError == Spec => []LeftHeldOnlyAfterError
<1>1. IInv => LeftHeldOnlyAfterError
  BY DEF IInv
<1>2. QED
  BY <1>1, Inductive, PTL

-----------------------------------------------------------------------------
(***************************************************************************)
(* Who may take the lock away.                                             *)
(***************************************************************************)

\* A DELETE that removes the object some attempt b read: b is its holder and
\* releases, or b reclaims and the holder's term is over.
LEMMA DeleteHitsItsTarget ==
  ASSUME IInv, NEW b \in Attempt, pc[b] \in ReadLabel, Delete(b)
  PROVE  /\ lock.holder \in Attempt /\ pc[lock.holder] # "idle"
         /\ pc[b] = "release-delete" => lock.holder = b
         /\ pc[b] = "reclaim-delete" => clock > now[lock.holder] + TTL
<1>1. lock \in Object /\ seen[b] \in Object /\ lock.holder = seen[b].holder
  BY DEF Delete, IInv, ReadStillMeans, TypeOK, Object
<1>2. pc[lock.holder] # "idle"
  BY DEF Delete, IInv, LockFromHolder, FromHolder, BeforeCreate
<1>3. CASE pc[b] = "release-delete"
  BY <1>1, <1>2, <1>3 DEF IInv, ReadStillMeans, Object
<1>4. CASE pc[b] = "reclaim-delete"
  <2>1. now[b] > seen[b].created + TTL /\ now[lock.holder] <= seen[b].created
    BY <1>1, <1>4 DEF IInv, ReadStillMeans, FromHolder, Expired, Object, TypeOK
  <2>2. now[b] <= clock
    BY DEF IInv, WillRelease
  <2>3. QED
    BY <1>1, <1>2, <1>4, <2>1, <2>2 DEF IInv, TypeOK, Object
<1>5. QED
  BY <1>1, <1>2, <1>3, <1>4 DEF Object

\* So a step takes the lock away only rightly.
LEMMA TakenStep == IInv /\ [Next]_vars => [TakenRightly]_vars
<1> SUFFICES ASSUME IInv, Next, Taken PROVE TakenRightly
  BY DEF TakenRightly
<1>0. TypeOK
  BY DEF IInv
<1>1. PICK b \in Attempt :
        /\ Delete(b)
        /\ \/ ReclaimDelete(b) \/ ReleaseDelete(b)
           \/ AnswerLost(b) /\ pc[b] \in {"reclaim-delete", "release-delete"}
  BY <1>0 DEF Next, Run, Taken, Start, Create, ReadHeld, ReclaimDelete, ReclaimCreate,
     Verify, CheckpointRead, Refresh, Stage, EndBody, ReleaseRead, ReleaseDelete,
     ApiError, AnswerLost, Kill, Tick, Finished, vars, Post, Put, NoEffect,
     TypeOK, Object
<1>2. pc[b] \in {"reclaim-delete", "release-delete"}
  BY <1>1 DEF ReclaimDelete, ReleaseDelete
<1>3. CASE pc[b] = "release-delete"
  <2>1. pc'[b] # "release-delete"
    BY <1>0, <1>1, <1>3, RaiseType, AfterReleaseType
       DEF ReclaimDelete, ReleaseDelete, AnswerLost
  <2>2. QED
    BY <1>1, <1>3, <2>1, DeleteHitsItsTarget DEF ReadLabel, TakenRightly
<1>4. CASE pc[b] = "reclaim-delete"
  BY <1>1, <1>4, DeleteHitsItsTarget DEF ReadLabel, TakenRightly
<1>5. QED
  BY <1>2, <1>3, <1>4

(***************************************************************************)
(* A lock object disappears only by its holder's own release or after its  *)
(* holder's term: no late DELETE ever hits a newer attempt's lock.         *)
(***************************************************************************)
THEOREM TakenOnlyRightly == Spec => TakenOnlyByHolderOrPastTerm
  BY TakenStep, Inductive, PTL DEF Spec, TakenOnlyByHolderOrPastTerm

-----------------------------------------------------------------------------
(***************************************************************************)
(* The lock implements the lease.                                          *)
(***************************************************************************)

\* Nobody owns the facility at the start.
LEMMA LeaseInitHolds == Init => Lease!LeaseInit
  BY DEF Init, Lease!LeaseInit, Owner, Believers, Aged, Holding, HolderLabel

\* Every step of the protocol is a step of the lease or leaves it alone.
LEMMA LeaseStep == IInv /\ [Next]_vars => [Lease!LeaseNext]_Lease!leaseVars
<1> SUFFICES ASSUME IInv, [Next]_vars
             PROVE  Lease!LeaseNext \/ UNCHANGED Lease!leaseVars
  OBVIOUS
<1>0. TypeOK
  BY DEF IInv
<1> USE DEF Owner, Believers, Aged, Holding, HolderLabel, Label, TypeOK, Object,
    Lease!leaseVars
<1>1. ASSUME NEW a \in Attempt, Start(a)
      PROVE  UNCHANGED Lease!leaseVars
  BY <1>0, <1>1, GotoType DEF Start
<1>2. ASSUME NEW a \in Attempt, Create(a)
      PROVE  Lease!Grant(a) \/ UNCHANGED Lease!leaseVars
  BY <1>0, <1>2, GotoType DEF Create, Post, NoEffect, Lease!Grant
<1>3. ASSUME NEW a \in Attempt, ReadHeld(a)
      PROVE  UNCHANGED Lease!leaseVars
  BY <1>0, <1>3, GotoType, RaiseType DEF ReadHeld
<1>4. ASSUME NEW a \in Attempt, ReclaimDelete(a)
      PROVE  Lease!Evict \/ UNCHANGED Lease!leaseVars
  BY <1>0, <1>4, GotoType, RaiseType, DeleteHitsItsTarget
     DEF ReclaimDelete, Delete, NoEffect, ReadLabel, Lease!Evict
<1>5. ASSUME NEW a \in Attempt, ReclaimCreate(a)
      PROVE  Lease!Grant(a) \/ UNCHANGED Lease!leaseVars
  BY <1>0, <1>5, GotoType, RaiseType DEF ReclaimCreate, Post, NoEffect, Lease!Grant
<1>6. ASSUME NEW a \in Attempt, Verify(a)
      PROVE  Lease!Confirm(a) \/ UNCHANGED Lease!leaseVars
  BY <1>0, <1>6, GotoType, RaiseType DEF Verify, Mine, Lease!Confirm
<1>7. ASSUME NEW a \in Attempt, CheckpointRead(a)
      PROVE  Lease!Withdraw(a) \/ UNCHANGED Lease!leaseVars
  BY <1>0, <1>7, GotoType, RaiseType DEF CheckpointRead, Lease!Withdraw
<1>8. ASSUME NEW a \in Attempt, Refresh(a)
      PROVE  Lease!Withdraw(a) \/ UNCHANGED Lease!leaseVars
  BY <1>0, <1>8, GotoType, RaiseType DEF Refresh, Put, NoEffect, Lease!Withdraw
<1>9. ASSUME NEW a \in Attempt, Stage(a)
      PROVE  Lease!Withdraw(a) \/ UNCHANGED Lease!leaseVars
  BY <1>0, <1>9, GotoType, RaiseType DEF Stage, Lease!Withdraw
<1>10. ASSUME NEW a \in Attempt, EndBody(a)
      PROVE  Lease!Withdraw(a)
  BY <1>0, <1>10, GotoType DEF EndBody, Lease!Withdraw
<1>11. ASSUME NEW a \in Attempt, ReleaseRead(a)
      PROVE  UNCHANGED Lease!leaseVars
  BY <1>0, <1>11, GotoType, AfterReleaseType DEF ReleaseRead
<1>12. ASSUME NEW a \in Attempt, ReleaseDelete(a)
      PROVE  Lease!Release(a) \/ UNCHANGED Lease!leaseVars
  BY <1>0, <1>12, RaiseType, AfterReleaseType, DeleteHitsItsTarget
     DEF ReleaseDelete, Delete, NoEffect, ReadLabel, Lease!Release
<1>13. ASSUME NEW a \in Attempt, ApiError(a)
      PROVE  Lease!Withdraw(a) \/ UNCHANGED Lease!leaseVars
  BY <1>0, <1>13, RaiseType DEF ApiError, CallLabel, Lease!Withdraw
<1>14. ASSUME NEW a \in Attempt, AnswerLost(a)
      PROVE  Lease!LeaseNext
  <2>1. CASE pc[a] \in {"create", "reclaim-create"}
    <3>1. Lease!Grant(a)
      BY <1>0, <1>14, <2>1, RaiseType DEF AnswerLost, Post, Lease!Grant
    <3>2. QED
      BY <3>1 DEF Lease!LeaseNext
  <2>2. CASE pc[a] = "reclaim-delete"
    <3>1. Lease!Evict
      BY <1>0, <1>14, <2>2, RaiseType, DeleteHitsItsTarget
         DEF AnswerLost, Delete, ReadLabel, Lease!Evict
    <3>2. QED
      BY <3>1 DEF Lease!LeaseNext
  <2>3. CASE pc[a] = "release-delete"
    <3>1. Lease!Release(a)
      BY <1>0, <1>14, <2>3, RaiseType, DeleteHitsItsTarget
         DEF AnswerLost, Delete, ReadLabel, Lease!Release
    <3>2. QED
      BY <3>1 DEF Lease!LeaseNext
  <2>4. CASE pc[a] = "refresh"
    <3>1. Lease!Withdraw(a)
      BY <1>0, <1>14, <2>4, RaiseType DEF AnswerLost, Put, Lease!Withdraw
    <3>2. QED
      BY <3>1 DEF Lease!LeaseNext
  <2>5. QED
    BY <1>14, <2>1, <2>2, <2>3, <2>4 DEF AnswerLost
<1>15. ASSUME NEW a \in Attempt, Kill(a)
      PROVE  Lease!Withdraw(a) \/ UNCHANGED Lease!leaseVars
  BY <1>0, <1>15, GotoType DEF Kill, Stopped, Lease!Withdraw
<1>16. CASE Tick
  <2>1. Lease!Age(Aged')
    BY <1>0, <1>16 DEF Tick, Lease!Age
  <2>2. Aged' \in SUBSET Attempt
    OBVIOUS
  <2>3. QED
    BY <2>1, <2>2 DEF Lease!LeaseNext, Lease!Age
<1>17. CASE UNCHANGED vars
  BY <1>17 DEF vars
<1>18. QED
  BY <1>1, <1>2, <1>3, <1>4, <1>5, <1>6, <1>7, <1>8, <1>9, <1>10, <1>11, <1>12,
     <1>13, <1>14, <1>15, <1>16, <1>17 DEF Next, Run, Finished, Lease!LeaseNext

(***************************************************************************)
(* Every behaviour of the lock protocol is a behaviour of the lease it     *)
(* promises to the playbooks.                                              *)
(***************************************************************************)
THEOREM LockImplementsLease == Spec => ImplementsLease
  BY LeaseInitHolds, LeaseStep, Inductive, PTL
     DEF Spec, ImplementsLease, Lease!LeaseSpec
=============================================================================
