---------------------------- MODULE FacilityLock ----------------------------
(***************************************************************************)
(* The facility lock of roles/l3_run_guard: one ConfigMap that every       *)
(* launch, teardown, rollback, switch and purge playbook creates before    *)
(* it touches the facility and deletes on its way out.                     *)
(*                                                                         *)
(* A process is one acquisition attempt: one invocation of a playbook,     *)
(* with an attempt_id minted in lock.yml.  A step is one call to the API   *)
(* server together with what the tasks after it compute from the answer;   *)
(* the server handles one call at a time.  Between two calls any other     *)
(* attempt may run, time may pass, and the attempt may be killed.          *)
(***************************************************************************)
EXTENDS Naturals, FiniteSets

CONSTANTS
  Attempt,      \* acquisition attempts
  NoLock,       \* the API server's "not found"
  TTL,          \* l3_lock_ttl_seconds, in ticks
  MaxAttempts,  \* l3_lock_acquire_max_attempts
  Checkpointed, \* attempts whose playbook runs lock_checkpoint.yml (all but the switch)
  Faults,       \* the faults of this instance, a subset of {"kill", "api"}
  MaxClock      \* bound on the clock

ASSUME LockAssumption ==
  /\ TTL \in Nat
  /\ MaxAttempts \in Nat \ {0}
  /\ Checkpointed \subseteq Attempt
  /\ MaxClock \in Nat
  /\ Faults \subseteq {"kill", "api"}
  /\ NoLock \notin [uid : Nat, holder : Attempt, created : Nat]
  /\ NoLock \notin Attempt

VARIABLES
  clock,    \* wall clock, date +%s on every executor
  lock,     \* the ConfigMap dmf-facility-lock
  nextUid,  \* the metadata.uid the API server gives to the next object
  pc,       \* where an attempt is
  phase,    \* the part of the playbook's block/rescue/always it runs
  now,      \* l3_now_epoch: read once, before the first POST
  tries,    \* l3_lock_attempt_number
  seen,     \* the last lock object registered from a k8s_info read
  stamp,    \* created_at rendered for a refresh
  acquired, \* l3_lock_acquired is defined
  hurt      \* history: attempts one of whose API calls raised

vars == <<clock, lock, nextUid, pc, phase, now, tries, seen, stamp, acquired, hurt>>

Object == [uid : Nat, holder : Attempt, created : Nat]

Label == {"idle", "create", "held-read", "reclaim-delete", "reclaim-create",
          "verify", "body", "refresh", "checked", "release-read",
          "release-delete", "done", "killed"}

\* Labels at which the attempt's next step is a call to the API server.
CallLabel == Label \ {"idle", "body", "checked", "done", "killed"}

\* Labels at which the playbook acts as the verified holder.
HolderLabel == {"body", "refresh", "checked"}

Stopped == {"done", "killed"}

TypeOK ==
  /\ clock \in Nat
  /\ lock \in Object \cup {NoLock}
  /\ nextUid \in Nat
  /\ pc \in [Attempt -> Label]
  /\ phase \in [Attempt -> {"block", "rescue", "always"}]
  /\ now \in [Attempt -> Nat]
  /\ tries \in [Attempt -> 1..MaxAttempts]
  /\ seen \in [Attempt -> Object \cup {NoLock}]
  /\ stamp \in [Attempt -> Nat]
  /\ acquired \in [Attempt -> BOOLEAN]
  /\ hurt \subseteq Attempt

Init ==
  /\ clock = 0
  /\ lock = NoLock
  /\ nextUid = 0
  /\ pc = [a \in Attempt |-> "idle"]
  /\ phase = [a \in Attempt |-> "block"]
  /\ now = [a \in Attempt |-> 0]
  /\ tries = [a \in Attempt |-> 1]
  /\ seen = [a \in Attempt |-> NoLock]
  /\ stamp = [a \in Attempt |-> 0]
  /\ acquired = [a \in Attempt |-> FALSE]
  /\ hurt = {}

-----------------------------------------------------------------------------
\* Control flow.

Goto(a, label) == pc' = [pc EXCEPT ![a] = label]

\* Mutant of Raise: the rescue does not release.
RaiseWithoutRelease(a) == Goto(a, "done") /\ UNCHANGED phase

\* A task fails: the block goes to its rescue, the rescue to the always, and
\* the always swallows the error (release.yml).  Rescue and always both begin
\* with a release; without an acquired lock that is a no-op to the end.
Raise(a) ==
  IF acquired[a] /\ phase[a] # "always"
  THEN /\ Goto(a, "release-read")
       /\ phase' = [phase EXCEPT ![a] = IF @ = "block" THEN "rescue" ELSE "always"]
  ELSE Goto(a, "done") /\ UNCHANGED phase

\* The API server's side of the three calls that change the object.
Post(a) ==
  /\ lock = NoLock
  /\ lock' = [uid |-> nextUid, holder |-> a, created |-> now[a]]
  /\ nextUid' = nextUid + 1

\* Mutant of Delete: no precondition on the uid.
DeleteBlindly(a) ==
  /\ lock # NoLock
  /\ lock' = NoLock
  /\ UNCHANGED nextUid

Delete(a) ==
  /\ lock # NoLock
  /\ lock.uid = seen[a].uid
  /\ lock' = NoLock
  /\ UNCHANGED nextUid

Put(a) ==
  /\ lock # NoLock
  /\ lock = seen[a]   \* metadata.resourceVersion is that of the read
  /\ lock' = [lock EXCEPT !.created = stamp[a]]
  /\ UNCHANGED nextUid

NoEffect == UNCHANGED <<lock, nextUid>>

Mine(a) == lock # NoLock /\ lock.holder = a

\* Mutant of Expired: the last tick of the term counts as over.
ExpiredEarly(object, epoch) == epoch >= object.created + TTL

Expired(object, epoch) == epoch > object.created + TTL

-----------------------------------------------------------------------------
\* lock.yml and _lock_acquire_one_attempt.yml: acquiring the lock.

\* Mint the attempt, read the clock once, find the API.  Without API access the
\* attempt refuses (lock-unavailable) and never touches the lock.
Start(a) ==
  /\ pc[a] = "idle"
  /\ now' = [now EXCEPT ![a] = clock]
  /\ Goto(a, "create") \/ Goto(a, "done")
  /\ UNCHANGED <<clock, lock, nextUid, phase, tries, seen, stamp, acquired, hurt>>

\* POST: 201 goes to the readback, 409 to the read of the object in the way.
Create(a) ==
  /\ pc[a] = "create"
  /\ \/ Post(a) /\ Goto(a, "verify")
     \/ lock # NoLock /\ NoEffect /\ Goto(a, "held-read")
  /\ UNCHANGED <<clock, phase, now, tries, seen, stamp, acquired, hurt>>

\* Mutants of ReadHeld: the loop without its bound, and no reclaim.
ReadHeldUnbounded(a) ==
  /\ pc[a] = "held-read"
  /\ lock = NoLock
  /\ tries' = [tries EXCEPT ![a] = @ + 1]
  /\ Goto(a, "create")
  /\ UNCHANGED <<clock, lock, nextUid, phase, now, seen, stamp, acquired, hurt>>

ReadHeldNoReclaim(a) ==
  /\ pc[a] = "held-read"
  /\ Raise(a)
  /\ UNCHANGED <<clock, lock, nextUid, now, tries, seen, stamp, acquired, hurt>>

\* Read what is in the way and decide (l3_lock_decision).  Nothing there: the
\* next of MaxAttempts iterations, or the lock-race refusal.  Past its TTL at
\* the epoch read in Start: reclaim.  Else: the facility-busy refusal.
ReadHeld(a) ==
  /\ pc[a] = "held-read"
  /\ \/ /\ lock = NoLock
        /\ tries[a] < MaxAttempts
        /\ tries' = [tries EXCEPT ![a] = @ + 1]
        /\ Goto(a, "create")
        /\ UNCHANGED <<phase, seen>>
     \/ /\ lock = NoLock
        /\ tries[a] = MaxAttempts
        /\ Raise(a)
        /\ UNCHANGED <<tries, seen>>
     \/ /\ lock # NoLock
        /\ Expired(lock, now[a])
        /\ seen' = [seen EXCEPT ![a] = lock]
        /\ Goto(a, "reclaim-delete")
        /\ UNCHANGED <<phase, tries>>
     \/ /\ lock # NoLock
        /\ ~Expired(lock, now[a])
        /\ Raise(a)
        /\ UNCHANGED <<tries, seen>>
  /\ UNCHANGED <<clock, lock, nextUid, now, stamp, acquired, hurt>>

\* DELETE preconditioned on the uid that was read: 200 or 404 goes on, 409 is
\* the loud abort.
ReclaimDelete(a) ==
  /\ pc[a] = "reclaim-delete"
  /\ \/ Delete(a) /\ Goto(a, "reclaim-create") /\ UNCHANGED phase
     \/ lock = NoLock /\ NoEffect /\ Goto(a, "reclaim-create") /\ UNCHANGED phase
     \/ lock # NoLock /\ lock.uid # seen[a].uid /\ NoEffect /\ Raise(a)
  /\ UNCHANGED <<clock, now, tries, seen, stamp, acquired, hurt>>

\* The POST after a reclaim: anything but 201 fails the play.
ReclaimCreate(a) ==
  /\ pc[a] = "reclaim-create"
  /\ \/ Post(a) /\ Goto(a, "verify") /\ UNCHANGED phase
     \/ lock # NoLock /\ NoEffect /\ Raise(a)
  /\ UNCHANGED <<clock, now, tries, seen, stamp, acquired, hurt>>

\* Mutant of Verify: the readback is not compared.
VerifyBlindly(a) ==
  /\ pc[a] = "verify"
  /\ acquired' = [acquired EXCEPT ![a] = TRUE]
  /\ Goto(a, "body")
  /\ UNCHANGED <<clock, lock, nextUid, phase, now, tries, seen, stamp, hurt>>

\* Cluster-truth readback: only an object that names this attempt makes it the
\* holder; anything else is the lock-verify-failed refusal.
Verify(a) ==
  /\ pc[a] = "verify"
  /\ \/ /\ Mine(a)
        /\ acquired' = [acquired EXCEPT ![a] = TRUE]
        /\ Goto(a, "body")
        /\ UNCHANGED phase
     \/ ~Mine(a) /\ Raise(a) /\ UNCHANGED acquired
  /\ UNCHANGED <<clock, lock, nextUid, now, tries, seen, stamp, hurt>>

-----------------------------------------------------------------------------
\* The playbook between acquisition and release.

\* lock_checkpoint.yml: read the lock; a holder that finds its own name renders
\* a refreshed created_at, one that does not is fenced out and fails.
CheckpointRead(a) ==
  /\ pc[a] = "body"
  /\ a \in Checkpointed
  /\ \/ /\ Mine(a)
        /\ seen' = [seen EXCEPT ![a] = lock]
        /\ stamp' = [stamp EXCEPT ![a] = clock]
        /\ Goto(a, "refresh")
        /\ UNCHANGED phase
     \/ ~Mine(a) /\ Raise(a) /\ UNCHANGED <<seen, stamp>>
  /\ UNCHANGED <<clock, lock, nextUid, now, tries, acquired, hurt>>

\* PUT with the resourceVersion of that read; 409 (or 404) fails the play.
Refresh(a) ==
  /\ pc[a] = "refresh"
  /\ \/ Put(a) /\ Goto(a, "checked") /\ UNCHANGED phase
     \/ lock # seen[a] /\ NoEffect /\ Raise(a)
  /\ UNCHANGED <<clock, now, tries, seen, stamp, acquired, hurt>>

\* The mutating stage the checkpoint guards runs, or fails.  The switch runs its
\* stages straight from the body.
Stage(a) ==
  /\ \/ pc[a] = "checked"
     \/ (pc[a] = "body" /\ a \notin Checkpointed)
  /\ \/ Goto(a, "body") /\ UNCHANGED phase
     \/ Raise(a)
  /\ UNCHANGED <<clock, lock, nextUid, now, tries, seen, stamp, acquired, hurt>>

\* The body ends and releases on its own path: success, or a refusal that
\* releases before it fails the play.
EndBody(a) ==
  /\ pc[a] = "body"
  /\ Goto(a, "release-read")
  /\ UNCHANGED <<clock, lock, nextUid, phase, now, tries, seen, stamp, acquired, hurt>>

-----------------------------------------------------------------------------
\* lock_release.yml and release.yml.

\* A release that did not fail: the block goes to the always (success) or to
\* the rescue (refusal), the rescue to the always, the always to the end.
AfterRelease(a) ==
  \/ /\ phase[a] = "always"
     /\ Goto(a, "done")
     /\ UNCHANGED phase
  \/ \E p \in {"rescue", "always"} \ {phase[a]} :
       /\ phase[a] # "always"
       /\ Goto(a, "release-read")
       /\ phase' = [phase EXCEPT ![a] = p]

\* Nothing there, or a lock in another attempt's name: leave it.
ReleaseRead(a) ==
  /\ pc[a] = "release-read"
  /\ \/ /\ Mine(a)
        /\ seen' = [seen EXCEPT ![a] = lock]
        /\ Goto(a, "release-delete")
        /\ UNCHANGED phase
     \/ ~Mine(a) /\ AfterRelease(a) /\ UNCHANGED seen
  /\ UNCHANGED <<clock, lock, nextUid, now, tries, stamp, acquired, hurt>>

ReleaseDelete(a) ==
  /\ pc[a] = "release-delete"
  /\ \/ Delete(a) /\ AfterRelease(a)
     \/ lock = NoLock /\ NoEffect /\ AfterRelease(a)
     \/ lock # NoLock /\ lock.uid # seen[a].uid /\ NoEffect /\ Raise(a)
  /\ UNCHANGED <<clock, now, tries, seen, stamp, acquired, hurt>>

-----------------------------------------------------------------------------
\* Faults and time.

\* A call raises (connection refused, 5xx, timeout) with no effect.
ApiError(a) ==
  /\ "api" \in Faults
  /\ \/ pc[a] \in CallLabel
     \/ pc[a] = "body" /\ a \in Checkpointed
  /\ hurt' = hurt \cup {a}
  /\ Raise(a)
  /\ UNCHANGED <<clock, lock, nextUid, now, tries, seen, stamp, acquired>>

\* A call takes effect at the server, but its answer is lost and it raises.
AnswerLost(a) ==
  /\ "api" \in Faults
  /\ \/ pc[a] \in {"create", "reclaim-create"} /\ Post(a)
     \/ pc[a] \in {"reclaim-delete", "release-delete"} /\ Delete(a)
     \/ pc[a] = "refresh" /\ Put(a)
  /\ hurt' = hurt \cup {a}
  /\ Raise(a)
  /\ UNCHANGED <<clock, now, tries, seen, stamp, acquired>>

\* The executor is killed: neither rescue nor always runs.
Kill(a) ==
  /\ "kill" \in Faults
  /\ pc[a] \notin Stopped \cup {"idle"}
  /\ Goto(a, "killed")
  /\ UNCHANGED <<clock, lock, nextUid, phase, now, tries, seen, stamp, acquired, hurt>>

Tick ==
  /\ clock < MaxClock
  /\ clock' = clock + 1
  /\ UNCHANGED <<lock, nextUid, pc, phase, now, tries, seen, stamp, acquired, hurt>>

\* Every attempt has stopped; nothing happens any more.
Finished ==
  /\ \A a \in Attempt : pc[a] \in Stopped
  /\ clock = MaxClock
  /\ UNCHANGED vars

\* The steps a running playbook takes by itself.
Run(a) ==
  \/ Create(a) \/ ReadHeld(a) \/ ReclaimDelete(a) \/ ReclaimCreate(a) \/ Verify(a)
  \/ CheckpointRead(a) \/ Refresh(a) \/ Stage(a) \/ EndBody(a)
  \/ ReleaseRead(a) \/ ReleaseDelete(a)

Next ==
  \/ \E a \in Attempt :
       \/ Start(a) \/ Run(a)
       \/ ApiError(a) \/ AnswerLost(a) \/ Kill(a)
  \/ Tick
  \/ Finished

Spec == Init /\ [][Next]_vars

\* A playbook that runs executes its tasks in order until it ends.  Nobody has
\* to start one, and no fault has to happen.
FairSpec == Spec /\ \A a \in Attempt : WF_vars(Run(a))

-----------------------------------------------------------------------------
(***************************************************************************)
(* Properties                                                              *)
(***************************************************************************)

\* The lease term of a started attempt: TTL from the clock lock.yml read.
InTerm(a) == pc[a] # "idle" /\ clock <= now[a] + TTL

Holding(a) == pc[a] \in HolderLabel

(***************************************************************************)
(* No two attempts act as the verified holder while both are inside their  *)
(* lease terms, whatever reclaims, refreshes, lost answers and kills       *)
(* happen around them: the "one run at a time" the lock exists for.        *)
(***************************************************************************)
OneHolderInTerm ==
  \A a, b \in Attempt :
    Holding(a) /\ InTerm(a) /\ Holding(b) /\ InTerm(b) => a = b

(***************************************************************************)
(* A step that makes a lock object disappear is its own holder's release,  *)
(* or comes after the holder's lease term: the uid preconditions of the    *)
(* reclaim and of the release never let a late DELETE hit a newer object   *)
(* (lock_release.yml: "Never deleting a lock this attempt doesn't own").   *)
(***************************************************************************)
Taken == lock # NoLock /\ (lock' = NoLock \/ lock'.uid # lock.uid)

TakenRightly ==
  Taken => \/ pc[lock.holder] = "release-delete" /\ pc'[lock.holder] # "release-delete"
           \/ clock > now[lock.holder] + TTL

TakenOnlyByHolderOrPastTerm == [][TakenRightly]_vars

(***************************************************************************)
(* A playbook that ran to its end leaves the lock behind only if one of    *)
(* its calls raised: refusals, lost races, fencing and aborted reclaims    *)
(* all give it back.                                                       *)
(***************************************************************************)
LeftHeldOnlyAfterError ==
  lock # NoLock /\ pc[lock.holder] = "done" => lock.holder \in hurt

(***************************************************************************)
(* A lock that a killed or failed attempt left behind does not block the   *)
(* facility for ever: an attempt that starts after the TTL, with nobody    *)
(* else running, gets the lock unless one of its own calls fails.          *)
(***************************************************************************)
Alone(a) == \A b \in Attempt \ {a} : pc[b] \in Stopped

AbandonedLockIsReclaimed ==
  \A a \in Attempt :
    (pc[a] = "create" /\ Alone(a) /\ lock # NoLock /\ Expired(lock, now[a]))
      ~> (acquired[a] \/ a \in hurt \/ pc[a] = "killed")

\* The lock implements the lease: the owner is the holder written into the
\* object, and a term is over when the clock has passed it.
Owner == IF lock = NoLock THEN NoLock ELSE lock.holder
Believers == {a \in Attempt : Holding(a)}
Aged == {a \in Attempt : pc[a] # "idle" /\ clock > now[a] + TTL}

Lease == INSTANCE FacilityLease WITH
  NoOne <- NoLock, owner <- Owner, believers <- Believers, aged <- Aged

(***************************************************************************)
(* Every behaviour of the lock protocol is a behaviour of the lease.       *)
(***************************************************************************)
ImplementsLease == Lease!LeaseSpec

-----------------------------------------------------------------------------
(***************************************************************************)
(* The inductive invariant behind the safety properties                    *)
(***************************************************************************)

BeforeCreate == {"idle", "create", "held-read", "reclaim-delete", "reclaim-create"}

\* Labels at which an attempt is about to use the object it read.
ReadLabel == {"reclaim-delete", "refresh", "release-delete"}

\* An acquired lock is released by whatever ends the block.
WillRelease ==
  \A a \in Attempt :
    /\ now[a] <= clock
    /\ pc[a] \in BeforeCreate \cup {"verify"} \cup HolderLabel => phase[a] = "block"
    /\ pc[a] \in HolderLabel => acquired[a]
    /\ pc[a] \in {"release-read", "release-delete"} => acquired[a]

\* An object was created by its holder, no earlier than the holder's epoch.
FromHolder(object) ==
  /\ object.uid < nextUid
  /\ pc[object.holder] \notin BeforeCreate
  /\ now[object.holder] <= object.created

LockFromHolder == lock # NoLock => FromHolder(lock)

\* A read that is about to be used: one object per holder, so the uid says whose
\* object the DELETE hits.
ReadStillMeans ==
  \A a \in Attempt : pc[a] \in ReadLabel =>
    /\ seen[a] # NoLock
    /\ FromHolder(seen[a])
    /\ lock # NoLock => (seen[a].uid = lock.uid <=> seen[a].holder = lock.holder)
    /\ pc[a] = "reclaim-delete" => Expired(seen[a], now[a])
    /\ pc[a] \in {"refresh", "release-delete"} => seen[a].holder = a
    /\ pc[a] = "refresh" => now[a] <= stamp[a]

\* A holder inside its term has the lock.
HolderHasLockInTerm ==
  \A a \in Attempt : Holding(a) => Mine(a) \/ clock > now[a] + TTL

IInv ==
  /\ TypeOK
  /\ WillRelease
  /\ LockFromHolder
  /\ ReadStillMeans
  /\ HolderHasLockInTerm
  /\ LeftHeldOnlyAfterError

=============================================================================
