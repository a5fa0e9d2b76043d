--------------------------- MODULE FacilityLease ---------------------------
(***************************************************************************)
(* What the facility lock promises to the playbooks that take it, with the *)
(* Kubernetes object, its uid and its timestamps left out.                 *)
(*                                                                         *)
(* Each acquisition attempt has one lease term, l3_lock_ttl_seconds long,  *)
(* counted from the clock the attempt read when it started.  The promise:  *)
(* until its term is over, nobody but the holder takes the facility away   *)
(* from a holder, so two holders inside their terms never coexist.         *)
(***************************************************************************)
CONSTANTS
  Attempt,    \* acquisition attempts, one per playbook invocation
  NoOne       \* the owner of a free facility

ASSUME NoOneAssumption == NoOne \notin Attempt

VARIABLES
  owner,      \* the attempt the facility is recorded for, or NoOne
  believers,  \* attempts that confirmed their ownership and still act on it
  aged        \* attempts whose lease term is over

leaseVars == <<owner, believers, aged>>

LeaseTypeOK ==
  /\ owner \in Attempt \cup {NoOne}
  /\ believers \subseteq Attempt
  /\ aged \subseteq Attempt

LeaseInit ==
  /\ owner = NoOne
  /\ believers = {}
  /\ aged = {}

\* The free facility is recorded for attempt a.
Grant(a) ==
  /\ owner = NoOne
  /\ a \notin believers
  /\ owner' = a
  /\ UNCHANGED <<believers, aged>>

\* Attempt a reads its own name back, and from then on acts as the holder.
Confirm(a) ==
  /\ owner = a
  /\ believers' = believers \cup {a}
  /\ UNCHANGED <<owner, aged>>

\* Attempt a stops acting as the holder: it is done, has failed or is killed.
Withdraw(a) ==
  /\ a \in believers
  /\ believers' = believers \ {a}
  /\ UNCHANGED <<owner, aged>>

\* Attempt a, which no longer acts on its ownership, gives the facility back.
Release(a) ==
  /\ owner = a
  /\ a \notin believers
  /\ owner' = NoOne
  /\ UNCHANGED <<believers, aged>>

\* Mutant of Evict: an owner inside its term is not spared.
EvictAnyOwner ==
  /\ owner \in Attempt
  /\ owner' = NoOne
  /\ UNCHANGED <<believers, aged>>

\* The facility is taken away from an owner whose term is over.
Evict ==
  /\ owner \in aged
  /\ owner' = NoOne
  /\ UNCHANGED <<believers, aged>>

\* Time passes: the terms of the attempts in S end.
Age(S) ==
  /\ aged' = aged \cup S
  /\ UNCHANGED <<owner, believers>>

LeaseNext ==
  \/ \E a \in Attempt : Grant(a) \/ Confirm(a) \/ Withdraw(a) \/ Release(a)
  \/ Evict
  \/ \E S \in SUBSET Attempt : Age(S)

LeaseSpec == LeaseInit /\ [][LeaseNext]_leaseVars

(***************************************************************************)
(* An attempt that acts as the holder inside its term owns the facility,   *)
(* hence no two attempts do so at once (lock_checkpoint.yml: a second      *)
(* attempt may hold the facility only once the first is fenced out).       *)
(***************************************************************************)
TermHonoured == \A a \in believers \ aged : owner = a

OneHolderInTerm ==
  \A a, b \in believers \ aged : a = b
=============================================================================
