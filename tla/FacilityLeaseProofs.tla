------------------------ MODULE FacilityLeaseProofs ------------------------
(***************************************************************************)
(* Theorems of FacilityLease, for every set of attempts.                   *)
(***************************************************************************)
EXTENDS FacilityLease, TLAPS

\* One step keeps the type of the lease and the term of every holder.
LEMMA LeaseStep ==
  LeaseTypeOK /\ TermHonoured /\ [LeaseNext]_leaseVars => LeaseTypeOK' /\ TermHonoured'
<1> SUFFICES ASSUME LeaseTypeOK, TermHonoured, [LeaseNext]_leaseVars
             PROVE  LeaseTypeOK' /\ TermHonoured'
  OBVIOUS
<1> USE NoOneAssumption DEF LeaseTypeOK, TermHonoured
<1>1. ASSUME NEW a \in Attempt, Grant(a) PROVE LeaseTypeOK' /\ TermHonoured'
  BY <1>1 DEF Grant
<1>2. ASSUME NEW a \in Attempt, Confirm(a) PROVE LeaseTypeOK' /\ TermHonoured'
  BY <1>2 DEF Confirm
<1>3. ASSUME NEW a \in Attempt, Withdraw(a) PROVE LeaseTypeOK' /\ TermHonoured'
  BY <1>3 DEF Withdraw
<1>4. ASSUME NEW a \in Attempt, Release(a) PROVE LeaseTypeOK' /\ TermHonoured'
  BY <1>4 DEF Release
<1>5. CASE Evict
  BY <1>5 DEF Evict
<1>6. ASSUME NEW S \in SUBSET Attempt, Age(S) PROVE LeaseTypeOK' /\ TermHonoured'
  BY <1>6 DEF Age
<1>7. CASE UNCHANGED leaseVars
  BY <1>7 DEF leaseVars
<1>8. QED
  BY <1>1, <1>2, <1>3, <1>4, <1>5, <1>6, <1>7 DEF LeaseNext

(***************************************************************************)
(* Every attempt that acts as the holder inside its term owns the          *)
(* facility, whatever the others do.                                       *)
(***************************************************************************)
THEOREM LeaseHonoursTerms == LeaseSpec => [](LeaseTypeOK /\ TermHonoured)
<1>1. LeaseInit => LeaseTypeOK /\ TermHonoured
  BY DEF LeaseInit, LeaseTypeOK, TermHonoured
<1>2. QED
  BY <1>1, LeaseStep, PTL DEF LeaseSpec

(***************************************************************************)
(* Hence no two attempts act as the holder inside their terms: what the    *)
(* lease gives to every playbook that takes it.                            *)
(***************************************************************************)
THEOREM LeaseExcludes == LeaseSpec => []OneHolderInTerm
<1>1. TermHonoured => OneHolderInTerm
  BY DEF TermHonoured, OneHolderInTerm
<1>2. QED
  BY <1>1, LeaseHonoursTerms, PTL
=============================================================================
