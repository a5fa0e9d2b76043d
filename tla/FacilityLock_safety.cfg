SPECIFICATION Spec
CONSTANTS
  a1 = a1
  a2 = a2
  a3 = a3
  Attempt = {a1, a2, a3}
  Checkpointed = {a1, a2}
  NoLock = NoLock
  TTL = 1
  MaxAttempts = 2
  MaxClock = 4
  Faults = {"kill"}
VIEW LiveView
SYMMETRY LaunchSymmetry
INVARIANTS TypeOK OneHolderInTerm
PROPERTIES TakenOnlyByHolderOrPastTerm ImplementsLease
