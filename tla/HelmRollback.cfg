SPECIFICATION HelmSpec
CONSTANTS
  v = v
  n = n
  c1 = c1
  c2 = c2
  A = A
  B = B
  NoContent = NoContent
  Unknown = Unknown
  NoSource = NoSource
  Release = {v, n}
  MxlRelease = {v}
  Content = {c1, c2}
  Source = {A, B}
  MaxChanges = 3
  MaxTries = 2
  Faults = {"kill", "api"}
SYMMETRY HelmSymmetry
INVARIANTS UnchangedIsUntouched
PROPERTIES CleanMeansRestored CalmRollbackIsClean CoordinatorSurvives
CHECK_DEADLOCK FALSE
