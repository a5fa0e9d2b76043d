SPECIFICATION RunSpec
CONSTANTS
  l1 = l1
  l2 = l2
  t1 = t1
  b1 = b1
  s1 = s1
  i1 = i1
  i2 = i2
  NoOne = NoOne
  Attempt = {l1, l2, b1}
  Launch = {l1, l2}
  Teardown = {}
  Rollback = {b1}
  Switch = {}
  Id = {i1, i2}
  Faults = {"api"}
SYMMETRY RunSymmetry
INVARIANTS RefusalKeepsBaselines NoSecondMarker UnfinishedLaunchCanBeRolledBack
