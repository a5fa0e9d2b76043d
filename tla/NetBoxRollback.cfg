SPECIFICATION NetBoxSpec
CONSTANTS
  a = a
  b = b
  o1 = o1
  o2 = o2
  p = p
  q = q
  Elsewhere = Elsewhere
  Finalised = Finalised
  Absent = Absent
  Name = {a, b}
  Own = {o1, o2}
  Foreign = {p, q}
  MaxId = 3
  MaxEdits = 1
  MaxTries = 2
  Faults = {"kill", "api"}
SYMMETRY NetBoxSymmetry
PROPERTIES FoundRecordsStay ForeignPartsSurvive CleanMeansAsFound UndisturbedIsClean
CHECK_DEADLOCK FALSE
