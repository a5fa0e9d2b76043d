SPECIFICATION SwitchSpec
CONSTANTS
  s1 = s1
  s2 = s2
  l1 = l1
  A = A
  B = B
  NoOne = NoOne
  NoSource = NoSource
  Attempt = {s1, l1}
  SwitchRun = {s1}
  LaunchRun = {l1}
  Source = {A, B}
  MaxPolls = 2
  MaxRestarts = 1
  Faults = {"kill", "api", "helm"}
VIEW SwitchView
SYMMETRY SourceSymmetry
INVARIANTS SwitchTypeOK OneEvent QuiescedWhileSwitching
PROPERTIES EventTellsTheTruth SelectMatchesViewer LaunchKeepsSelection
