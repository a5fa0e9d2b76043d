SPECIFICATION SwitchSpec
CONSTANTS
  s1 = s1
  s2 = s2
  l1 = l1
  A = A
  B = B
  NoOne = NoOne
  NoSource = NoSource
  Attempt = {s1}
  SwitchRun = {s1}
  LaunchRun = {}
  Source = {A, B}
  MaxPolls = 1
  MaxRestarts = 1
  Faults = {}
VIEW SwitchView
SYMMETRY SourceSymmetry
INVARIANT SuccessMeansTarget
