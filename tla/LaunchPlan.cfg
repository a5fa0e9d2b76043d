SPECIFICATION PlanSpec
CONSTANTS
  u1 = u1
  u2 = u2
  s1 = s1
  s2 = s2
  bars = bars
  ball = ball
  Missing = Missing
  NoValue = NoValue
  NoParams = NoParams
  Params <- MCParams
  Charts <- MCCharts
  Others <- MCOthers
  Reserves <- MCReserves
  Site = "site"
  Allocatable <- MCAllocatable
  MaxLaunches = 2
  MaxChanges = 1
INVARIANTS AdmittedFits UnbudgetedNeedsOverride TopologyIsPlayable
PROPERTIES RefusedIsTooBig
CHECK_DEADLOCK FALSE
