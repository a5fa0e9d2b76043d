SPECIFICATION CatalogFairSpec
CONSTANTS
  p1 = p1
  p2 = p2
  l1 = l1
  x1 = x1
  x2 = x2
  x3 = x3
  NoOne = NoOne
  Attempt = {p1, p2}
  Purge = {p1, p2}
  Play = {}
  Service = {x1, x2}
  Own = {x1}
  Unborn = {}
  MaxEdits = 0
  Faults = {"kill"}
PROPERTIES RerunConverges
