SPECIFICATION CatalogSpec
CONSTANTS
  p1 = p1
  p2 = p2
  l1 = l1
  x1 = x1
  x2 = x2
  x3 = x3
  NoOne = NoOne
  Attempt = {p1, l1}
  Purge = {p1}
  Play = {l1}
  Service = {x1, x3}
  Own = {x1, x3}
  Unborn = {x3}
  MaxEdits = 1
  Faults = {"kill", "api"}
INVARIANTS CatalogTypeOK SuccessMeansGone OnePurgeEvent LaunchedIsGrouped
PROPERTIES DeletesOnlyResidue TagOutlivesMembers NotesSurvive DisturbedOnlyByStrays
