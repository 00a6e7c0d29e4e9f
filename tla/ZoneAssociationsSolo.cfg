\* One process, many batches: it stops once every event is normalized.
CONSTANTS
  Events = {1, 2, 3, 4, 5}
  Procs = {p1}
  MaxAborts = 0
  j1 = j1
  j2 = j2
  src = src
  docs = docs
  api = api
  test = test
  lint = lint
  Jobs = {j1, j2}
  Zones = {src, docs, api}
  ZoneIds <- MCThreeZones
  Scale = 100
  Commands = {test, lint}
  Deploying = {test}
  Facts <- SoloFacts
  None = None
SPECIFICATION Spec
INVARIANTS CountersAreExact RecommendationsRecount
CHECK_DEADLOCK FALSE
