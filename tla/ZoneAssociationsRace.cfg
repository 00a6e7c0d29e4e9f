\* Two hook processes normalize the events of one turn.
CONSTANTS
  Events = {1, 2}
  Procs = {p1, p2}
  MaxAborts = 0
  j1 = j1
  j2 = j2
  src = src
  docs = docs
  api = api
  test = test
  lint = lint
  Jobs = {j1}
  Zones = {src, docs}
  ZoneIds <- MCTwoZones
  Scale = 100
  Commands = {test}
  Deploying = {}
  Facts <- RacingFacts
  None = None
SPECIFICATION Spec
SYMMETRY Symmetry
INVARIANT SupportCountsJobsOnce
CHECK_DEADLOCK FALSE
