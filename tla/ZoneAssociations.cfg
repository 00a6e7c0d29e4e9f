\* A process that was cut off once more than MaxAborts allows has nowhere to go.
CONSTANTS
  Events = {1, 2, 3}
  Procs = {p1, p2}
  MaxAborts = 2
  j1 = j1
  j2 = j2
  src = src
  docs = docs
  api = api
  test = test
  lint = lint
  Jobs = {j1, j2}
  Zones = {src, docs}
  ZoneIds <- MCTwoZones
  Scale = 100
  Commands = {test}
  Deploying = {test}
  Facts <- RacingFacts
  None = None
SPECIFICATION Spec
SYMMETRY Symmetry
INVARIANTS TypeOK WeightIsBalance UncountedNeedsAbort RowsFollowEvents 
CHECK_DEADLOCK FALSE
