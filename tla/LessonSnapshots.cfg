\* One run with two cycles before its validation.
CONSTANTS
  g1 = g1
  g2 = g2
  Lessons = {1}
  Groups = {g1, g2}
  Runs = {r1}
  Triggers = {m1, m2}
  Weights <- MCWeights
  Unit = 2
  SelectionLimit = 1
  MarkInterval = 2
  Histories <- NearQuarantine
  MaxReflections = 1
  MaxDecisions = 3
  MaxValidations = 1
  MaxCrashes = 0
  None = None
SPECIFICATION Spec
INVARIANT SnapshotIsLandscape
CHECK_DEADLOCK FALSE
