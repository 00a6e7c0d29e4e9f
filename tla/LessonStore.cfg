\* Runs, validations and proposals are bounded: in the end nothing is left to do.
CONSTANTS
  g1 = g1
  g2 = g2
  r1 = r1
  r2 = r2
  m1 = m1
  m2 = m2
  Lessons = {1, 2}
  Groups = {g1, g2}
  Runs = {r1, r2}
  Triggers = {m1, m2}
  Weights <- MCWeights
  Unit = 2
  SelectionLimit = 1
  MarkInterval = 1
  Histories <- NearVerdicts
  MaxReflections = 2
  MaxDecisions = 2
  MaxValidations = 2
  MaxCrashes = 1
  None = None
  Arms = {"a1", "a2", "a3", "a4"}
  ArmClass <- MCArmClass
  Traces <- MCTraces
  One = 12
  Shares = {0, 6}
  Limit0 = 1
  MinStratumDecisions = 1
  MinCalibration = 1
  Legacies <- MCLegacies
  MaxReplays = 3
  MaxCutReplays = 1
  Nothing = Nothing
SPECIFICATION StoresSpec
INVARIANTS StoresTypeOK  CreditIsKept CreditIsReadBack
PROPERTY OneLessonPerGroup
SYMMETRY Alike
CHECK_DEADLOCK FALSE
