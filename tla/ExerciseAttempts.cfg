\* A process that threw once more than MaxAborts allows has nowhere to go.
CONSTANTS
  Events = {1, 2, 3}
  Procs = {p1, p2}
  MaxAborts = 1
  a1 = a1
  a2 = a2
  r1 = r1
  Attempts = {a1, a2}
  Runs = {r1}
  RunOf <- MCRunOf
  Facts <- MCFacts
  MaxManual = 1
  None = None
SPECIFICATION Spec
CONSTRAINT OneDisturbance
SYMMETRY Symmetry
INVARIANTS TypeOK StandingIsBacked ScoreIsEvidence
CHECK_DEADLOCK FALSE
