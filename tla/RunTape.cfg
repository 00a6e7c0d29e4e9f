\* A completed or blocked tape accepts nothing more: the system may stop there.
CONSTANTS
  Runs = {r1}
  Writers = {w1, w2, w3}
  MaxCells = 9
  None = None
SPECIFICATION Spec
SYMMETRY Symmetry
INVARIANTS TypeOK TapesLegal VerdictsAreEarned
PROPERTY ImplementsAtomicTape
CHECK_DEADLOCK FALSE
