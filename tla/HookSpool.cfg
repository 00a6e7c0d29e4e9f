\* Once every packet is settled or stuck, nothing is left to do.
CONSTANTS
  Packets = {1, 2, 3}
  Drainers = {d1, d2}
  s1 = s1
  Sessions = {s1}
  Content <- SessionContent
  Limit = 2
  MaxThrows = 2
  MaxCrashes = 1
  None = None
SPECIFICATION Spec
SYMMETRY Symmetry
INVARIANTS TypeOK OneOwner ProcessedIsPersisted PromptsAreNumbered DamageNeedsFailures
PROPERTY ImplementsDelivery
CHECK_DEADLOCK FALSE
