\* The incomplete packet is put back for ever, so the system need not stop, but may.
CONSTANTS
  Packets = {1, 2, 3}
  Drainers = {d1, d2}
  s1 = s1
  Sessions = {s1}
  Content <- PoisonContent
  Limit = 2
  MaxThrows = 1
  MaxCrashes = 1
  None = None
SPECIFICATION FairSpec
PROPERTY EveryPacketSettles
CHECK_DEADLOCK FALSE
