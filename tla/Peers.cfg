SPECIFICATION FairSpec
CONSTANTS
  c1 = c1
  c2 = c2
  p1 = p1
  p2 = p2
  Client = {c1, c2}
  Tunnel = {p1, p2}
  Dialled = {p2}
  From <- Addresses
  Options <- AllowTexts
  Bits = 8
  MaxChannel = 2
  MaxSlot = 2
  MaxDrift = 1
INVARIANTS TypeOK AllowedExactly
PROPERTIES RefusedWhenFull WaitingAnswered
CHECK_DEADLOCK FALSE
