SPECIFICATION FairSpec
CONSTANTS
  k1 = k1
  k2 = k2
  k3 = k3
  Conn = {k1, k2}
  Origin <- FromBoth
  None = None
  MaxChannel = 4
  MaxSlot = 6
  MaxSend = 0
  HangUp = {}
  Immediate = FALSE
  LinkFails = FALSE
PROPERTY ObufWritten
CHECK_DEADLOCK FALSE
