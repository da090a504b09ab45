SPECIFICATION FairSpec
CONSTANTS
  k1 = k1
  k2 = k2
  k3 = k3
  Conn = {k1, k2, k3}
  Origin <- AllFromA
  None = None
  MaxChannel = 2
  MaxSlot = 4
  MaxSend = 1
  HangUp = {}
  Immediate = TRUE
  LinkFails = TRUE
INVARIANTS ClientOwnsSlot
PROPERTIES ImplementsPipes RequestAnswered DataArrives
CHECK_DEADLOCK FALSE
