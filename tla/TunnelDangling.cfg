SPECIFICATION Spec
CONSTANTS
  k1 = k1
  k2 = k2
  k3 = k3
  Conn = {k1, k2}
  Origin <- BothFromA
  None = None
  MaxChannel = 2
  MaxSlot = 4
  MaxSend = 1
  HangUp = {}
  Immediate = FALSE
  LinkFails = TRUE
INVARIANT NoUseAfterDelete
CHECK_DEADLOCK FALSE
