SPECIFICATION Spec
CONSTANTS
  k1 = k1
  k2 = k2
  k3 = k3
  Conn = {k1, k2}
  Origin <- FromBoth
  None = None
  MaxChannel = 2
  MaxSlot = 4
  MaxSend = 1
  HangUp = {"A", "B"}
  Immediate = TRUE
  LinkFails = TRUE
INVARIANTS TypeOK TableConsistent RequestsOnce ReadWhenConnected ReplyOnceAndFirst CountCoversTable
PROPERTIES DriftsByLossOnly
CHECK_DEADLOCK FALSE
