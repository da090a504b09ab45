SPECIFICATION FairSpec
CONSTANTS
  o1 = o1
  o2 = o2
  o3 = o3
  o4 = o4
  Obj = {o1, o2, o3}
  Null = Null
  MaxFd = 1
  MaxTimers = 1
PROPERTY InputServed
CHECK_DEADLOCK FALSE
