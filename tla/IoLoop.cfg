SPECIFICATION Spec
CONSTANTS
  o1 = o1
  o2 = o2
  o3 = o3
  o4 = o4
  Obj = {o1, o2, o3, o4}
  Null = Null
  MaxFd = 2
  MaxTimers = 1
SYMMETRY Symmetry
INVARIANTS TypeOK CountIsRight FdsOwned RunEndsIdle HandlerAlive
CHECK_DEADLOCK FALSE
