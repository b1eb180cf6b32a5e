CONSTANTS
  MaxProcs = 4
  MaxPrio = 1
  ShellPrio = 1
  ClockMod = 1
  RetVals = {1}
SPECIFICATION Spec
INVARIANT DeadStayAllocated
