SPECIFICATION Spec
CONSTANTS
  NbProcs = 2
  MaxPrio = 2
  TailleTamp = 3
  Keys = {"c", "cr", "bs", "tab", "up", "down", "none"}
  Lengths = {1, 3}
  Inserts = {2}
  CarefulTypist = TRUE
  KillsWaiters = FALSE
INVARIANTS BufferInStep
PROPERTIES ConsolePromise
