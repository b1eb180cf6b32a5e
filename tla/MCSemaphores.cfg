SPECIFICATION Spec
CONSTANTS
  NbProcs = 3
  MaxPrio = 2
  NbMaxSema = 1
  MaxShort = 2
  LastId = 2
  Ids = {1, 2}
  Resets <- MCResets
INVARIANTS TypeOK CountInStep WaitersChained
PROPERTIES HighestFirst SemaphorePromise
