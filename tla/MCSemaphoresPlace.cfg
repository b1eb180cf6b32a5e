SPECIFICATION Spec
CONSTANTS
  NbProcs = 1
  MaxPrio = 1
  NbMaxSema = 3
  MaxShort = 1
  LastId = 7
  Ids = {1, 2, 3, 4, 5, 6, 7}
  Resets <- MCResets
PROPERTIES PlaceFree
