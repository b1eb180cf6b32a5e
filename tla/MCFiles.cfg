SPECIFICATION Spec
CONSTANTS
  MinSize = 4
  Doublings = 2
  Key = {"a","b","c"}
  Hash <- MCHash
  Byte = {1}
  MaxLen = 2
  MaxFiles = 3
  MaxOpen = 1
  MaxFails = 1
INVARIANTS TableSound FileBounds
PROPERTIES FilePromise
CHECK_DEADLOCK FALSE
