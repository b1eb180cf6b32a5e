SPECIFICATION Spec
CONSTANTS
  NbProcs = 1
  MaxPrio = 1
  NbQueues = 1
  Sizes = {2}
  Msg = {1, 2}
  ResetIds = {0}
  Receivers = {TRUE}
INVARIANTS IndicesAgree
