SPECIFICATION Spec
CONSTANTS
  NbProcs = 2
  MaxPrio = 1
  NbQueues = 1
  Sizes = {1, 2}
  Msg = {1, 2}
  ResetIds = {}
  Receivers = {TRUE}
INVARIANTS QueuesAccounted
PROPERTIES MessagePromise
