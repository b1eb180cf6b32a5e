SPECIFICATION Spec
CONSTANTS
  NbProcs = 3
  MaxPrio = 2
  NbQueues = 1
  Sizes = {2}
  Msg = {1}
  ResetIds = {0}
  Receivers = {FALSE}
INVARIANTS TypeOK WaitersCounted NoWaitInVain WaitersChained ErrorIsCurrent
PROPERTIES ServedFirst
