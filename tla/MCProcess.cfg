SPECIFICATION Spec
CONSTANTS
  MaxProcs = 4
  MaxPrio = 2
  ShellPrio = 1
  ClockMod = 2
  RetVals = {1}
INVARIANTS TypeOK QueuesMatchStates FamilyTree NoLostWait WaitedChildThere PidPool PidAvailable QueuesSorted IInv
PROPERTIES NoRevival OnlyParentReaps BestElected Fifo
