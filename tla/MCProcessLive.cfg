SPECIFICATION FairSpec
CONSTANTS
  MaxProcs = 4
  MaxPrio = 1
  ShellPrio = 1
  ClockMod = 2
  RetVals = {1}
PROPERTIES TerminationContract SleeperWoken TopRuns
