SPECIFICATION FairSpec
CONSTANTS
  BattleLoops = 2
  IoThreads = 1
  MaxWorkers = 3
  MaxJobs = 2
INVARIANTS
  JobsNeedSpare
PROPERTIES
  JobsAreRun
  LoopsStart
  SignalEnds
CHECK_DEADLOCK FALSE
