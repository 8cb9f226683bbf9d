SPECIFICATION FairSpec
CONSTANTS
  Hosts <- HostList
  MaxConcurrent = 2
INVARIANTS
  TypeOK
  ProgressIsHonest
  ReportIsComplete
  NotExecutedIsTrue
PROPERTIES
  ImplementsSlotPool
  OutcomesAreIndependent
  BatchSettles
CHECK_DEADLOCK FALSE
