SPECIFICATION FairSpecTools
CONSTANTS
  Retries = 3
  PollBudget = 3
  LogPolls = 2
INVARIANTS
  TypeOK
  ResultIsHonest
  LogReportIsHonest
PROPERTIES
  ImplementsJobRun
  RunEnds
CHECK_DEADLOCK FALSE
