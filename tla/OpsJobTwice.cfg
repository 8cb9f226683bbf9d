SPECIFICATION Spec
CONSTANTS
  Retries = 3
  PollBudget = 2
INVARIANTS
  OneJobPerRun
CHECK_DEADLOCK FALSE
