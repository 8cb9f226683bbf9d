SPECIFICATION GatedFairSpec
CONSTANTS
  restart = restart
  floor = floor
  svc = svc
  Req = {c1, c2}
  Approver = {alice, bob}
  HasDecider = TRUE
  Command = {restart}
  Pattern = {floor, svc}
  NoPattern = NoPattern
  Hits <- MCHits
  Covers <- MCCovers
  DefaultTier1 <- MCTier1
  DefaultTier2 <- MCTier2
  Session = {s1}
  NoSession = NoSession
  NoCommand = NoCommand
  Policy <- MCPolicy
  AllowList <- MCAllowList
  IdleTimeout = 0
  MaxConcurrent = 1
  MaxTime = 1
INVARIANTS
  TypeOK
  AcceptedDecides
  WaiterIsReachable
  AnswerIsObeyed
  RiskIsAnswered
PROPERTIES
  ImplementsOneDecision
  ImplementsSessions
  EveryCallEnds
CHECK_DEADLOCK FALSE
