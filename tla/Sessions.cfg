SPECIFICATION Spec
CONSTANTS
  look = look
  restart = restart
  remove = remove
  wipe = wipe
  floor = floor
  svc = svc
  rm = rm
  Command = {restart, remove, wipe}
  Pattern = {floor, svc, rm}
  NoPattern = NoPattern
  Hits <- MCHits
  Covers <- MCCovers
  DefaultTier1 <- MCTier1
  DefaultTier2 <- MCTier2
  Session = {s1, s2}
  Call = {c1, c2}
  NoSession = NoSession
  NoCommand = NoCommand
  Policy <- MCPolicy
  AllowList <- MCAllowList
  IdleTimeout = 1
  MaxConcurrent = 1
  MaxTime = 2
SYMMETRY Symmetry
INVARIANTS
  TypeOK
  OnlyClearedCommandsRun
  ExemptionsEarned
  AuditAgrees
  OneShotClosed
PROPERTIES
  ImplementsSlotPool
  SessionLifecycle
CHECK_DEADLOCK FALSE
