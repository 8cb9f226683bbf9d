SPECIFICATION Spec
CONSTANTS
  look = look
  restart = restart
  remove = remove
  wipe = wipe
  floor = floor
  svc = svc
  rm = rm
  Command = {look, restart}
  Pattern = {floor, svc, rm}
  NoPattern = NoPattern
  Hits <- MCHits
  Covers <- MCCovers
  DefaultTier1 <- MCTier1
  DefaultTier2 <- MCTier2
  Session = {s1}
  Call = {c1, c2}
  NoSession = NoSession
  NoCommand = NoCommand
  Policy <- MCPolicy
  AllowList <- MCAllowNothing
  IdleTimeout = 1
  MaxConcurrent = 1
  MaxTime = 0
PROPERTIES
  ExecutionsAreLogged
CHECK_DEADLOCK FALSE
