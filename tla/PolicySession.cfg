SPECIFICATION Spec
CONSTANTS
  wipe = wipe
  both = both
  late = late
  extra = extra
  plain = plain
  floor = floor
  wider = wider
  risk = risk
  other = other
  NoPattern = NoPattern
  Command = {wipe, both, late, extra, plain}
  Pattern = {floor, wider, risk, other}
  Hits <- MCHits
  Covers <- MCCovers
  DefaultTier1 <- MCDefaultTier1
  DefaultTier2 <- MCDefaultTier2
  PolicyFile <- MCPolicyFile
  EnvMode <- MCEnvMode
INVARIANTS
  TypeOK
  FloorHolds
  AllowedIffCleared
PROPERTIES
  ApprovalIsNarrow
CHECK_DEADLOCK FALSE
