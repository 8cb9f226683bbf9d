SPECIFICATION SpecOutput
CONSTANTS
  Posts = 2
  MaxParts = 6
  PartNames = 5
  PartBytes = 2
  Cap = 4
  SniffBytes = 2
  Printed <- MCPrinted
  ExitDigits <- MCExitDigits
INVARIANTS
  TypeOK
  ExitCodeIsEarned
  DecodeAgrees
  OutputSurvives
PROPERTY RemovesOnlyItsOwn
CHECK_DEADLOCK FALSE
