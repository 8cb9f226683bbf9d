SPECIFICATION Spec
CONSTANTS
  Posts = 3
  MaxParts = 4
  PartNames = 3
INVARIANT OkIsComplete
CHECK_DEADLOCK FALSE
