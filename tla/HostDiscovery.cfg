SPECIFICATION SpecSearch
CONSTANTS
  Lookup = {l1, l2}
  Mine = l1
  Asset <- MCAsset
  Query <- MCQuery
  Page <- MCPage
  Passes <- MCPasses
  Answers <- MCAnswers
  Ttl = 1
  Latency = 1
  MaxTime = 4
  None = None
INVARIANTS TypeOK NeverGuesses
PROPERTIES FreshEnough SearchIsSound
CHECK_DEADLOCK FALSE
