CONSTANTS
  Name = {"a", "b"}
  Caller = {c, d}
  Batch = 1
  Setups <- MCSetups
SPECIFICATION SessionsFairSpec
PROPERTIES
  AgentsLeftAlone
  ReportsAreTrue
  BringUpEnds
