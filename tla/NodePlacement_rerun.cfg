CONSTANTS
  Projects = {"p", "q"}
  Nodes = {"n", "m"}
  Commands = {"c", "d", "e"}
  AnyNode = "auto"
  Sync = "sync"
  None = none
  Setups <- MCRerun
SPECIFICATION Spec
PROPERTIES
  RerunAttaches
CHECK_DEADLOCK FALSE
