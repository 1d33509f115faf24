SPECIFICATION Spec
CONSTANTS
  Kinds = {"Tuple"}
  Values = {x, y}
  Missing = Missing
  None = None
  MaxItems = 2
  MaxContainers = 2
  MaxItemObjects = 4
  MaxSteps = 6
PROPERTIES
  StatementsReachStorage
CHECK_DEADLOCK FALSE
