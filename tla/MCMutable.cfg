SPECIFICATION Spec
CONSTANTS
  Kinds = {"DynamicArray", "Struct", "FixedArray", "Array"}
  Values = {x, y}
  Missing = Missing
  None = None
  MaxItems = 2
  MaxContainers = 2
  MaxItemObjects = 4
  MaxSteps = 6
INVARIANTS
  TypeOK
PROPERTIES
  StatementsReachStorage
  CopiesAreDetached
  OneWritePerRead
SYMMETRY MCSymmetry
CHECK_DEADLOCK FALSE
