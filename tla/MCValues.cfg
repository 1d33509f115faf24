SPECIFICATION Spec
CONSTANTS
  ByteBits = 2
  WordBytes = 2
  BigBytes = 2
  MaxBytesSize = 4
  OperandBytes = 2
  Types <- MCTypes
  Natives <- MCNatives
  Depth <- MCDepth
  Values <- MCAllValues
  MaxItems = 3
INVARIANTS
  WordsTypeOK WideIsExact BitsAreAddressed RangesAgree BitwiseIsNumeric IteratorsYieldAll
  AbiTypeOK NoTraceOfFailures LengthIsStatic BytesAreEncoding ItemsAreFound NativesAgree
PROPERTY FixedKeepsLength
CHECK_DEADLOCK FALSE
