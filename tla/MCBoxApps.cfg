SPECIFICATION Spec
CONSTANTS
  Apps = {a, b}
  NoApp = NoApp
  Names = {k}
  Missing = Missing
  Bytes = {0, 1}
  MaxBoxSize = 2
PROPERTIES
  ContentsAreKept
INVARIANTS
  TypeOK
  EditsAreBytewise
SYMMETRY MCSymmetry
