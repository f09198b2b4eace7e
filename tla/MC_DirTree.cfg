CONSTANTS
  n1 = n1  n2 = n2
  r = r  x1 = x1  x2 = x2  x3 = x3
  b1 = b1  b2 = b2  b3 = b3  b4 = b4
  Names <- MCNames
  Nodes <- MCNodes
  Root = r
  Blocks <- MCBlocks
  NULL = NULL
SYMMETRY MCSymmetry
SPECIFICATION Spec
INVARIANTS
  TypeOK
  SiblingNamesUnique
PROPERTY
  AbstractDirSpec
