CONSTANTS
  Trees <- MCTrees
SPECIFICATION Spec
INVARIANT
  NoNullIndex
