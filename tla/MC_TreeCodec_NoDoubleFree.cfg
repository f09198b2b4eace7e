CONSTANTS
  Trees <- MCTrees
SPECIFICATION Spec
INVARIANT
  NoDoubleFree
