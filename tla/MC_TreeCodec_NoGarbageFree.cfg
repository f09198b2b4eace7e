CONSTANTS
  Trees <- MCTrees
SPECIFICATION Spec
INVARIANT
  NoGarbageFree
