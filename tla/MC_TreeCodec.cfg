CONSTANTS
  Trees <- MCTrees
SPECIFICATION Spec
INVARIANTS
  RoundTrip
  ImportedTreeFreesCleanly
