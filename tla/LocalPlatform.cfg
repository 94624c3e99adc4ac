CONSTANTS
  Groups <- MCGroups
  Names <- MCNames
  Runtime <- MCRuntime
  Versions = {v1, v2}
  MaxClusters = 2
  MaxSecrets = 2
  Theirs = Theirs
  None = None
SYMMETRY MCSymmetry
SPECIFICATION Spec
INVARIANTS OneGeneration ArgoCanRun
