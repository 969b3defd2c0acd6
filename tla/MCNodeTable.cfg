CONSTANTS
  Names <- MCNames
  Types <- MCTypes
  Files <- MCFiles
SPECIFICATION Spec
INVARIANTS TypeOK SimpleChain ServedMeansGrounded NeverBroken PathReachesTarget
