CONSTANTS
  Nodes  <- MCNodes
  Tables <- MCTables
  Typed  <- MCTyped
  Args   <- MCArgs
  Numbers <- MCNumbers
SPECIFICATION Spec
INVARIANTS TypeOK  ApprovedFamily ChainedAsDocumented
PROPERTY BlockRuns
