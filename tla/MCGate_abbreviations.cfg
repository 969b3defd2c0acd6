CONSTANTS
  Nodes  <- MCNodes
  Tables <- MCTables
  Typed  <- MCTyped
  Args   <- MCArgs
  Numbers <- MCNumbers
SPECIFICATION Spec
INVARIANT AbbreviationsRefused
