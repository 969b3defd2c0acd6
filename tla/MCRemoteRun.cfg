CONSTANTS
  Sources     <- MCSources
  FlexNet     <- MCFlexNet
  Callsigns   <- MCCallsigns
  Tables      <- MCTables
  Jumped      <- MCJumped
  MaxAttempts = 2
SPECIFICATION FairSpec
INVARIANTS TypeOK OneSession BestFirst
PROPERTIES KeepsPlan KeepsToolCall ToolReturns
