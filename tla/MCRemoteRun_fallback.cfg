CONSTANTS
  Sources     <- MCSources
  FlexNet     <- MCFlexNet
  Callsigns   <- MCCallsigns
  Tables      <- MCTables
  Jumped      <- MCJumped
  MaxAttempts = 2
SPECIFICATION Spec
INVARIANT FallsBack
