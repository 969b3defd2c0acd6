\* Two nodes, so that one lookup may hold up the other session: Slack is KT; Limit
\* leaves room above it, as 5 s do above 2 s, and Idle none, as 0.6 s.
CONSTANTS
  Nodes  = {"xnet", "bpq"}
  Bpq    = {"bpq"}
  Cases  <- MCCases
  Calls  = {1, 2}
  Stored <- MCStored
  InFile <- MCInFile
  KT     = 1
  Limit  = 2
  Idle   = 1
SPECIFICATION FairSpec
INVARIANTS TypeOK OwnPassword Blameless AnswerWhole
PROPERTY SweepAnswers
