\* Nodes that are punctual and nodes that are not; links die, tasks are cancelled.
SPECIFICATION FairSpec
INVARIANTS
  TypeOK
  OutputIsOwn
  OutputMeansRun
  RunsElevated
  NoSecretRun
PROPERTIES KeepsToolCall CallReturns
