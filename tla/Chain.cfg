\* One transit node and the target; paths of every timing, stable and not.
CONSTANT Hops = 2
SPECIFICATION FairSpec
INVARIANTS
  TypeOK
  RunsAtTarget
  FamilyOfTarget
  OutputIsOwn
PROPERTIES KeepsToolCall SessionEnds
