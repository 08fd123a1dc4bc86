SPECIFICATION Spec
INVARIANT TypeOK
INVARIANT OneConnectionPerAddress
INVARIANT CurrentMapAnswers
PROPERTY EveryQueryEnds
CONSTANTS
  p0 = p0
  p1 = p1
  a0 = a0
  a1 = a1
  Partition = {0, 1}
  Pod = {p0, p1}
  Address = {a0, a1}
  Query = {q1, q2}
  Free = Free
  ConfiguredFor <- MCConfiguredFor
  Annotations <- MCAnnotations
  Discoveries <- MCDiscoveries
  InitialPods <- MCInitialPods
  MaxChanges = 4
