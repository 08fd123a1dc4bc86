SPECIFICATION Spec
INVARIANT TypeOK
INVARIANT PlanSettles
INVARIANT ChangeMovesOnlyItsOwn
PROPERTY ControllerKeepsReplicas
CONSTANTS
  Partition = {p1}
  Machine = {1, 2, 3, 4}
  NoMachine = 0
  ReplicationFactor = 2
  Scores <- MCScores
