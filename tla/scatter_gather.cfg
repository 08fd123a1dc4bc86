CONSTANTS
  n1 = n1  n2 = n2  n3 = n3
  e1 = e1  e2 = e2  e3 = e3
  p1 = p1  p2 = p2  r1 = r1  r2 = r2
  L = L  M = M  T = T  U = U  k = k
  x = x  y = y  z = z  g = g
  NodeId = {n1, n2, n3}
  EdgeId = {e1, e2, e3}
  Label = {L, M}
  EdgeType = {T, U}
  Property = {k}
  Value = {0, 1}
  Missing = Missing  Opaque = Opaque
  Alias = {x, y, z, g}
  Unbound = Unbound  AnyType = AnyType  NoAlias = NoAlias
  Partition = {p1, p2}
  Replica = {r1, r2}
  NoReplica = NoReplica
  Owner <- MCOwner
  Host <- MCHost
  Indexed <- MCIndexed
  Plans <- MCPlans
  Graphs <- MCGraphs
SPECIFICATION Spec
INVARIANTS TypeOK AnswerIsExact PartialAnswerIsSound OneCallWalksItsPart IInv
PROPERTIES RefinesSearch
CHECK_DEADLOCK FALSE
