CONSTANTS
  n1 = n1  n2 = n2  n3 = n3
  e1 = e1  e2 = e2  e3 = e3
  p1 = p1  p2 = p2  r1 = r1  r2 = r2
  L = L  T = T  k = k  x = x  y = y  g = g
  NodeId = {n1, n2, n3}
  EdgeId = {e1, e2, e3}
  Label = {L}
  EdgeType = {T}
  Property = {k}
  Value = {0, 1}
  Missing = Missing  Opaque = Opaque
  Indexed = {}
  Alias = {x, y, g}
  Unbound = Unbound  AnyType = AnyType  NoAlias = NoAlias
  Partition = {p1, p2}
  Replica = {r1, r2}
  NoReplica = NoReplica
  Owner <- MCOwner
  Host <- MCHost
  Queries <- MCQueries
  Graphs <- MCGraphs
  Matches <- MCMatches
  Whole = Whole  NoOrder = NoOrder  NoLimit = NoLimit  NoKey = NoKey
  MaxSwaps = 2
SPECIFICATION Spec
INVARIANTS NullsLast
CHECK_DEADLOCK FALSE
