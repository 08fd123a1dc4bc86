SPECIFICATION WrittenSpec
INVARIANT TargetFiltersAreKept
CHECK_DEADLOCK FALSE
CONSTANTS
  n1 = n1
  n2 = n2
  n3 = n3
  e1 = e1
  e2 = e2
  L = L
  M = M
  N = N
  T = T
  U = U
  k = k
  j = j
  x = x
  y = y
  z = z
  g = g
  h = h
  NodeId = {n1, n2, n3}
  EdgeId = {e1, e2}
  Label = {L, M, N}
  EdgeType = {T, U}
  Property = {k, j}
  Value <- MCValue
  Missing = Missing
  Opaque = Opaque
  Indexed <- MCIndexed
  Alias = {x, y, z, g, h, T, U, "true"}
  Unbound = Unbound
  AnyType = AnyType
  NoAlias = NoAlias
  NodeDef <- MCNodeDef
  EdgeDef <- MCEdgeDef
  AnyLabel = AnyLabel
  NoProperty = NoProperty
  Unindexable = {2}
  NoOrder = NoOrder
  NoLimit = NoLimit
  Number <- MCNumber
  LiteralOf <- MCLiteralOf
  Literal <- MCLiteral
  MaxHops = 2
  MaxLimit = 3
  Queries <- MCQueries
  Varied <- MCVaried
  NoQuery = NoQuery
  Graphs <- MCGraphs
